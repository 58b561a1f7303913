---------------------------- MODULE PlanningProofs ----------------------------
(* Proofs about plans, about the workflows mined from what was done, for      *)
(* every document, history and bound, and about what a cancellation does to   *)
(* the effects of a task, for every plan, every number of requests that       *)
(* cancel at once, and however many of them and of the workers die or outlive *)
(* their leases.                                                              *)
EXTENDS CancellationProperties, Planning, WorkflowMining, FiniteSetTheorems,
        WellFoundedInduction, TLAPS

------------------------------------------------------------------------------
(* Numbers in order.                                                          *)

LEMMA LeastExists ==
    ASSUME NEW S \in SUBSET Nat, S # {}
    PROVE  \E x \in S : \A y \in S : x <= y
<1> DEFINE R == OpToRel(<, Nat)
<1>1. IsWellFoundedOn(R, Nat)
  BY NatLessThanWellFounded
<1> HIDE DEF R
<1>2. PICK x \in S : \A y \in S : <<y, x>> \notin R
  BY <1>1, WFMin
<1>3. \A y \in S : ~(y < x) /\ y \in Nat /\ x \in Nat
  BY <1>2 DEF R, OpToRel
<1> QED BY <1>3

(* The numbers of a set in their order.                                       *)
Ascends(s, S) ==
    /\ s \in [1..Cardinality(S) -> S] /\ Range(s) = S
    /\ \A i, j \in DOMAIN s : i < j => s[i] < s[j]

LEMMA AscentExists ==
    ASSUME NEW N \in Nat, NEW S \in SUBSET (1..N)
    PROVE  \E s : Ascends(s, S)
<1> DEFINE Bad == { n \in Nat : \E T \in SUBSET (1..n) : ~\E s : Ascends(s, T) }
<1>1. ASSUME Bad # {} PROVE FALSE
  <2>1. PICK n \in Bad : \A m \in Bad : n <= m
    <3> HIDE DEF Bad
    <3>1. Bad \in SUBSET Nat
      BY DEF Bad
    <3> QED BY <1>1, <3>1, LeastExists
  <2>2. PICK T \in SUBSET (1..n) : ~\E s : Ascends(s, T)
    OBVIOUS
  <2>3. n \in Nat
    OBVIOUS
  <2>4. \A m \in Nat : m < n => \A U \in SUBSET (1..m) : \E s : Ascends(s, U)
    BY <2>1
  <2> HIDE DEF Bad
  <2>5. n # 0 /\ n \in T
    <3>1. ASSUME n = 0 PROVE FALSE
      <4>1. T = {} /\ Cardinality({}) = 0 /\ 1..0 = {}
        BY <3>1, FS_EmptySet
      <4>2. Ascends(<<>>, {})
        BY <4>1 DEF Ascends, Range
      <4> QED BY <2>2, <4>1, <4>2
    <3>2. ASSUME n \notin T, n # 0 PROVE FALSE
      <4>1. n - 1 \in Nat /\ n - 1 < n /\ T \in SUBSET (1..n - 1)
        BY <2>3, <3>2
      <4> QED BY <2>2, <2>4, <4>1
    <3> QED BY <3>1, <3>2
  <2> DEFINE U == T \ {n}
  <2>6. PICK s : Ascends(s, U)
    <3>1. n - 1 \in Nat /\ n - 1 < n /\ U \in SUBSET (1..n - 1)
      BY <2>3, <2>5
    <3> HIDE DEF U
    <3> QED BY <2>4, <3>1
  <2>7. IsFiniteSet(U) /\ Cardinality(U) \in Nat /\ Cardinality(T) = Cardinality(U) + 1
    <3>1. IsFiniteSet(1..n)
      BY <2>3, FS_Interval
    <3>2. IsFiniteSet(T)
      BY <3>1, FS_Subset
    <3>3. IsFiniteSet(U)
      BY <3>2, FS_Subset
    <3>4. Cardinality(U) \in Nat
      BY <3>3, FS_CardinalityType
    <3>5. T = U \cup {n} /\ n \notin U
      BY <2>5
    <3>6. Cardinality(U \cup {n}) = Cardinality(U) + 1
      <4> HIDE DEF U
      <4> QED BY <3>3, <3>5, FS_AddElement
    <3> QED BY <3>3, <3>4, <3>5, <3>6
  <2> DEFINE c == Cardinality(U)
             r == [k \in 1..c + 1 |-> IF k = c + 1 THEN n ELSE s[k]]
  <2>8. c \in Nat /\ Cardinality(T) = c + 1
    BY <2>7
  <2>9. s \in [1..c -> U] /\ Range(s) = U /\ \A i, j \in 1..c : i < j => s[i] < s[j]
    BY <2>6 DEF Ascends
  <2>10. U \subseteq T /\ T = U \cup {n} /\ n \notin U /\ \A x \in U : x \in 1..n /\ x < n
    BY <2>3, <2>5
  <2> HIDE DEF c, U
  <2>11. r \in [1..c + 1 -> T]
    BY <2>5, <2>8, <2>9, <2>10
  <2>12. \A k \in 1..c : r[k] = s[k] /\ k \in 1..c + 1
    BY <2>8
  <2>13. r[c + 1] = n /\ c + 1 \in 1..c + 1
    BY <2>8
  <2> HIDE DEF r
  <2>14. Range(r) = T
    <3>1. \A x \in U : \E k \in 1..c : s[k] = x
      BY <2>9 DEF Range
    <3>2. \A x \in T : \E k \in 1..c + 1 : r[k] = x
      BY <2>10, <2>12, <2>13, <3>1
    <3> QED BY <2>11, <3>2 DEF Range
  <2>15. \A i, j \in 1..c + 1 : i < j => r[i] < r[j]
    <3>1. ASSUME NEW i \in 1..c + 1, NEW j \in 1..c + 1, i < j PROVE r[i] < r[j]
      <4>1. i \in 1..c
        BY <2>8, <3>1
      <4>2. CASE j = c + 1
        BY <2>9, <2>10, <2>12, <2>13, <4>1, <4>2
      <4>3. CASE j # c + 1
        BY <2>8, <2>9, <2>12, <3>1, <4>1, <4>3
      <4> QED BY <4>2, <4>3
    <3> QED BY <3>1
  <2>16. Ascends(r, T)
    BY <2>8, <2>11, <2>14, <2>15 DEF Ascends
  <2> QED BY <2>2, <2>16
<1>2. N \notin Bad
  BY <1>1
<1> QED BY <1>2

------------------------------------------------------------------------------
(* Planning.                                                                  *)

Size == Cardinality(Aliases)

LEMMA SizeIs == Size \in Nat /\ Aliases = 1..Size /\ IsFiniteSet(Aliases)
<1>1. IsFiniteSet(Aliases) /\ Aliases = 1..Cardinality(Aliases)
  BY PlanningAssumption
<1> QED BY <1>1, FS_CardinalityType DEF Size

(* What holds of the first number and of each after one it holds of.          *)
LEMMA CountsUp ==
    ASSUME NEW K \in Nat, NEW S, 0 \in S, \A n \in 1..K : n - 1 \in S => n \in S
    PROVE  \A n \in 0..K : n \in S
<1> DEFINE Bad == { n \in 0..K : n \notin S }
<1>1. ASSUME Bad # {} PROVE FALSE
  <2>1. PICK n \in Bad : \A m \in Bad : n <= m
    <3>1. Bad \in SUBSET Nat
      OBVIOUS
    <3> HIDE DEF Bad
    <3> QED BY <1>1, <3>1, LeastExists
  <2>2. n \in 1..K /\ n - 1 \in 0..K /\ n - 1 < n
    OBVIOUS
  <2>3. n - 1 \in S
    BY <2>1, <2>2
  <2> QED BY <2>2, <2>3
<1> QED BY <1>1

(* Repeating a step leads somewhere, however often.                           *)
Repeats(f, K, X, start, G) ==
    f \in [0..K -> X] /\ f[0] = start /\ \A n \in 1..K : f[n] = G[f[n - 1]]

LEMMA RepeatExists ==
    ASSUME NEW K \in Nat, NEW X, NEW start \in X, NEW G \in [X -> X]
    PROVE  \E f : Repeats(f, K, X, start, G)
<1> DEFINE Runs(k, f) ==
        f \in [0..k -> X] /\ f[0] = start /\ \A n \in 1..k : f[n] = G[f[n - 1]]
      S == { k \in 0..K : \E f : Runs(k, f) }
<1>1. 0 \in S
  <2> DEFINE z == [n \in 0..0 |-> start]
  <2>1. z \in [0..0 -> X] /\ z[0] = start /\ 1..0 = {}
    OBVIOUS
  <2> HIDE DEF z
  <2>2. Runs(0, z)
    BY <2>1
  <2> QED BY <2>2
<1>2. ASSUME NEW k \in 1..K, k - 1 \in S PROVE k \in S
  <2>1. PICK f : Runs(k - 1, f)
    BY <1>2
  <2> DEFINE g == [n \in 0..k |-> IF n = k THEN G[f[k - 1]] ELSE f[n]]
  <2>2. f \in [0..k - 1 -> X] /\ k - 1 \in 0..k - 1
    BY <2>1
  <2>3. g \in [0..k -> X] /\ g[k] = G[f[k - 1]]
    BY <2>2
  <2>4. \A n \in 0..k - 1 : g[n] = f[n]
    OBVIOUS
  <2> HIDE DEF g
  <2>5. g[0] = start
    BY <2>1, <2>4
  <2>6. ASSUME NEW n \in 1..k PROVE g[n] = G[g[n - 1]]
    <3>1. CASE n = k
      BY <3>1, <2>2, <2>3, <2>4
    <3>2. CASE n # k
      BY <3>2, <2>1, <2>4
    <3> QED BY <3>1, <3>2
  <2>7. Runs(k, g)
    BY <2>3, <2>5, <2>6
  <2> HIDE DEF Runs
  <2> QED BY <2>7
<1> HIDE DEF S
<1>3. \A n \in 0..K : n \in S
  BY <1>1, <1>2, CountsUp
<1>4. K \in S
  BY <1>3
<1> QED BY <1>4 DEF S, Repeats

(* Sequences without a repetition.                                            *)
Distinct(s) == \A i, j \in 1..Len(s) : s[i] = s[j] => i = j

LEMMA FunctionIs ==
    ASSUME NEW D, NEW T, NEW f, f = [i \in D |-> f[i]], \A i \in D : f[i] \in T
    PROVE  f \in [D -> T]
OBVIOUS

LEMMA SequenceIs ==
    ASSUME NEW T, NEW n \in Nat, NEW s \in [1..n -> T]
    PROVE  s \in Seq(T) /\ Len(s) = n /\ DOMAIN s = 1..n
OBVIOUS

LEMMA RangeIs ==
    ASSUME NEW T, NEW s \in Seq(T)
    PROVE  /\ Range(s) \in SUBSET T
           /\ \A x : x \in Range(s) <=> \E i \in 1..Len(s) : s[i] = x
BY DEF Range

LEMMA RangeConcat ==
    ASSUME NEW T, NEW p \in Seq(T), NEW q \in Seq(T)
    PROVE  p \o q \in Seq(T) /\ Range(p \o q) = Range(p) \cup Range(q)
<1>1. /\ p \o q \in Seq(T) /\ Len(p \o q) = Len(p) + Len(q)
      /\ \A i \in 1..Len(p) : (p \o q)[i] = p[i]
      /\ \A i \in 1..Len(q) : (p \o q)[Len(p) + i] = q[i]
  OBVIOUS
<1>2. ASSUME NEW i \in 1..Len(p) + Len(q) PROVE i \in 1..Len(p) \/ i - Len(p) \in 1..Len(q)
  OBVIOUS
<1>3. ASSUME NEW i \in 1..Len(p \o q) PROVE (p \o q)[i] \in Range(p) \cup Range(q)
  <2>1. CASE i \in 1..Len(p)
    BY <1>1, <2>1, RangeIs
  <2>2. CASE i - Len(p) \in 1..Len(q)
    <3>1. (p \o q)[Len(p) + (i - Len(p))] = q[i - Len(p)] /\ Len(p) + (i - Len(p)) = i
      BY <1>1, <2>2
    <3> QED BY <2>2, <3>1, RangeIs
  <2> QED BY <1>1, <1>2, <2>1, <2>2
<1>4. \A i \in 1..Len(p) : i \in 1..Len(p \o q)
  BY <1>1
<1>5. \A i \in 1..Len(q) : Len(p) + i \in 1..Len(p \o q)
  BY <1>1
<1> DEFINE r == p \o q
<1>6. r \in Seq(T)
  BY <1>1
<1>7. Range(p) \subseteq Range(r) /\ Range(q) \subseteq Range(r)
  <2> HIDE DEF r
  <2>1. \A x \in Range(p) : \E i \in 1..Len(r) : r[i] = x
    <3>1. \A i \in 1..Len(p) : i \in 1..Len(r) /\ r[i] = p[i]
      BY <1>1, <1>4 DEF r
    <3> QED BY <3>1, RangeIs
  <2>2. \A x \in Range(q) : \E i \in 1..Len(r) : r[i] = x
    <3>1. \A i \in 1..Len(q) : Len(p) + i \in 1..Len(r) /\ r[Len(p) + i] = q[i]
      BY <1>1, <1>5 DEF r
    <3> QED BY <3>1, RangeIs
  <2> QED BY <1>6, <2>1, <2>2, RangeIs
<1>8. Range(r) \subseteq Range(p) \cup Range(q)
  <2>1. \A i \in 1..Len(r) : r[i] \in Range(p) \cup Range(q)
    BY <1>3
  <2> HIDE DEF r
  <2> QED BY <1>6, <2>1, RangeIs
<1> QED BY <1>1, <1>7, <1>8

LEMMA DistinctConcat ==
    ASSUME NEW T, NEW p \in Seq(T), NEW q \in Seq(T),
           Distinct(p), Distinct(q), Range(p) \cap Range(q) = {}
    PROVE  Distinct(p \o q)
<1>1. /\ Len(p \o q) = Len(p) + Len(q)
      /\ \A i \in 1..Len(p) : (p \o q)[i] = p[i] /\ p[i] \in Range(p)
      /\ \A i \in 1..Len(q) : q[i] \in Range(q)
  BY RangeIs
<1>2. \A i \in 1..Len(p) + Len(q) :
          i > Len(p) => i - Len(p) \in 1..Len(q) /\ (p \o q)[i] = q[i - Len(p)]
  OBVIOUS
<1> DEFINE r == p \o q
<1>3. /\ \A i \in 1..Len(p) : r[i] = p[i]
      /\ \A i \in 1..Len(p) + Len(q) : i > Len(p) => r[i] = q[i - Len(p)]
  BY <1>1, <1>2
<1>4. Len(p) \in Nat /\ Len(q) \in Nat
  OBVIOUS
<1> HIDE DEF r
<1>5. ASSUME NEW i \in 1..Len(p) + Len(q), NEW j \in 1..Len(p) + Len(q), r[i] = r[j] PROVE i = j
  <2>1. CASE i <= Len(p) /\ j <= Len(p)
    <3>1. i \in 1..Len(p) /\ j \in 1..Len(p)
      BY <1>4, <2>1
    <3> QED BY <1>3, <1>5, <3>1 DEF Distinct
  <2>2. CASE i > Len(p) /\ j > Len(p)
    <3>1. i - Len(p) \in 1..Len(q) /\ j - Len(p) \in 1..Len(q) /\ q[i - Len(p)] = q[j - Len(p)]
      BY <1>2, <1>3, <1>5, <2>2
    <3>2. i - Len(p) = j - Len(p)
      BY <3>1 DEF Distinct
    <3> QED BY <1>4, <3>2
  <2>3. CASE i <= Len(p) /\ j > Len(p)
    <3>1. i \in 1..Len(p) /\ j - Len(p) \in 1..Len(q)
      BY <1>2, <1>4, <2>3
    <3> QED BY <1>1, <1>3, <1>5, <2>3, <3>1
  <2>4. CASE i > Len(p) /\ j <= Len(p)
    <3>1. j \in 1..Len(p) /\ i - Len(p) \in 1..Len(q)
      BY <1>2, <1>4, <2>4
    <3> QED BY <1>1, <1>3, <1>5, <2>4, <3>1
  <2> QED BY <1>4, <2>1, <2>2, <2>3, <2>4
<1> QED BY <1>1, <1>5 DEF Distinct, r

LEMMA HeadLeaves ==
    ASSUME NEW T, NEW q \in Seq(T), q # <<>>, Distinct(q)
    PROVE  /\ Head(q) \in T /\ Tail(q) \in Seq(T) /\ Distinct(Tail(q))
           /\ Head(q) \notin Range(Tail(q)) /\ Range(q) = Range(Tail(q)) \cup {Head(q)}
<1>1. /\ Head(q) \in T /\ Head(q) = q[1] /\ Tail(q) \in Seq(T) /\ Len(Tail(q)) = Len(q) - 1
      /\ Len(q) \in Nat /\ Len(q) >= 1
      /\ \A i \in 1..Len(q) - 1 : Tail(q)[i] = q[i + 1]
  OBVIOUS
<1> DEFINE t == Tail(q)
<1>2. /\ t \in Seq(T) /\ Len(t) = Len(q) - 1 /\ \A i \in 1..Len(q) - 1 : t[i] = q[i + 1]
  BY <1>1
<1> HIDE DEF t
<1>3. Distinct(t)
  <2>1. ASSUME NEW i \in 1..Len(t), NEW j \in 1..Len(t), t[i] = t[j] PROVE i = j
    <3>1. i + 1 \in 1..Len(q) /\ j + 1 \in 1..Len(q) /\ q[i + 1] = q[j + 1]
      BY <1>1, <1>2, <2>1
    <3>2. i + 1 = j + 1
      BY <3>1 DEF Distinct
    <3> QED BY <3>2
  <2> QED BY <2>1 DEF Distinct
<1>4. q[1] \notin Range(t)
  <2>1. ASSUME NEW i \in 1..Len(t), t[i] = q[1] PROVE FALSE
    <3>1. i + 1 \in 1..Len(q) /\ 1 \in 1..Len(q) /\ q[i + 1] = q[1]
      BY <1>1, <1>2, <2>1
    <3>2. i + 1 = 1
      BY <3>1 DEF Distinct
    <3> QED BY <1>1, <1>2, <3>2
  <2> QED BY <1>2, <2>1, RangeIs
<1>5. Range(q) \subseteq Range(t) \cup {q[1]}
  <2>1. ASSUME NEW i \in 1..Len(q) PROVE q[i] \in Range(t) \cup {q[1]}
    <3>1. CASE i = 1
      BY <3>1
    <3>2. CASE i # 1
      <4>1. i - 1 \in 1..Len(t) /\ t[i - 1] = q[i]
        BY <1>1, <1>2, <3>2
      <4> QED BY <1>2, <4>1, RangeIs
    <3> QED BY <3>1, <3>2
  <2> QED BY <2>1, RangeIs
<1>6. Range(t) \cup {q[1]} \subseteq Range(q)
  <2>1. ASSUME NEW i \in 1..Len(t) PROVE t[i] \in Range(q)
    <3>1. i + 1 \in 1..Len(q) /\ t[i] = q[i + 1]
      BY <1>1, <1>2
    <3> QED BY <3>1, RangeIs
  <2>2. 1 \in 1..Len(q)
    BY <1>1
  <2> QED BY <1>2, <2>1, <2>2, RangeIs
<1> QED BY <1>1, <1>3, <1>4, <1>5, <1>6 DEF t

LEMMA AppendsLast ==
    ASSUME NEW T, NEW s \in Seq(T), NEW x \in T
    PROVE  /\ Append(s, x) \in Seq(T) /\ Len(Append(s, x)) = Len(s) + 1
           /\ Append(s, x)[Len(s) + 1] = x /\ \A i \in 1..Len(s) : Append(s, x)[i] = s[i]
           /\ Range(Append(s, x)) = Range(s) \cup {x}
           /\ Distinct(s) /\ x \notin Range(s) => Distinct(Append(s, x))
<1> DEFINE r == Append(s, x)
<1>1. /\ r \in Seq(T) /\ Len(r) = Len(s) + 1 /\ Len(s) \in Nat
      /\ r[Len(s) + 1] = x /\ \A i \in 1..Len(s) : r[i] = s[i]
  OBVIOUS
<1> HIDE DEF r
<1>2. \A i \in 1..Len(r) : i \in 1..Len(s) \/ i = Len(s) + 1
  BY <1>1
<1>3. \A i \in 1..Len(s) + 1 : i \in 1..Len(r)
  BY <1>1
<1>4. \A i \in 1..Len(s) : s[i] \in Range(s) /\ i \in 1..Len(r)
  BY <1>1, RangeIs
<1>5. Range(r) \subseteq Range(s) \cup {x}
  BY <1>1, <1>2, <1>4, RangeIs
<1>6. Range(s) \cup {x} \subseteq Range(r)
  <2>1. Len(s) + 1 \in 1..Len(r)
    BY <1>1
  <2> QED BY <1>1, <1>4, <2>1, RangeIs
<1>7. ASSUME Distinct(s), x \notin Range(s) PROVE Distinct(r)
  <2>1. ASSUME NEW i \in 1..Len(r), NEW j \in 1..Len(r), r[i] = r[j] PROVE i = j
    BY <1>1, <1>2, <1>4, <1>7, <2>1 DEF Distinct
  <2> QED BY <2>1 DEF Distinct
<1> QED BY <1>1, <1>5, <1>6, <1>7 DEF r

(* As many members as places.                                                 *)
LEMMA DistinctCount ==
    ASSUME NEW T, IsFiniteSet(T), NEW s \in Seq(T), Distinct(s)
    PROVE  /\ Len(s) <= Cardinality(T)
           /\ Len(s) = Cardinality(T) <=> Range(s) = T
<1> DEFINE L == Len(s)
<1>1. s \in [1..L -> Range(s)] /\ L \in Nat /\ Range(s) \in SUBSET T /\ DOMAIN s = 1..L
  <2>1. s = [i \in 1..L |-> s[i]] /\ L \in Nat /\ DOMAIN s = 1..L
    OBVIOUS
  <2>2. \A i \in 1..L : s[i] \in Range(s)
    BY RangeIs
  <2>3. Range(s) \in SUBSET T
    BY RangeIs
  <2> HIDE DEF L
  <2> QED BY <2>1, <2>2, <2>3, FunctionIs
<1> HIDE DEF L
<1>2. IsFiniteSet(1..L) /\ Cardinality(1..L) = L
  BY <1>1, FS_Interval
<1>3. s \in Bijection(1..L, Range(s))
  <2>1. \A x \in Range(s) : \E i \in 1..L : s[i] = x
    BY RangeIs DEF L
  <2>2. \A i, j \in DOMAIN s : s[i] = s[j] => i = j
    BY <1>1 DEF Distinct, L
  <2> QED BY <1>1, <2>1, <2>2 DEF Bijection, Injection, Surjection, IsInjective
<1>4. IsFiniteSet(Range(s)) /\ Cardinality(Range(s)) = L
  BY <1>2, <1>3, FS_Bijection DEF ExistsBijection
<1>5. Cardinality(Range(s)) <= Cardinality(T) /\ (Cardinality(T) = Cardinality(Range(s)) => T = Range(s))
  BY <1>1, FS_Subset
<1> QED BY <1>4, <1>5 DEF L

LEMMA InOrderIs ==
    ASSUME NEW S \in SUBSET Aliases
    PROVE  InOrder(S) \in Seq(Aliases) /\ Range(InOrder(S)) = S /\ Distinct(InOrder(S))
<1>1. Ascends(InOrder(S), S)
  BY SizeIs, AscentExists DEF InOrder, Ascends
<1> DEFINE s == InOrder(S)
           c == Cardinality(S)
<1>2. IsFiniteSet(S)
  BY SizeIs, FS_Subset
<1>3. c \in Nat
  BY <1>2, FS_CardinalityType
<1>4. s \in [1..c -> S] /\ Range(s) = S /\ \A i, j \in DOMAIN s : i < j => s[i] < s[j]
  BY <1>1 DEF Ascends
<1> HIDE DEF s, c
<1>5. s \in Seq(Aliases) /\ Len(s) = c
  <2>1. s \in [1..c -> Aliases]
    BY <1>4
  <2> QED BY <1>3, <2>1, SequenceIs
<1>6. \A i \in 1..c : s[i] \in Nat
  <2>1. Aliases \subseteq Nat
    BY SizeIs
  <2>2. S \subseteq Nat
    BY <2>1
  <2> QED BY <1>4, <2>2
<1>7. Distinct(s)
  <2>1. ASSUME NEW i \in 1..Len(s), NEW j \in 1..Len(s), s[i] = s[j] PROVE i = j
    <3>1. i \in Nat /\ j \in Nat /\ i \in DOMAIN s /\ j \in DOMAIN s /\ s[i] \in Nat /\ s[j] \in Nat
      BY <1>3, <1>4, <1>5, <1>6
    <3>2. ~(i < j) /\ ~(j < i)
      BY <1>4, <2>1, <3>1
    <3> QED BY <3>1, <3>2
  <2> QED BY <2>1 DEF Distinct
<1> QED BY <1>4, <1>5, <1>7 DEF s

(* What each action waits for, if it waits for nothing the document lacks.    *)
Waits(doc) == [a \in Aliases |-> DependsOn(doc, a)]

LEMMA WaitsIs ==
    ASSUME NEW doc \in PlanDocuments, ~Dangling(doc)
    PROVE  Waits(doc) \in [Aliases -> SUBSET Aliases]
<1>1. \A a \in Aliases : DependsOn(doc, a) \in SUBSET Aliases
  BY DEF DependsOn, Dangling, PlanDocuments
<1> QED BY <1>1 DEF Waits

KahnStates == [queue : Seq(Aliases), open : [Aliases -> SUBSET Aliases], order : Seq(Aliases)]

(* What is open is what is not in the order, what has nothing open is queued  *)
(* or in the order, and what is in the order waits for what is before it.     *)
KahnInv(dep, n, st) ==
    /\ st \in KahnStates
    /\ Distinct(st.order) /\ Distinct(st.queue) /\ Range(st.order) \cap Range(st.queue) = {}
    /\ \A a \in Aliases : st.open[a] = dep[a] \ Range(st.order)
    /\ \A a \in Aliases : st.open[a] = {} <=> a \in Range(st.order) \cup Range(st.queue)
    /\ \A j \in 1..Len(st.order) : dep[st.order[j]] \subseteq { st.order[k] : k \in 1..j - 1 }
    /\ Len(st.order) = n \/ st.queue = <<>>

Freed(st) == { a \in Aliases : st.open[a] = {Head(st.queue)} }
Shut(st) == [a \in Aliases |-> st.open[a] \ {Head(st.queue)}]

LEMMA ReleaseIs ==
    ASSUME NEW st, st.queue # <<>>
    PROVE  Release(st) = [queue |-> Tail(st.queue) \o InOrder(Freed(st)), open |-> Shut(st),
                          order |-> Append(st.order, Head(st.queue))]
BY DEF Release, Freed, Shut

LEMMA KahnStateIs ==
    ASSUME NEW queue \in Seq(Aliases), NEW open \in [Aliases -> SUBSET Aliases],
           NEW order \in Seq(Aliases)
    PROVE  [queue |-> queue, open |-> open, order |-> order] \in KahnStates
BY DEF KahnStates

LEMMA ReleaseTypes ==
    ASSUME NEW st \in KahnStates PROVE Release(st) \in KahnStates
<1>1. CASE st.queue = <<>>
  BY <1>1 DEF Release
<1>2. CASE st.queue # <<>>
  <2>1. st.queue \in Seq(Aliases) /\ st.order \in Seq(Aliases) /\ st.open \in [Aliases -> SUBSET Aliases]
    BY DEF KahnStates
  <2>2. Head(st.queue) \in Aliases /\ Tail(st.queue) \in Seq(Aliases)
    BY <1>2, <2>1
  <2>3. InOrder(Freed(st)) \in Seq(Aliases)
    BY InOrderIs DEF Freed
  <2>4. Tail(st.queue) \o InOrder(Freed(st)) \in Seq(Aliases)
    BY <2>2, <2>3
  <2>5. Shut(st) \in [Aliases -> SUBSET Aliases]
    BY <2>1 DEF Shut
  <2>6. Append(st.order, Head(st.queue)) \in Seq(Aliases)
    BY <2>1, <2>2, AppendsLast
  <2> QED BY <1>2, <2>4, <2>5, <2>6, ReleaseIs, KahnStateIs
<1> QED BY <1>1, <1>2

LEMMA UnreleasedFits ==
    ASSUME NEW doc, Waits(doc) \in [Aliases -> SUBSET Aliases]
    PROVE  KahnInv(Waits(doc), 0, Unreleased(doc))
<1> DEFINE first == { a \in Aliases : Waits(doc)[a] = {} }
<1>1. Unreleased(doc) = [queue |-> InOrder(first), open |-> Waits(doc), order |-> <<>>]
  BY DEF Unreleased, Waits
<1>2. first \in SUBSET Aliases
  OBVIOUS
<1>3. \A a \in Aliases : Waits(doc)[a] = {} <=> a \in first
  OBVIOUS
<1> HIDE DEF first
<1>4. InOrder(first) \in Seq(Aliases) /\ Range(InOrder(first)) = first /\ Distinct(InOrder(first))
  BY <1>2, InOrderIs
<1>5. <<>> \in Seq(Aliases) /\ Len(<<>>) = 0
  OBVIOUS
<1>6. Range(<<>>) = {}
  BY DEF Range
<1>7. Unreleased(doc) \in KahnStates
  BY <1>1, <1>4, <1>5 DEF KahnStates
<1>8. Distinct(<<>>) /\ 1..0 = {}
  BY DEF Distinct
<1> QED BY <1>1, <1>3, <1>4, <1>5, <1>6, <1>7, <1>8 DEF KahnInv

LEMMA ReleaseKeeps ==
    ASSUME NEW dep \in [Aliases -> SUBSET Aliases], NEW n \in Nat, NEW st, KahnInv(dep, n, st)
    PROVE  KahnInv(dep, n + 1, Release(st))
<1>1. CASE st.queue = <<>>
  BY <1>1 DEF Release, KahnInv
<1>2. CASE st.queue # <<>>
  <2> DEFINE head == Head(st.queue)
             freed == Freed(st)
             next == InOrder(freed)
             rest == Tail(st.queue)
             new == Release(st)
             L == Len(st.order)
  <2>1. /\ st.queue \in Seq(Aliases) /\ st.order \in Seq(Aliases) /\ L \in Nat
        /\ st.open \in [Aliases -> SUBSET Aliases]
    BY DEF KahnInv, KahnStates
  <2>2. /\ head \in Aliases /\ rest \in Seq(Aliases) /\ Distinct(rest) /\ head \notin Range(rest)
        /\ Range(st.queue) = Range(rest) \cup {head}
    BY <1>2, <2>1, HeadLeaves DEF KahnInv
  <2>3. freed \in SUBSET Aliases /\ \A a \in Aliases : a \in freed <=> st.open[a] = {head}
    BY DEF Freed
  <2>4. /\ new.queue = rest \o next /\ new.open = Shut(st) /\ new.order = Append(st.order, head)
        /\ new \in KahnStates
    BY <1>2, ReleaseIs, ReleaseTypes DEF KahnInv
  <2>5. \A a \in Aliases : Shut(st)[a] = st.open[a] \ {head}
    BY DEF Shut
  <2> HIDE DEF head, freed, next, rest, new, L
  <2>6. next \in Seq(Aliases) /\ Range(next) = freed /\ Distinct(next)
    BY <2>3, InOrderIs DEF next
  <2>7. head \notin Range(st.order) /\ Range(rest) \cap Range(st.order) = {}
    BY <2>2 DEF KahnInv
  <2>8. /\ Len(new.order) = L + 1 /\ new.order[L + 1] = head
        /\ \A i \in 1..L : new.order[i] = st.order[i]
        /\ Range(new.order) = Range(st.order) \cup {head} /\ Distinct(new.order)
    BY <2>1, <2>2, <2>4, <2>7, AppendsLast DEF KahnInv, L
  <2>9. freed \cap (Range(st.order) \cup Range(st.queue)) = {}
    BY <2>3 DEF KahnInv
  <2>10. /\ Distinct(new.queue) /\ Range(new.queue) = Range(rest) \cup freed
    <3>1. Range(rest) \cap Range(next) = {}
      BY <2>2, <2>6, <2>9
    <3> QED BY <2>2, <2>4, <2>6, <3>1, DistinctConcat, RangeConcat
  <2>11. Range(new.order) \cap Range(new.queue) = {}
    BY <2>2, <2>7, <2>8, <2>9, <2>10
  <2>12. \A a \in Aliases : new.open[a] = dep[a] \ Range(new.order)
    BY <2>4, <2>5, <2>8 DEF KahnInv
  <2>13. ASSUME NEW a \in Aliases
         PROVE  new.open[a] = {} <=> a \in Range(new.order) \cup Range(new.queue)
    <3>1. new.open[a] = {} <=> st.open[a] = {} \/ st.open[a] = {head}
      BY <2>4, <2>5
    <3>2. st.open[a] = {} <=> a \in Range(st.order) \cup Range(st.queue)
      BY DEF KahnInv
    <3> QED BY <2>2, <2>3, <2>8, <2>10, <3>1, <3>2
  <2>14. ASSUME NEW j \in 1..L + 1
         PROVE  dep[new.order[j]] \subseteq { new.order[k] : k \in 1..j - 1 }
    <3>1. CASE j \in 1..L
      <4>1. dep[st.order[j]] \subseteq { st.order[k] : k \in 1..j - 1 }
        BY <3>1 DEF KahnInv, L
      <4>2. \A k \in 1..j - 1 : new.order[k] = st.order[k]
        BY <2>1, <2>8, <3>1
      <4> QED BY <2>8, <3>1, <4>1, <4>2
    <3>2. CASE j = L + 1
      <4>1. head \in Range(st.queue) /\ st.open[head] = dep[head] \ Range(st.order)
        BY <2>2 DEF KahnInv
      <4>2. dep[head] \subseteq Range(st.order)
        BY <2>2, <4>1 DEF KahnInv
      <4>3. \A x \in Range(st.order) : \E k \in 1..L : st.order[k] = x
        BY <2>1, RangeIs DEF L
      <4>4. \A k \in 1..L : k \in 1..j - 1 /\ new.order[k] = st.order[k]
        BY <2>1, <2>8, <3>2
      <4> QED BY <2>8, <3>2, <4>2, <4>3, <4>4
    <3> QED BY <2>1, <3>1, <3>2
  <2>15. Len(new.order) = n + 1 \/ new.queue = <<>>
    BY <1>2, <2>8 DEF KahnInv, L
  <2>16. KahnInv(dep, n + 1, new)
    BY <2>4, <2>8, <2>10, <2>11, <2>12, <2>13, <2>14, <2>15 DEF KahnInv
  <2> QED BY <2>16 DEF new
<1> QED BY <1>1, <1>2

(* Kahn's algorithm is run to its end.                                        *)
LEMMA KahnIs ==
    ASSUME NEW doc \in PlanDocuments, ~Dangling(doc)
    PROVE  \E st : Kahn(doc) = st.order /\ KahnInv(Waits(doc), Size, st)
<1> DEFINE start == Unreleased(doc)
           G == [st \in KahnStates |-> Release(st)]
           after == CHOOSE f : f = [n \in 0..Size |-> IF n = 0 THEN start ELSE Release(f[n - 1])]
<1>0. Size \in Nat /\ Waits(doc) \in [Aliases -> SUBSET Aliases]
  BY SizeIs, WaitsIs
<1>1. KahnInv(Waits(doc), 0, start)
  BY <1>0, UnreleasedFits
<1>2. start \in KahnStates
  BY <1>1 DEF KahnInv
<1>3. G \in [KahnStates -> KahnStates]
  BY ReleaseTypes
<1>4. Kahn(doc) = after[Size].order
  BY DEF Kahn, Size
<1> HIDE DEF start
<1>5. PICK f : Repeats(f, Size, KahnStates, start, G)
  <2> HIDE DEF G
  <2> QED BY <1>0, <1>2, <1>3, RepeatExists
<1>6. \A n \in 1..Size : n - 1 \in 0..Size
  BY <1>0
<1>7. /\ f \in [0..Size -> KahnStates] /\ f[0] = start
      /\ \A n \in 1..Size : f[n] = Release(f[n - 1])
  BY <1>5, <1>6 DEF Repeats
<1>8. f = [n \in 0..Size |-> IF n = 0 THEN start ELSE Release(f[n - 1])]
  <2>1. \A n \in 0..Size : n # 0 => n \in 1..Size
    BY <1>0
  <2> QED BY <1>7, <2>1
<1>9. after = [n \in 0..Size |-> IF n = 0 THEN start ELSE Release(after[n - 1])]
  BY <1>8
<1> HIDE DEF after
<1>10. after[0] = start /\ \A n \in 1..Size : after[n] = Release(after[n - 1])
  <2>1. 0 \in 0..Size /\ \A n \in 1..Size : n \in 0..Size /\ n # 0
    BY <1>0
  <2> QED BY <1>9, <2>1
<1> DEFINE S == { n \in 0..Size : KahnInv(Waits(doc), n, after[n]) }
<1>11. 0 \in S
  BY <1>0, <1>1, <1>10
<1>12. ASSUME NEW n \in 1..Size, n - 1 \in S PROVE n \in S
  <2>1. KahnInv(Waits(doc), n - 1, after[n - 1]) /\ n - 1 \in Nat /\ (n - 1) + 1 = n
    BY <1>12
  <2>2. KahnInv(Waits(doc), (n - 1) + 1, Release(after[n - 1]))
    BY <1>0, <2>1, ReleaseKeeps
  <2>3. KahnInv(Waits(doc), n, after[n])
    BY <1>10, <2>1, <2>2
  <2> QED BY <1>0, <2>3
<1> HIDE DEF S
<1>13. \A n \in 0..Size : n \in S
  BY <1>0, <1>11, <1>12, CountsUp
<1>14. KahnInv(Waits(doc), Size, after[Size])
  BY <1>0, <1>13 DEF S
<1> QED BY <1>4, <1>14

(* An order of everything in which nothing comes before what it waits for.    *)
WholeOrder(doc, order) ==
    /\ order \in Seq(Aliases) /\ Len(order) = Size /\ Distinct(order) /\ Range(order) = Aliases
    /\ \A j \in 1..Size : DependsOn(doc, order[j]) \subseteq { order[k] : k \in 1..j - 1 }

LEMMA AcyclicIsOrdered ==
    ASSUME NEW doc \in PlanDocuments, ~Dangling(doc), ValidAcyclic(doc)
    PROVE  WholeOrder(doc, Kahn(doc))
<1>1. PICK st : Kahn(doc) = st.order /\ KahnInv(Waits(doc), Size, st)
  BY KahnIs
<1>2. st.order \in Seq(Aliases) /\ Distinct(st.order) /\ Len(st.order) = Size
  BY <1>1 DEF KahnInv, KahnStates, ValidAcyclic, Size
<1>3. Range(st.order) = Aliases
  BY <1>2, SizeIs, DistinctCount DEF Size
<1>4. \A j \in 1..Size : st.order[j] \in Aliases
  BY <1>2
<1>5. \A j \in 1..Size : Waits(doc)[st.order[j]] \subseteq { st.order[k] : k \in 1..j - 1 }
  BY <1>1, <1>2 DEF KahnInv
<1>6. \A j \in 1..Size : DependsOn(doc, st.order[j]) \subseteq { st.order[k] : k \in 1..j - 1 }
  BY <1>4, <1>5 DEF Waits
<1> QED BY <1>1, <1>2, <1>3, <1>6 DEF WholeOrder

LEMMA OrderedIsNotCircular ==
    ASSUME NEW doc, NEW order, WholeOrder(doc, order) PROVE ~Circular(doc)
<1>1. SUFFICES ASSUME NEW S \in SUBSET Aliases, S # {}, \A a \in S : DependsOn(doc, a) \cap S # {}
               PROVE  FALSE
  BY DEF Circular
<1>2. order \in Seq(Aliases) /\ Len(order) = Size /\ Size \in Nat
  BY SizeIs DEF WholeOrder
<1> DEFINE At == { j \in 1..Size : order[j] \in S }
<1>3. \A a \in Aliases : \E j \in 1..Size : order[j] = a
  BY <1>2, RangeIs DEF WholeOrder
<1>4. At \in SUBSET Nat /\ At # {}
  BY <1>1, <1>2, <1>3
<1>5. PICK j \in At : \A k \in At : j <= k
  <2> HIDE DEF At
  <2> QED BY <1>4, LeastExists
<1>6. j \in 1..Size /\ order[j] \in S
  OBVIOUS
<1>7. PICK b \in S : b \in DependsOn(doc, order[j])
  BY <1>1, <1>6
<1>8. PICK k \in 1..j - 1 : order[k] = b
  BY <1>6, <1>7 DEF WholeOrder
<1>9. k \in 1..Size /\ k < j /\ k \in At
  BY <1>2, <1>6, <1>7, <1>8
<1> HIDE DEF At
<1> QED BY <1>2, <1>5, <1>6, <1>9

LEMMA CyclicIsCircular ==
    ASSUME NEW doc \in PlanDocuments, ~Dangling(doc), ~ValidAcyclic(doc)
    PROVE  Circular(doc)
<1>1. CASE \E a \in Aliases : a \in DependsOn(doc, a)
  <2>1. PICK a \in Aliases : a \in DependsOn(doc, a)
    BY <1>1
  <2>2. {a} \in (SUBSET Aliases) \ {{}} /\ \A b \in {a} : DependsOn(doc, b) \cap {a} # {}
    BY <2>1
  <2> QED BY <2>2 DEF Circular
<1>2. CASE Len(Kahn(doc)) # Size
  <2>1. PICK st : Kahn(doc) = st.order /\ KahnInv(Waits(doc), Size, st)
    BY KahnIs
  <2>2. st.order \in Seq(Aliases) /\ Distinct(st.order) /\ st.queue = <<>>
    BY <1>2, <2>1 DEF KahnInv, KahnStates
  <2> DEFINE S == Aliases \ Range(st.order)
  <2>3. Range(st.order) # Aliases /\ Range(st.order) \in SUBSET Aliases
    BY <1>2, <2>1, <2>2, SizeIs, DistinctCount, RangeIs DEF Size
  <2>4. Range(st.queue) = {}
    BY <2>2 DEF Range
  <2>5. ASSUME NEW a \in S PROVE DependsOn(doc, a) \cap S # {}
    <3>1. st.open[a] # {} /\ st.open[a] = Waits(doc)[a] \ Range(st.order)
      BY <2>1, <2>4 DEF KahnInv
    <3>2. Waits(doc)[a] \in SUBSET Aliases /\ Waits(doc)[a] = DependsOn(doc, a)
      BY WaitsIs DEF Waits
    <3> QED BY <3>1, <3>2
  <2>6. S \in (SUBSET Aliases) \ {{}}
    BY <2>3
  <2> HIDE DEF S
  <2> QED BY <2>5, <2>6 DEF Circular
<1> QED BY <1>1, <1>2 DEF ValidAcyclic, Size

(* What is installed: the actions of each plan in an order, each waiting for  *)
(* earlier ones of its own plan, at places of its own.                        *)
StepCount == Cardinality(PlanSteps)
Placed(rows) == { <<r.ordinal, r.id[1]>> : r \in rows }

Carried(rows, i, order) ==
    /\ order \in Seq(Aliases) /\ Len(order) = Size /\ Range(order) = Aliases
    /\ \A j \in 1..Size : \E r \in rows :
          r.id = <<i, order[j]>> /\ r.needs \subseteq { <<i, order[k]>> : k \in 1..j - 1 }

RowsFit(rows, installs) ==
    /\ \A r \in rows : r.id \in (1..installs) \X Aliases
    /\ \A i \in 1..installs : \E order : Carried(rows, i, order)
    /\ IsFiniteSet(rows) /\ Cardinality(rows) = installs * Size
    /\ IsFiniteSet(Placed(rows)) /\ Cardinality(Placed(rows)) = installs * StepCount

InPlace(r) ==
    /\ r.version = r.id[1]
    /\ r.ordinal \in Nat /\ (r.id[1] - 1) * StepCount < r.ordinal /\ r.ordinal <= r.id[1] * StepCount

Seen == [stage : {"asking"}, version : Nat, replans : Nat, steps : Nat]

PlanTypes ==
    /\ plan = [status |-> plan.status, version |-> plan.version, replans |-> plan.replans,
               installs |-> plan.installs, rows |-> plan.rows]
    /\ plan.version \in Nat /\ plan.replans \in Nat /\ plan.installs \in Nat
    /\ asked = [stage |-> asked.stage, tries |-> asked.tries, document |-> asked.document,
                verdict |-> asked.verdict]
    /\ repair \in [PlanTicks -> Seen \cup {Untracked}]
    /\ overlaps \in Nat

AskedFits ==
    /\ asked.stage # "ended" => asked.verdict = "none"
    /\ IF asked.verdict = "none" THEN asked.document = NoDocument
       ELSE /\ asked.document \in PlanDocuments
            /\ \E trusted \in BOOLEAN : asked.verdict = PlanVerdict(asked.document, trusted, 1, 1)
    /\ plan.status # "none" <=> asked.verdict = "installed"
    /\ plan.status = "none" => plan = NoPlan /\ \A s \in PlanTicks : repair[s] = Untracked

(* A replan counts from what its tick has read: each over one that was not    *)
(* read gives back no more than the whole budget.                             *)
CountsFit ==
    /\ plan.status # "none" => plan.version = plan.replans + 1
    /\ plan.replans <= MaxRepairs
    /\ plan.installs <= 1 + plan.replans + MaxRepairs * overlaps
    /\ \A s \in PlanTicks : repair[s] # Untracked =>
          repair[s].replans < MaxRepairs /\ repair[s].version = repair[s].replans + 1

(* As long as no tick overlaps another, plans are numbered as they come.      *)
PlacesFit ==
    overlaps = 0 =>
        /\ plan.installs = plan.version
        /\ \A r \in plan.rows : InPlace(r)
        /\ \A s \in PlanTicks : repair[s] # Untracked =>
              /\ repair[s].version <= plan.version
              /\ repair[s].version = plan.version => repair[s].steps = plan.installs * StepCount

PlanInv ==
    /\ PlanTypes
    /\ AskedFits
    /\ CountsFit
    /\ RowsFit(plan.rows, plan.installs)
    /\ PlacesFit

LEMMA StepsAre == StepCount \in Nat /\ PlanSteps = 1..StepCount /\ IsFiniteSet(PlanSteps)
<1>1. StepOfAlias \in Surjection(Aliases, PlanSteps)
  BY PlanningAssumption DEF Surjection, PlanSteps
<1>2. IsFiniteSet(PlanSteps)
  BY <1>1, SizeIs, FS_Surjection
<1> QED BY <1>2, FS_CardinalityType, PlanningAssumption DEF StepCount

------------------------------------------------------------------------------
(* The rows of one plan.                                                      *)

RowIs(doc, trusted, install, version, ordinal, a) ==
    [id |-> <<install, a>>, needs |-> { <<install, b>> : b \in DependsOn(doc, a) },
     ordinal |-> ordinal + StepOfAlias[a], version |-> version,
     level |-> RowLevel(doc.calls[a], trusted), key |-> RowKey(doc, install, version, a)]

LEMMA RowsAre ==
    ASSUME NEW doc, NEW trusted, NEW install, NEW version, NEW ordinal
    PROVE  RowsOf(doc, trusted, install, version, ordinal) =
               { RowIs(doc, trusted, install, version, ordinal, a) : a \in Aliases }
BY DEF RowsOf, RowIs

(* As many as there are values, if each value has its own.                    *)
LEMMA ImageCount ==
    ASSUME NEW S, IsFiniteSet(S), NEW f, f = [x \in S |-> f[x]],
           \A x, y \in S : f[x] = f[y] => x = y, NEW T, T = { f[x] : x \in S }
    PROVE  IsFiniteSet(T) /\ Cardinality(T) = Cardinality(S)
<1>1. f \in [S -> T]
  <2>1. \A x \in S : f[x] \in T
    OBVIOUS
  <2> QED BY <2>1, FunctionIs
<1>2. \A t \in T : \E x \in S : f[x] = t
  OBVIOUS
<1>3. f \in Bijection(S, T)
  BY <1>1, <1>2 DEF Bijection, Injection, Surjection, IsInjective
<1> QED BY <1>3, FS_Bijection DEF ExistsBijection

(* What an installation adds.                                                 *)
Adds(new, install, version, ordinal) ==
    /\ \A r \in new : /\ r.id \in {install} \X Aliases /\ r.id[1] = install
                      /\ r.version = version
                      /\ \E s \in PlanSteps : r.ordinal = ordinal + s
    /\ \E order : Carried(new, install, order)
    /\ IsFiniteSet(new) /\ Cardinality(new) = Size
    /\ \A x \in Placed(new) : x[2] = install
    /\ IsFiniteSet(Placed(new)) /\ Cardinality(Placed(new)) = StepCount

LEMMA InstallIs ==
    ASSUME NEW doc \in PlanDocuments, NEW trusted, NEW install \in Nat, NEW version \in Nat,
           NEW ordinal \in Nat, PlanVerdict(doc, trusted, install, version) = "installed"
    PROVE  Adds(RowsOf(doc, trusted, install, version, ordinal), install, version, ordinal)
<1> DEFINE new == RowsOf(doc, trusted, install, version, ordinal)
<1> DEFINE Row(a) == RowIs(doc, trusted, install, version, ordinal, a)
<1>1. new = { Row(a) : a \in Aliases }
  BY RowsAre
<1>2. \A a \in Aliases : /\ Row(a).id = <<install, a>> /\ Row(a).ordinal = ordinal + StepOfAlias[a]
                         /\ Row(a).version = version
                         /\ Row(a).needs = { <<install, b>> : b \in DependsOn(doc, a) }
  BY DEF RowIs
<1> HIDE DEF Row, new
<1>3. \A a \in Aliases : StepOfAlias[a] \in PlanSteps
  BY DEF PlanSteps
<1>4. ~Dangling(doc) /\ ValidAcyclic(doc)
  BY DEF PlanVerdict, Invalid
<1>5. \A r \in new : /\ r.id \in {install} \X Aliases /\ r.id[1] = install
                     /\ r.version = version
                     /\ \E s \in PlanSteps : r.ordinal = ordinal + s
  <2>1. SUFFICES ASSUME NEW r \in new
                 PROVE  /\ r.id \in {install} \X Aliases /\ r.id[1] = install
                        /\ r.version = version
                        /\ \E s \in PlanSteps : r.ordinal = ordinal + s
    OBVIOUS
  <2>2. PICK a \in Aliases : r = Row(a)
    BY <1>1
  <2>3. r.id = <<install, a>> /\ r.ordinal = ordinal + StepOfAlias[a] /\ r.version = version
    BY <1>2, <2>2
  <2> QED BY <1>3, <2>3
<1>6. PICK order : WholeOrder(doc, order)
  BY <1>4, AcyclicIsOrdered
<1>7. Carried(new, install, order)
  <2>1. ASSUME NEW j \in 1..Size
        PROVE  \E r \in new : /\ r.id = <<install, order[j]>>
                              /\ r.needs \subseteq { <<install, order[k]>> : k \in 1..j - 1 }
    <3>1. order[j] \in Aliases /\ DependsOn(doc, order[j]) \subseteq { order[k] : k \in 1..j - 1 }
      BY <1>6 DEF WholeOrder
    <3>2. Row(order[j]) \in new
      BY <1>1, <3>1
    <3>3. \A b \in DependsOn(doc, order[j]) :
             <<install, b>> \in { <<install, order[k]>> : k \in 1..j - 1 }
      BY <3>1
    <3>4. Row(order[j]).needs \subseteq { <<install, order[k]>> : k \in 1..j - 1 }
      BY <1>2, <3>1, <3>3
    <3> QED BY <1>2, <3>1, <3>2, <3>4
  <2> QED BY <1>6, <2>1 DEF Carried, WholeOrder
<1>8. IsFiniteSet(new) /\ Cardinality(new) = Size
  <2> DEFINE f == [a \in Aliases |-> Row(a)]
  <2>1. f = [a \in Aliases |-> f[a]] /\ \A a \in Aliases : f[a] = Row(a)
    OBVIOUS
  <2> HIDE DEF f
  <2>2. \A a, b \in Aliases : f[a] = f[b] => a = b
    BY <1>2, <2>1
  <2>3. new = { f[a] : a \in Aliases }
    BY <1>1, <2>1
  <2> QED BY <2>1, <2>2, <2>3, SizeIs, ImageCount DEF Size
<1>9. /\ \A x \in Placed(new) : x[2] = install
      /\ IsFiniteSet(Placed(new)) /\ Cardinality(Placed(new)) = StepCount
  <2> DEFINE f == [s \in PlanSteps |-> <<ordinal + s, install>>]
             T == { f[s] : s \in PlanSteps }
  <2>1. f = [s \in PlanSteps |-> f[s]] /\ \A s \in PlanSteps : f[s] = <<ordinal + s, install>>
    OBVIOUS
  <2>2. \A s \in PlanSteps : s \in Nat
    BY StepsAre
  <2> HIDE DEF f
  <2>3. \A s, u \in PlanSteps : f[s] = f[u] => s = u
    BY <2>1, <2>2
  <2>4. \A s \in PlanSteps : \E a \in Aliases : StepOfAlias[a] = s
    BY DEF PlanSteps
  <2>5. Placed(new) \subseteq T
    BY <1>5, <2>1 DEF Placed
  <2>6. T \subseteq Placed(new)
    <3>1. ASSUME NEW s \in PlanSteps PROVE f[s] \in Placed(new)
      <4>1. PICK a \in Aliases : StepOfAlias[a] = s
        BY <2>4
      <4>2. Row(a) \in new /\ Row(a).ordinal = ordinal + s /\ Row(a).id[1] = install
        BY <1>1, <1>2, <4>1
      <4> QED BY <2>1, <4>2 DEF Placed
    <3> QED BY <3>1
  <2>7. \A x \in T : x[2] = install
    BY <2>1
  <2>8. IsFiniteSet(T) /\ Cardinality(T) = StepCount
    BY <2>1, <2>3, StepsAre, ImageCount DEF StepCount
  <2>9. Placed(new) = T
    BY <2>5, <2>6
  <2> HIDE DEF T
  <2> QED BY <2>7, <2>8, <2>9
<1>10. Adds(new, install, version, ordinal)
  BY <1>5, <1>7, <1>8, <1>9 DEF Adds
<1> QED BY <1>10 DEF new

LEMMA RowsFitGrow ==
    ASSUME NEW rows, NEW installs \in Nat, RowsFit(rows, installs),
           NEW i \in Nat, i = installs + 1,
           NEW doc \in PlanDocuments, NEW trusted, NEW version \in Nat, NEW ordinal \in Nat,
           PlanVerdict(doc, trusted, i, version) = "installed",
           NEW new, new = RowsOf(doc, trusted, i, version, ordinal)
    PROVE  RowsFit(rows \cup new, i)
<1> DEFINE both == rows \cup new
<1>1. /\ \A r \in new : r.id \in {i} \X Aliases /\ r.id[1] = i
      /\ \E order : Carried(new, i, order)
      /\ IsFiniteSet(new) /\ Cardinality(new) = Size
      /\ \A x \in Placed(new) : x[2] = i
      /\ IsFiniteSet(Placed(new)) /\ Cardinality(Placed(new)) = StepCount
  <2>1. Adds(new, i, version, ordinal)
    BY InstallIs
  <2> QED BY <2>1 DEF Adds
<1>2. /\ \A r \in rows : r.id \in (1..installs) \X Aliases
      /\ \A k \in 1..installs : \E order : Carried(rows, k, order)
      /\ IsFiniteSet(rows) /\ Cardinality(rows) = installs * Size
      /\ IsFiniteSet(Placed(rows)) /\ Cardinality(Placed(rows)) = installs * StepCount
  BY DEF RowsFit
<1>3. \A r \in rows : r.id[1] \in 1..installs
  BY <1>2
<1>4. \A r \in both : r.id \in (1..i) \X Aliases
  BY <1>1, <1>2
<1>5. \A k, order : Carried(rows, k, order) \/ Carried(new, k, order) => Carried(both, k, order)
  BY DEF Carried
<1>6. \A k \in 1..i : \E order : Carried(both, k, order)
  <2>1. \A k \in 1..i : k \in 1..installs \/ k = i
    OBVIOUS
  <2> HIDE DEF both
  <2> QED BY <1>1, <1>2, <1>5, <2>1
<1>7. rows \cap new = {}
  BY <1>1, <1>3
<1>8. IsFiniteSet(both) /\ Cardinality(both) = Cardinality(rows) + Cardinality(new)
  <2>1. Cardinality(both) = Cardinality(rows) + Cardinality(new) - Cardinality({})
    BY <1>1, <1>2, <1>7, FS_Union
  <2>2. Cardinality({}) = 0 /\ Cardinality(rows) \in Nat /\ Cardinality(new) \in Nat
    BY <1>1, <1>2, FS_EmptySet, FS_CardinalityType
  <2> QED BY <1>1, <1>2, <2>1, <2>2, FS_Union
<1>9. Placed(both) = Placed(rows) \cup Placed(new) /\ Placed(rows) \cap Placed(new) = {}
  <2>1. Placed(both) = Placed(rows) \cup Placed(new)
    BY DEF Placed
  <2>2. \A x \in Placed(rows) : x[2] \in 1..installs
    BY <1>3 DEF Placed
  <2>3. \A x \in Placed(new) : x[2] = i
    BY <1>1
  <2>4. i \notin 1..installs
    OBVIOUS
  <2> QED BY <2>1, <2>2, <2>3, <2>4
<1>10. IsFiniteSet(Placed(both)) /\ Cardinality(Placed(both)) = Cardinality(Placed(rows)) + Cardinality(Placed(new))
  <2> DEFINE P == Placed(rows)
             Q == Placed(new)
  <2> HIDE DEF P, Q
  <2>0. IsFiniteSet(P) /\ IsFiniteSet(Q) /\ P \cap Q = {}
    BY <1>1, <1>2, <1>9 DEF P, Q
  <2>1. IsFiniteSet(P \cup Q) /\ Cardinality(P \cup Q) = Cardinality(P) + Cardinality(Q) - Cardinality({})
    BY <2>0, FS_Union
  <2>2. Cardinality({}) = 0 /\ Cardinality(P) \in Nat /\ Cardinality(Q) \in Nat
    BY <2>0, FS_EmptySet, FS_CardinalityType
  <2>3. Cardinality(P \cup Q) = Cardinality(P) + Cardinality(Q)
    BY <2>1, <2>2
  <2> QED BY <1>9, <2>1, <2>3 DEF P, Q
<1>11. installs * Size + Size = i * Size /\ installs * StepCount + StepCount = i * StepCount
  BY SizeIs, StepsAre
<1>12. Cardinality(both) = i * Size /\ Cardinality(Placed(both)) = i * StepCount
  BY <1>1, <1>2, <1>8, <1>10, <1>11
<1> HIDE DEF both
<1>13. RowsFit(both, i)
  BY <1>4, <1>6, <1>8, <1>10, <1>12 DEF RowsFit
<1> QED BY <1>13 DEF both

------------------------------------------------------------------------------
(* A request and its verdict.                                                 *)

LEMMA PlanStarts == PlanningInit => PlanInv
<1> SUFFICES ASSUME PlanningInit PROVE PlanInv
  OBVIOUS
<1>1. plan = NoPlan /\ repair = [s \in PlanTicks |-> Untracked] /\ overlaps = 0
  BY DEF PlanningInit
<1>2. /\ plan.status = "none" /\ plan.version = 0 /\ plan.replans = 0 /\ plan.installs = 0
      /\ plan.rows = {}
  BY <1>1 DEF NoPlan
<1>3. PlanTypes
  BY <1>1, <1>2 DEF PlanningInit, PlanTypes, NoPlan
<1>4. AskedFits
  BY <1>1, <1>2 DEF PlanningInit, AskedFits
<1>5. CountsFit
  BY <1>1, <1>2, PlanningAssumption DEF CountsFit
<1>6. RowsFit(plan.rows, plan.installs)
  <2>1. IsFiniteSet({}) /\ Cardinality({}) = 0
    BY FS_EmptySet
  <2>2. Placed({}) = {} /\ 1..0 = {} /\ 0 * Size = 0 /\ 0 * StepCount = 0
    BY SizeIs, StepsAre DEF Placed
  <2>3. RowsFit({}, 0)
    BY <2>1, <2>2 DEF RowsFit
  <2> QED BY <1>2, <2>3
<1>7. PlacesFit
  BY <1>1, <1>2 DEF PlacesFit
<1> QED BY <1>3, <1>4, <1>5, <1>6, <1>7 DEF PlanInv

(* Nothing but the request has changed.                                       *)
LEMMA PlanStays ==
    ASSUME PlanInv, UNCHANGED <<plan, repair, overlaps>>, AskedFits',
           (asked = [stage |-> asked.stage, tries |-> asked.tries, document |-> asked.document,
                     verdict |-> asked.verdict])'
    PROVE  PlanInv'
<1>1. PlanTypes' /\ CountsFit' /\ PlacesFit'
  BY DEF PlanInv, PlanTypes, CountsFit, PlacesFit
<1>2. RowsFit(plan.rows, plan.installs)'
  BY DEF PlanInv
<1> QED BY <1>1, <1>2 DEF PlanInv

Asks(stage, tries) == asked' = [asked EXCEPT !.tries = tries, !.stage = stage]

LEMMA StageOnly ==
    ASSUME PlanInv, NEW stage PROVE
    [asked EXCEPT !.stage = stage] = [asked EXCEPT !.tries = asked.tries, !.stage = stage]
<1>1. PICK a, b, c, d : asked = [stage |-> a, tries |-> b, document |-> c, verdict |-> d]
  BY DEF PlanInv, PlanTypes
<1> QED BY <1>1

LEMMA AskKeeps ==
    ASSUME PlanInv, asked.stage # "ended", NEW stage, NEW tries, Asks(stage, tries),
           UNCHANGED <<plan, repair, overlaps>>
    PROVE  PlanInv'
<1>1. /\ asked'.stage = stage /\ asked'.tries = tries /\ asked'.document = asked.document
      /\ asked'.verdict = asked.verdict
      /\ asked' = [stage |-> asked'.stage, tries |-> asked'.tries, document |-> asked'.document,
                   verdict |-> asked'.verdict]
  BY DEF PlanInv, PlanTypes, Asks
<1>2. AskedFits'
  BY <1>1 DEF PlanInv, AskedFits
<1> QED BY <1>1, <1>2, PlanStays

LEMMA VerdictIs ==
    ASSUME NEW doc, NEW trusted, NEW install, NEW version
    PROVE  PlanVerdict(doc, trusted, install, version) \in {"invalid", "conflict", "installed"}
BY DEF PlanVerdict

LEMMA EndKeeps ==
    ASSUME PlanInv, asked.stage # "ended", NEW doc \in PlanDocuments, NEW trusted \in BOOLEAN,
           NEW dry \in BOOLEAN, EndRequest(doc, trusted, dry)
    PROVE  PlanInv'
<1>1. PICK verdict : verdict = PlanVerdict(doc, trusted, 1, 1)
  OBVIOUS
<1>2. verdict \in {"invalid", "conflict", "installed"}
  BY <1>1, VerdictIs
<1>3. /\ asked'.stage = "ended" /\ asked'.tries = asked.tries /\ asked'.document = doc
      /\ asked'.verdict = verdict
      /\ asked' = [stage |-> asked'.stage, tries |-> asked'.tries, document |-> asked'.document,
                   verdict |-> asked'.verdict]
  <2>1. asked' = [asked EXCEPT !.stage = "ended", !.document = doc, !.verdict = verdict]
    BY <1>1 DEF EndRequest
  <2> QED BY <2>1 DEF PlanInv, PlanTypes
<1>4. /\ plan.status = "none" /\ plan = NoPlan /\ \A s \in PlanTicks : repair[s] = Untracked
      /\ UNCHANGED <<repair, overlaps>>
  BY DEF PlanInv, AskedFits, EndRequest
<1>5. CASE verdict # "installed"
  <2>1. plan' = NoPlan
    BY <1>1, <1>5 DEF EndRequest
  <2>2. AskedFits'
    BY <1>1, <1>2, <1>3, <1>4, <1>5, <2>1 DEF AskedFits
  <2> QED BY <1>3, <1>4, <2>1, <2>2, PlanStays
<1>6. CASE verdict = "installed"
  <2>1. PICK new : new = RowsOf(doc, trusted, 1, 1, 0)
    OBVIOUS
  <2>2. plan' = [status |-> IF dry THEN "PLANNING" ELSE "RUNNING", version |-> 1, replans |-> 0,
                 installs |-> 1, rows |-> new]
    BY <1>1, <1>6, <2>1 DEF EndRequest
  <2>3. /\ plan'.status \in {"PLANNING", "RUNNING"} /\ plan'.version = 1 /\ plan'.replans = 0
        /\ plan'.installs = 1 /\ plan'.rows = new
        /\ plan' = [status |-> plan'.status, version |-> plan'.version, replans |-> plan'.replans,
                    installs |-> plan'.installs, rows |-> plan'.rows]
    BY <2>2
  <2>4. PlanTypes'
    BY <1>3, <1>4, <2>3 DEF PlanInv, PlanTypes
  <2>5. AskedFits'
    BY <1>1, <1>2, <1>3, <1>4, <1>6, <2>3 DEF AskedFits
  <2>6. CountsFit'
    <3>1. MaxRepairs \in Nat /\ overlaps \in Nat
      BY PlanningAssumption DEF PlanInv, PlanTypes
    <3>2. MaxRepairs * overlaps \in Nat
      BY <3>1
    <3> QED BY <1>4, <2>3, <3>1, <3>2 DEF CountsFit
  <2>7. plan.rows = {} /\ plan.installs = 0 /\ plan.version = 0
    BY <1>4 DEF NoPlan
  <2>8. RowsFit(plan'.rows, plan'.installs)
    <3>1. RowsFit({}, 0)
      BY <2>7 DEF PlanInv
    <3>2. RowsFit({} \cup new, 1)
      BY <1>1, <1>6, <2>1, <3>1, RowsFitGrow
    <3>3. {} \cup new = new
      OBVIOUS
    <3> QED BY <2>3, <3>2, <3>3
  <2>9. PlacesFit'
    <3>1. Adds(new, 1, 1, 0)
      BY <1>1, <1>6, <2>1, InstallIs
    <3>2. ASSUME NEW r \in new PROVE InPlace(r)
      <4>1. r.version = 1 /\ r.id[1] = 1
        BY <3>1 DEF Adds
      <4>2. PICK s \in PlanSteps : r.ordinal = 0 + s
        BY <3>1 DEF Adds
      <4>3. StepCount \in Nat /\ s \in 1..StepCount
        BY StepsAre
      <4>4. r.ordinal \in Nat /\ 0 < r.ordinal /\ r.ordinal <= StepCount
        BY <4>2, <4>3
      <4>5. (1 - 1) * StepCount = 0 /\ 1 * StepCount = StepCount
        BY <4>3
      <4> QED BY <4>1, <4>4, <4>5 DEF InPlace
    <3> QED BY <1>4, <2>3, <3>2 DEF PlacesFit
  <2> QED BY <2>4, <2>5, <2>6, <2>8, <2>9 DEF PlanInv
<1> QED BY <1>5, <1>6

------------------------------------------------------------------------------
(* The ticks that replan.                                                     *)

(* Only what one tick holds has changed.                                      *)
LEMMA TickKeeps ==
    ASSUME PlanInv, NEW s \in PlanTicks, NEW seen \in Seen \cup {Untracked},
           repair' = [repair EXCEPT ![s] = seen], UNCHANGED <<plan, asked, overlaps>>,
           plan.status # "none",
           seen # Untracked =>
               /\ seen.replans < MaxRepairs /\ seen.version = seen.replans + 1
               /\ seen.version = plan.version /\ seen.steps = plan.installs * StepCount
    PROVE  PlanInv'
<1>1. PlanTypes'
  BY DEF PlanInv, PlanTypes
<1>2. \A t \in PlanTicks : repair'[t] = IF t = s THEN seen ELSE repair[t]
  BY DEF PlanInv, PlanTypes
<1>3. AskedFits'
  BY DEF PlanInv, AskedFits
<1>4. CountsFit'
  BY <1>2 DEF PlanInv, CountsFit
<1>5. RowsFit(plan.rows, plan.installs)'
  BY DEF PlanInv
<1>6. PlacesFit'
  BY <1>2 DEF PlanInv, PlacesFit, PlanTypes
<1> QED BY <1>1, <1>3, <1>4, <1>5, <1>6 DEF PlanInv

LEMMA SeenIs ==
    ASSUME NEW x \in Seen PROVE x # Untracked
BY DEF Seen, Untracked

LEMMA InstalledStepsAre == ASSUME PlanInv PROVE InstalledSteps = plan.installs * StepCount
BY DEF PlanInv, RowsFit, InstalledSteps, Placed

LEMMA ReadKeeps ==
    ASSUME PlanInv, NEW s \in PlanTicks, ReadForRepair(s) PROVE PlanInv'
<1> DEFINE seen == [stage |-> "asking", version |-> plan.version, replans |-> plan.replans,
                    steps |-> InstalledSteps]
<1>1. repair' = [repair EXCEPT ![s] = seen] /\ UNCHANGED <<plan, asked, overlaps>>
  BY DEF ReadForRepair
<1>2. plan.status = "RUNNING" /\ plan.replans < MaxRepairs
  BY DEF ReadForRepair
<1>3. InstalledSteps = plan.installs * StepCount /\ plan.installs * StepCount \in Nat
  BY InstalledStepsAre, StepsAre DEF PlanInv, PlanTypes
<1>4. /\ seen \in Seen /\ seen.replans = plan.replans /\ seen.version = plan.version
      /\ seen.steps = InstalledSteps
  BY <1>3 DEF Seen, PlanInv, PlanTypes
<1> HIDE DEF seen
<1>5. plan.version = plan.replans + 1
  BY <1>2 DEF PlanInv, CountsFit
<1> QED BY <1>1, <1>2, <1>3, <1>4, <1>5, TickKeeps

LEMMA FailKeeps ==
    ASSUME PlanInv, NEW s \in PlanTicks, RepairFails(s) PROVE PlanInv'
<1>1. plan.status # "none"
  BY DEF PlanInv, AskedFits, RepairFails
<1> QED BY <1>1, TickKeeps DEF RepairFails

Appends(p, version, replans, installs, rows) ==
    [p EXCEPT !.version = version, !.replans = replans, !.installs = installs, !.rows = rows]

LEMMA AppendedIs ==
    ASSUME PlanTypes, NEW version, NEW replans, NEW installs, NEW rows,
           plan' = Appends(plan, version, replans, installs, rows)
    PROVE  /\ plan'.status = plan.status /\ plan'.version = version /\ plan'.replans = replans
           /\ plan'.installs = installs /\ plan'.rows = rows
           /\ plan' = [status |-> plan'.status, version |-> plan'.version,
                       replans |-> plan'.replans, installs |-> plan'.installs,
                       rows |-> plan'.rows]
BY DEF Appends, PlanTypes

LEMMA AppendKeeps ==
    ASSUME PlanInv, NEW s \in PlanTicks, NEW doc \in PlanDocuments, NEW mock \in BOOLEAN,
           NEW ordinal \in 0..InstalledSteps, AppendRepair(s, doc, mock, ordinal)
    PROVE  PlanInv'
<1>1. PICK seen, install, version, new :
          /\ seen = repair[s] /\ install = plan.installs + 1 /\ version = seen.version + 1
          /\ new = RowsOf(doc, mock, install, version, ordinal)
  OBVIOUS
<1>2. /\ seen # Untracked /\ ordinal \in {seen.steps, InstalledSteps}
      /\ PlanVerdict(doc, mock, install, version) = "installed"
      /\ plan' = Appends(plan, version, seen.replans + 1, install, plan.rows \cup new)
      /\ overlaps' = IF plan.version = seen.version THEN overlaps ELSE overlaps + 1
      /\ repair' = [repair EXCEPT ![s] = Untracked] /\ asked' = asked
  BY <1>1 DEF AppendRepair, Counted, Appends
<1>3. /\ seen \in Seen /\ seen.version \in Nat /\ seen.replans \in Nat /\ seen.steps \in Nat
      /\ plan.installs \in Nat /\ plan.version \in Nat /\ plan.replans \in Nat
      /\ overlaps \in Nat /\ overlaps' \in Nat /\ install \in Nat /\ version \in Nat
  <2>1. seen \in Seen
    BY <1>1, <1>2 DEF PlanInv, PlanTypes
  <2> QED BY <1>1, <1>2, <2>1 DEF Seen, PlanInv, PlanTypes
<1>4. ordinal \in Nat
  <2>1. InstalledSteps \in Nat
    BY InstalledStepsAre, StepsAre, <1>3
  <2> QED BY <2>1
<1>5. /\ plan'.status = plan.status /\ plan'.version = version /\ plan'.replans = seen.replans + 1
      /\ plan'.installs = install /\ plan'.rows = plan.rows \cup new
      /\ plan' = [status |-> plan'.status, version |-> plan'.version, replans |-> plan'.replans,
                  installs |-> plan'.installs, rows |-> plan'.rows]
  BY <1>2, AppendedIs DEF PlanInv
<1>6. \A t \in PlanTicks : repair'[t] = IF t = s THEN Untracked ELSE repair[t]
  BY <1>2 DEF PlanInv, PlanTypes
<1>7. plan.status # "none" /\ seen.replans < MaxRepairs /\ seen.version = seen.replans + 1
  BY <1>1, <1>2 DEF PlanInv, AskedFits, CountsFit
<1>8. PlanTypes'
  BY <1>2, <1>3, <1>5 DEF PlanInv, PlanTypes
<1>9. AskedFits'
  BY <1>2, <1>5, <1>7 DEF PlanInv, AskedFits
<1>10. CountsFit'
  <2>1. plan'.version = plan'.replans + 1 /\ plan'.replans <= MaxRepairs
    BY <1>1, <1>3, <1>5, <1>7, PlanningAssumption
  <2>2. \A t \in PlanTicks : repair'[t] # Untracked =>
           repair'[t].replans < MaxRepairs /\ repair'[t].version = repair'[t].replans + 1
    BY <1>6 DEF PlanInv, CountsFit
  <2>3. /\ plan.installs <= 1 + plan.replans + MaxRepairs * overlaps /\ plan.replans <= MaxRepairs
        /\ plan.version = plan.replans + 1 /\ MaxRepairs \in Nat
    BY <1>7, PlanningAssumption DEF PlanInv, CountsFit
  <2>4. install <= 1 + plan'.replans + MaxRepairs * overlaps'
    <3>1. CASE plan.version = seen.version
      <4>1. overlaps' = overlaps /\ plan'.replans = plan.replans + 1
        BY <1>2, <1>3, <1>5, <1>7, <2>3, <3>1
      <4>2. PICK back \in Int : back = MaxRepairs * overlaps
        BY <1>3, <2>3
      <4> QED BY <1>1, <1>3, <2>3, <4>1, <4>2
    <3>2. CASE plan.version # seen.version
      <4>1. overlaps' = overlaps + 1 /\ plan'.replans = seen.replans + 1
        BY <1>2, <1>5, <3>2
      <4>2. MaxRepairs * (overlaps + 1) = MaxRepairs * overlaps + MaxRepairs
        BY <1>3, <2>3
      <4>3. PICK back \in Int : back = MaxRepairs * overlaps
        BY <1>3, <2>3
      <4>4. MaxRepairs * overlaps' = back + MaxRepairs
        BY <4>1, <4>2, <4>3
      <4>5. plan.installs <= 1 + plan.replans + back
        BY <2>3, <4>3
      <4> HIDE <4>2, <4>3
      <4> QED BY <1>1, <1>3, <2>3, <4>1, <4>4, <4>5
    <3> QED BY <3>1, <3>2
  <2> QED BY <1>5, <2>1, <2>2, <2>4 DEF CountsFit
<1>11. RowsFit(plan'.rows, plan'.installs)
  <2>1. RowsFit(plan.rows, plan.installs)
    BY DEF PlanInv
  <2>2. RowsFit(plan.rows \cup new, install)
    BY <1>1, <1>2, <1>3, <1>4, <2>1, RowsFitGrow
  <2> QED BY <1>5, <2>2
<1>12. PlacesFit'
  <2> SUFFICES ASSUME overlaps' = 0
               PROVE  /\ plan'.installs = plan'.version
                      /\ \A r \in plan'.rows : InPlace(r)
                      /\ \A t \in PlanTicks : repair'[t] # Untracked =>
                            /\ repair'[t].version <= plan'.version
                            /\ repair'[t].version = plan'.version =>
                                  repair'[t].steps = plan'.installs * StepCount
    BY DEF PlacesFit
  <2>1. overlaps = 0 /\ plan.version = seen.version
    BY <1>2, <1>3
  <2>2. /\ plan.installs = plan.version /\ \A r \in plan.rows : InPlace(r)
        /\ \A t \in PlanTicks : repair[t] # Untracked =>
              /\ repair[t].version <= plan.version
              /\ repair[t].version = plan.version => repair[t].steps = plan.installs * StepCount
    BY <2>1 DEF PlanInv, PlacesFit
  <2>3. version = install /\ version = plan.version + 1
    BY <1>1, <2>1, <2>2
  <2>4. ordinal = plan.installs * StepCount
    BY <1>1, <1>2, <2>1, <2>2, InstalledStepsAre
  <2>5. Adds(new, install, version, ordinal)
    BY <1>1, <1>2, <1>3, <1>4, InstallIs
  <2>6. ASSUME NEW r \in new PROVE InPlace(r)
    <3>1. r.version = version /\ r.id[1] = install
      BY <2>5 DEF Adds
    <3>2. PICK p \in PlanSteps : r.ordinal = ordinal + p
      BY <2>5 DEF Adds
    <3>3. StepCount \in Nat /\ p \in 1..StepCount
      BY StepsAre
    <3>4. (install - 1) * StepCount = ordinal /\ install * StepCount = ordinal + StepCount
      <4>1. install - 1 = plan.installs /\ (plan.installs + 1) * StepCount = plan.installs * StepCount + StepCount
        BY <1>1, <1>3, <3>3
      <4> QED BY <1>1, <2>4, <4>1
    <3>5. r.ordinal \in Nat /\ ordinal < r.ordinal /\ r.ordinal <= ordinal + StepCount
      BY <1>4, <3>2, <3>3
    <3> QED BY <2>3, <3>1, <3>4, <3>5 DEF InPlace
  <2>7. ASSUME NEW t \in PlanTicks, repair'[t] # Untracked
        PROVE  repair'[t].version < plan'.version
    <3>1. t # s /\ repair'[t] = repair[t]
      BY <1>6, <2>7
    <3>2. repair[t] \in Seen /\ repair[t].version \in Nat
      BY <2>7, <3>1 DEF PlanInv, PlanTypes, Seen
    <3> QED BY <1>3, <1>5, <2>2, <2>3, <2>7, <3>1, <3>2
  <2>8. \A t \in PlanTicks : repair'[t] # Untracked => repair'[t].version \in Nat
    <3>1. PlanTypes'
      BY <1>8
    <3> QED BY <3>1 DEF PlanTypes, Seen
  <2> QED BY <1>3, <1>5, <2>2, <2>3, <2>6, <2>7, <2>8
<1> QED BY <1>8, <1>9, <1>10, <1>11, <1>12 DEF PlanInv

LEMMA PlanInvNext == ASSUME PlanInv, [PlanningNext]_planVars PROVE PlanInv'
<1>0. Sketches \subseteq PlanDocuments /\ Drafts \subseteq PlanDocuments /\ Repairs \subseteq PlanDocuments
  BY PlanningAssumption
<1>1. CASE SubmitPlan
  BY <1>0, <1>1, EndKeeps DEF SubmitPlan
<1>2. CASE Instruct
  <2>1. asked.stage # "ended" /\ Asks("asking", asked.tries) /\ UNCHANGED <<plan, repair, overlaps>>
    BY <1>2, StageOnly DEF Instruct, Asks
  <2> QED BY <2>1, AskKeeps
<1>3. CASE PlannerFails
  BY <1>3, AskKeeps DEF PlannerFails, Asks
<1>4. CASE PlannerRaises
  <2>1. asked.stage # "ended" /\ Asks("ended", asked.tries) /\ UNCHANGED <<plan, repair, overlaps>>
    BY <1>4, StageOnly DEF PlannerRaises, Asks
  <2> QED BY <2>1, AskKeeps
<1>5. ASSUME NEW doc \in Drafts, NEW mock \in BOOLEAN, NEW dry \in BOOLEAN,
             PlannerAnswers(doc, mock, dry)
      PROVE  PlanInv'
  BY <1>0, <1>5, EndKeeps DEF PlannerAnswers
<1>6. ASSUME NEW s \in PlanTicks, ReadForRepair(s) PROVE PlanInv'
  BY <1>6, ReadKeeps
<1>7. ASSUME NEW s \in PlanTicks, RepairFails(s) PROVE PlanInv'
  BY <1>7, FailKeeps
<1>8. ASSUME NEW s \in PlanTicks, NEW doc \in Repairs, NEW mock \in BOOLEAN,
             NEW ordinal \in 0..InstalledSteps, AppendRepair(s, doc, mock, ordinal)
      PROVE  PlanInv'
  BY <1>0, <1>8, AppendKeeps
<1>9. CASE UNCHANGED planVars
  <2>1. AskedFits'
    BY <1>9 DEF planVars, PlanInv, AskedFits
  <2> QED BY <1>9, <2>1, PlanStays DEF planVars, PlanInv, PlanTypes
<1> QED BY <1>1, <1>2, <1>3, <1>4, <1>5, <1>6, <1>7, <1>8, <1>9 DEF PlanningNext

------------------------------------------------------------------------------
(* What the invariant says of plans.                                          *)

LEMMA PlansValidated == ASSUME PlanInv PROVE ValidatesExactly
<1> SUFFICES ASSUME asked.document # NoDocument, ~Dangling(asked.document)
             PROVE  ValidAcyclic(asked.document) <=> ~Circular(asked.document)
  BY DEF ValidatesExactly
<1>1. asked.document \in PlanDocuments
  BY DEF PlanInv, AskedFits
<1>2. CASE ValidAcyclic(asked.document)
  BY <1>1, <1>2, AcyclicIsOrdered, OrderedIsNotCircular
<1>3. CASE ~ValidAcyclic(asked.document)
  BY <1>1, <1>3, CyclicIsCircular
<1> QED BY <1>2, <1>3

(* In the order of a plan, each action becomes ready after those before it.   *)
LEMMA CarriedEnds ==
    ASSUME NEW rows, NEW installs \in Nat, RowsFit(rows, installs), NEW K, K = Cardinality(rows),
           NEW f, f = [n \in 0..K |-> IF n = 0 THEN {}
                                      ELSE { r.id : r \in { q \in rows : q.needs \subseteq f[n - 1] } }]
    PROVE  f[K] = { r.id : r \in rows }
<1>0. K \in Nat /\ K = installs * Size /\ Size \in Nat
  BY FS_CardinalityType, SizeIs DEF RowsFit
<1>1. f[0] = {} /\ \A n \in 1..K : f[n] = { r.id : r \in { q \in rows : q.needs \subseteq f[n - 1] } }
  <2>1. 0 \in 0..K /\ \A n \in 1..K : n \in 0..K /\ n # 0
    BY <1>0
  <2> QED BY <2>1
<1>2. f[K] \subseteq { r.id : r \in rows }
  <2>1. K = 0 \/ K \in 1..K
    BY <1>0
  <2> QED BY <1>1, <2>1
<1> DEFINE ready(n, i, order) == \A j \in 1..Size : j <= n => <<i, order[j]>> \in f[n]
           S == { n \in 0..K : \A i \in 1..installs : \A order : Carried(rows, i, order) => ready(n, i, order) }
<1>3. 0 \in S
  BY <1>0
<1>4. ASSUME NEW n \in 1..K, n - 1 \in S PROVE n \in S
  <2>0. n \in 0..K /\ n - 1 \in Nat
    BY <1>0
  <2>1. ASSUME NEW i \in 1..installs, NEW order, Carried(rows, i, order) PROVE ready(n, i, order)
    <3>1. SUFFICES ASSUME NEW j \in 1..Size, j <= n PROVE <<i, order[j]>> \in f[n]
      OBVIOUS
    <3>2. PICK r \in rows : r.id = <<i, order[j]>> /\ r.needs \subseteq { <<i, order[k]>> : k \in 1..j - 1 }
      BY <2>1, <3>1 DEF Carried
    <3>3. \A k \in 1..j - 1 : k \in 1..Size /\ k <= n - 1
      BY <1>0, <3>1
    <3>4. ready(n - 1, i, order)
      <4> HIDE DEF ready
      <4> QED BY <1>4, <2>1
    <3>5. \A k \in 1..j - 1 : <<i, order[k]>> \in f[n - 1]
      BY <3>3, <3>4
    <3>6. \A x \in r.needs : x \in f[n - 1]
      <4>1. ASSUME NEW x \in r.needs PROVE x \in f[n - 1]
        <5>1. PICK k \in 1..j - 1 : x = <<i, order[k]>>
          BY <3>2
        <5> QED BY <3>5, <5>1
      <4> QED BY <4>1
    <3>7. r \in { q \in rows : q.needs \subseteq f[n - 1] }
      BY <3>6
    <3>8. f[n] = { p.id : p \in { q \in rows : q.needs \subseteq f[n - 1] } }
      BY <1>1
    <3>9. r.id \in f[n]
      BY <3>7, <3>8
    <3> QED BY <3>2, <3>9
  <2> HIDE DEF ready
  <2> QED BY <2>0, <2>1
<1> HIDE DEF S
<1>5. \A n \in 0..K : n \in S
  BY <1>0, <1>3, <1>4, CountsUp
<1>6. ASSUME NEW r \in rows PROVE r.id \in f[K]
  <2>1. r.id \in (1..installs) \X Aliases
    BY DEF RowsFit
  <2>2. PICK i \in 1..installs, a \in Aliases : r.id = <<i, a>>
    BY <2>1
  <2>3. PICK order : Carried(rows, i, order)
    BY DEF RowsFit
  <2>4. PICK j \in 1..Size : order[j] = a
    <3>1. order \in Seq(Aliases) /\ Len(order) = Size /\ a \in Range(order)
      BY <2>3 DEF Carried
    <3> QED BY <3>1, RangeIs
  <2>5. Size <= K
    <3>1. installs >= 1 /\ (installs - 1) * Size \in Nat
      BY <1>0
    <3>2. installs * Size = (installs - 1) * Size + Size
      BY <1>0, <3>1
    <3> QED BY <1>0, <3>1, <3>2
  <2>6. K \in S /\ j <= K
    BY <1>0, <1>5, <2>5
  <2>7. ready(K, i, order)
    BY <2>3, <2>6 DEF S
  <2> QED BY <2>2, <2>4, <2>6, <2>7
<1> QED BY ZenonT(30), <1>2, <1>6

LEMMA PlansEnd == ASSUME PlanInv PROVE InstalledPlansEnd
<1> DEFINE K == Cardinality(plan.rows)
           Ids == { r.id : r \in plan.rows }
           Step(d) == { r.id : r \in { q \in plan.rows : q.needs \subseteq d } }
           G == [d \in SUBSET Ids |-> Step(d)]
           f == CHOOSE f : f = [n \in 0..K |-> IF n = 0 THEN {} ELSE Step(f[n - 1])]
<1>1. RowsFit(plan.rows, plan.installs) /\ plan.installs \in Nat /\ K \in Nat
  BY FS_CardinalityType DEF PlanInv, PlanTypes, RowsFit
<1>2. InstalledPlansEnd <=> f[K] = Ids
  BY DEF InstalledPlansEnd
<1>3. G \in [SUBSET Ids -> SUBSET Ids] /\ {} \in SUBSET Ids
  OBVIOUS
<1>4. PICK g : Repeats(g, K, SUBSET Ids, {}, G)
  <2> HIDE DEF G, Ids, K
  <2> QED BY <1>1, <1>3, RepeatExists
<1>5. g \in [0..K -> SUBSET Ids] /\ g[0] = {} /\ \A n \in 1..K : g[n] = Step(g[n - 1])
  <2>1. g \in [0..K -> SUBSET Ids] /\ g[0] = {} /\ \A n \in 1..K : g[n] = G[g[n - 1]]
    BY <1>4 DEF Repeats
  <2>2. \A n \in 1..K : n - 1 \in 0..K
    BY <1>1
  <2>3. \A n \in 1..K : g[n - 1] \in SUBSET Ids
    <3> HIDE DEF G, Ids, K
    <3> QED BY <2>1, <2>2
  <2>4. \A d \in SUBSET Ids : G[d] = Step(d)
    <3> HIDE DEF Ids, Step
    <3> QED BY DEF G
  <2> HIDE DEF G, Ids, K, Step
  <2> QED BY <2>1, <2>3, <2>4
<1>6. g = [n \in 0..K |-> IF n = 0 THEN {} ELSE Step(g[n - 1])]
  <2>1. \A n \in 0..K : n # 0 => n \in 1..K
    BY <1>1
  <2> HIDE DEF G, Ids, K, Step
  <2> QED BY <1>5, <2>1
<1>7. f = [n \in 0..K |-> IF n = 0 THEN {} ELSE Step(f[n - 1])]
  <2> HIDE DEF G, Ids, K, Step
  <2> QED BY <1>6
<1>8. f[K] = Ids
  <2> HIDE DEF f
  <2> QED BY <1>1, <1>7, CarriedEnds
<1> QED BY <1>2, <1>8

LEMMA PlansUndone == ASSUME PlanInv PROVE UndoOrderIsWhole
<1> SUFFICES ASSUME asked.verdict = "installed" PROVE UndoOrderIsWhole
  BY DEF UndoOrderIsWhole
<1>1. PICK doc : doc = asked.document
  OBVIOUS
<1>2. doc \in PlanDocuments /\ ~Dangling(doc) /\ ValidAcyclic(doc)
  <2>1. PICK trusted \in BOOLEAN : "installed" = PlanVerdict(doc, trusted, 1, 1)
    BY <1>1 DEF PlanInv, AskedFits
  <2>2. ~Invalid(doc, trusted)
    BY <2>1 DEF PlanVerdict
  <2> QED BY <1>1, <2>2 DEF Invalid, PlanInv, AskedFits
<1>3. WholeOrder(doc, Kahn(doc))
  BY <1>2, AcyclicIsOrdered
<1>4. PICK whole : whole = Kahn(doc)
  OBVIOUS
<1>5. /\ whole \in Seq(Aliases) /\ Len(whole) = Size /\ Distinct(whole) /\ Range(whole) = Aliases
      /\ Size \in Nat
      /\ \A j \in 1..Size : DependsOn(doc, whole[j]) \subseteq { whole[k] : k \in 1..j - 1 }
  BY <1>3, <1>4, SizeIs DEF WholeOrder
<1> DEFINE order == [i \in 1..Size |-> whole[(Size - i) + 1]]
<1>6. ReverseTopo(doc) = order
  BY <1>4, <1>5 DEF ReverseTopo, Reverse
<1>7. \A i \in 1..Size : (Size - i) + 1 \in 1..Size /\ order[i] = whole[(Size - i) + 1]
  BY <1>5
<1>8. order \in Seq(Aliases) /\ Len(order) = Size /\ DOMAIN order = 1..Size
  <2>1. \A i \in 1..Size : whole[i] \in Aliases
    BY <1>5
  <2>2. order \in [1..Size -> Aliases]
    BY <1>7, <2>1
  <2> HIDE DEF order
  <2> QED BY <1>5, <2>2, SequenceIs
<1> HIDE DEF order
<1>9. ToSet(order) = Aliases
  <2>1. \A a \in Aliases : \E i \in 1..Size : order[i] = a
    <3>1. ASSUME NEW a \in Aliases PROVE \E i \in 1..Size : order[i] = a
      <4>1. PICK j \in 1..Size : whole[j] = a
        BY <1>5, RangeIs
      <4>2. (Size - j) + 1 \in 1..Size /\ (Size - ((Size - j) + 1)) + 1 = j
        BY <1>5
      <4> QED BY <1>7, <4>1, <4>2
    <3> QED BY <3>1
  <2>2. \A i \in 1..Size : order[i] \in Aliases
    BY <1>8
  <2> QED BY <1>8, <2>1, <2>2 DEF ToSet
<1>10. ASSUME NEW i \in 1..Size, NEW j \in 1..Size, order[i] \in DependsOn(doc, order[j])
       PROVE  j < i
  <2> DEFINE p == (Size - i) + 1
             q == (Size - j) + 1
  <2>1. p \in 1..Size /\ q \in 1..Size /\ whole[p] \in DependsOn(doc, whole[q])
    BY <1>7, <1>10
  <2> HIDE DEF p, q
  <2>2. PICK k \in 1..q - 1 : whole[k] = whole[p]
    BY <1>5, <2>1
  <2>3. k \in 1..Size
    BY <1>5, <2>1, <2>2
  <2>4. k = p
    BY <1>5, <2>1, <2>2, <2>3 DEF Distinct
  <2>5. p < q
    BY <2>1, <2>2, <2>4
  <2> QED BY <1>5, <2>5 DEF p, q
<1>11. /\ ToSet(order) = Aliases /\ Len(order) = Cardinality(Aliases)
       /\ \A i, j \in DOMAIN order : order[i] \in DependsOn(doc, order[j]) => j < i
  BY <1>8, <1>9, <1>10 DEF Size
<1> QED BY <1>1, <1>6, <1>11 DEF UndoOrderIsWhole

LEMMA TwinsConflict == ASSUME PlanInv PROVE OnlyTwinsConflict
<1> SUFFICES ASSUME asked.verdict = "conflict" PROVE OnlyTwinsConflict
  BY DEF OnlyTwinsConflict
<1>1. PICK trusted \in BOOLEAN : "conflict" = PlanVerdict(asked.document, trusted, 1, 1)
  BY DEF PlanInv, AskedFits
<1>2. Conflicts(asked.document, 1, 1)
  BY <1>1 DEF PlanVerdict
<1> QED BY <1>2 DEF OnlyTwinsConflict, Conflicts, RowKey

LEMMA PlansWhole == ASSUME PlanInv PROVE AllOrNothing
<1>1. plan.status # "none" => plan.version >= 1 /\ asked.verdict = "installed"
  BY DEF PlanInv, AskedFits, CountsFit, PlanTypes
<1>2. Cardinality(plan.rows) = plan.installs * Cardinality(Aliases)
  BY DEF PlanInv, RowsFit, Size
<1> QED BY <1>1, <1>2 DEF AllOrNothing

(* Places of plans one of which comes before the other.                       *)
LEMMA PlacesApart ==
    ASSUME NEW m \in Nat, NEW i \in Nat, NEW j \in Nat, i < j PROVE i * m <= (j - 1) * m
<1>1. PICK d \in Nat : j - 1 = i + d
  <2>1. (j - 1) - i \in Nat /\ j - 1 = i + ((j - 1) - i)
    OBVIOUS
  <2> QED BY <2>1
<1>2. (i + d) * m = i * m + d * m /\ d * m \in Nat /\ i * m \in Nat
  OBVIOUS
<1>3. (j - 1) * m = i * m + d * m
  BY <1>1, <1>2
<1>4. PICK x \in Nat, y \in Nat : x = i * m /\ y = d * m
  BY <1>2
<1>5. (j - 1) * m = x + y
  BY <1>3, <1>4
<1> QED BY <1>4, <1>5

LEMMA BudgetKept == ASSUME PlanInv PROVE RepairsWithinBudget
<1>0. /\ MaxRepairs \in Nat /\ overlaps \in Nat /\ plan.replans \in Nat /\ plan.installs \in Nat
  BY PlanningAssumption DEF PlanInv, PlanTypes
<1>1. plan.installs <= 1 + MaxRepairs * (1 + overlaps)
  <2>1. plan.installs <= 1 + plan.replans + MaxRepairs * overlaps /\ plan.replans <= MaxRepairs
    BY DEF PlanInv, CountsFit
  <2>2. MaxRepairs * (1 + overlaps) = MaxRepairs + MaxRepairs * overlaps
    BY <1>0
  <2>3. PICK x \in Int : x = MaxRepairs * overlaps
    BY <1>0
  <2>4. plan.installs <= 1 + plan.replans + x /\ MaxRepairs * (1 + overlaps) = MaxRepairs + x
    BY <2>1, <2>2, <2>3
  <2> QED BY <1>0, <2>1, <2>4
<1>2. ASSUME overlaps = 0, NEW q \in plan.rows, NEW r \in plan.rows,
             q.ordinal = r.ordinal \/ q.version = r.version
      PROVE  q.id[1] = r.id[1]
  <2>1. InPlace(q) /\ InPlace(r)
    BY <1>2 DEF PlanInv, PlacesFit
  <2>2. CASE q.version = r.version
    BY <2>1, <2>2 DEF InPlace
  <2>3. CASE q.ordinal = r.ordinal
    <3>1. PICK i, j : i = q.id[1] /\ j = r.id[1]
      OBVIOUS
    <3>2. i \in Nat /\ j \in Nat
      BY <3>1 DEF PlanInv, RowsFit
    <3>3. PICK at \in Nat : at = q.ordinal
      BY <2>1 DEF InPlace
    <3>4. /\ (i - 1) * StepCount < at /\ at <= i * StepCount
          /\ (j - 1) * StepCount < at /\ at <= j * StepCount
      BY <2>1, <2>3, <3>1, <3>3 DEF InPlace
    <3>5. /\ (i - 1) * StepCount \in Int /\ i * StepCount \in Int
          /\ (j - 1) * StepCount \in Int /\ j * StepCount \in Int
      BY <3>2, StepsAre
    <3>6. ~(i < j)
      <4>1. ASSUME i < j PROVE FALSE
        <5>1. i * StepCount <= (j - 1) * StepCount
          BY <3>2, <4>1, StepsAre, PlacesApart
        <5> QED BY <3>3, <3>4, <3>5, <5>1
      <4> QED BY <4>1
    <3>7. ~(j < i)
      <4>1. ASSUME j < i PROVE FALSE
        <5>1. j * StepCount <= (i - 1) * StepCount
          BY <3>2, <4>1, StepsAre, PlacesApart
        <5> QED BY <3>3, <3>4, <3>5, <5>1
      <4> QED BY <4>1
    <3> QED BY <3>1, <3>2, <3>6, <3>7
  <2> QED BY <1>2, <2>2, <2>3
<1> QED BY <1>1, <1>2 DEF RepairsWithinBudget

(* Validation accepts exactly the plans that can finish, an installation      *)
(* leaves all of a plan or nothing, what is installed ends and can be undone  *)
(* in order, only twins of one step collide, and replans stay within the      *)
(* budget, once more for each tick that overlapped: for every document, level *)
(* and budget and however many ticks (dag.py:39, plans.py:132).               *)
THEOREM PlansHold == PlanningSpec => []PlansAreSound
<1>1. PlanningInit => PlanInv
  BY PlanStarts
<1>2. PlanInv /\ [PlanningNext]_planVars => PlanInv'
  BY PlanInvNext
<1>3. PlanInv => PlansAreSound
  BY PlansValidated, PlansEnd, PlansUndone, TwinsConflict, PlansWhole, BudgetKept DEF PlansAreSound
<1> QED BY <1>1, <1>2, <1>3, PTL DEF PlanningSpec

------------------------------------------------------------------------------
(* Workflow mining.                                                           *)

Sigs == { Signature(call) : call \in ObservedCalls }

LEMMA WindowIs ==
    ASSUME NEW T, NEW s \in Seq(T), NEW n \in Nat, NEW i \in StartsOf(s, n)
    PROVE  /\ Window(s, i, n) \in Seq(T) /\ Len(Window(s, i, n)) = n
           /\ \A k \in 1..n : Window(s, i, n)[k] = s[i + k - 1]
<1>2. i \in Nat /\ i >= 1 /\ i + n - 1 <= Len(s)
  BY DEF StartsOf
<1>3. Len(SubSeq(s, i, i + n - 1)) = n /\ SubSeq(s, i, i + n - 1) \in Seq(T)
  BY <1>2
<1>4. \A k \in 1..n : SubSeq(s, i, i + n - 1)[k] = s[i + k - 1]
  BY <1>2
<1> QED BY <1>3, <1>4 DEF Window

LEMMA SignaturesAre ==
    ASSUME NEW calls \in Seq(ObservedCalls)
    PROVE  /\ Signatures(calls) \in Seq(Sigs) /\ Len(Signatures(calls)) = Len(calls)
           /\ \A i \in 1..Len(calls) : Signatures(calls)[i] = Signature(calls[i])
BY DEF Signatures, Sigs

SameText(p, q) == Len(p) = Len(q) /\ \A k \in 1..Len(p) : p[k] = q[k]

LEMMA SameTextIsSame ==
    ASSUME NEW T, NEW p \in Seq(T), NEW q \in Seq(T), SameText(p, q)
    PROVE  p = q
BY DEF SameText

(* A part lies at some distance from the beginning.                           *)
LiesAt(p, q, d) == d + Len(p) <= Len(q) /\ \A k \in 1..Len(p) : q[d + k] = p[k]

LEMMA WithinIs ==
    ASSUME NEW T, NEW p \in Seq(T), NEW q \in Seq(T)
    PROVE  Within(p, q) <=> \E d \in Nat : LiesAt(p, q, d)
<1>1. ASSUME Within(p, q) PROVE \E d \in Nat : LiesAt(p, q, d)
  <2>1. PICK i \in StartsOf(q, Len(p)) : Window(q, i, Len(p)) = p
    BY <1>1 DEF Within
  <2>2. i \in Nat /\ i - 1 \in Nat /\ i - 1 + Len(p) <= Len(q)
    BY DEF StartsOf
  <2>3. \A k \in 1..Len(p) : q[i + k - 1] = p[k]
    BY <2>1, WindowIs
  <2>4. \A k \in 1..Len(p) : i + k - 1 = (i - 1) + k
    BY <2>2
  <2> QED BY <2>2, <2>3, <2>4 DEF LiesAt
<1>2. ASSUME NEW d \in Nat, LiesAt(p, q, d) PROVE Within(p, q)
  <2>1. d + 1 \in StartsOf(q, Len(p))
    BY <1>2 DEF LiesAt, StartsOf
  <2>2. SameText(Window(q, d + 1, Len(p)), p) /\ Window(q, d + 1, Len(p)) \in Seq(T)
    BY SMTT(30), <1>2, <2>1, WindowIs DEF LiesAt, SameText
  <2> QED BY <2>1, <2>2, SameTextIsSame DEF Within
<1> QED BY <1>1, <1>2

LEMMA WithinTransitive ==
    ASSUME NEW T, NEW p \in Seq(T), NEW q \in Seq(T), NEW r \in Seq(T), Within(p, q), Within(q, r)
    PROVE  Within(p, r)
<1>1. PICK d \in Nat : LiesAt(p, q, d)
  BY WithinIs
<1>2. PICK e \in Nat : LiesAt(q, r, e)
  BY WithinIs
<1>3. \A k \in 1..Len(p) : d + k \in 1..Len(q) /\ e + (d + k) = (e + d) + k
  BY <1>1 DEF LiesAt
<1>4. LiesAt(p, r, e + d)
  BY <1>1, <1>2, <1>3 DEF LiesAt
<1> QED BY <1>4, WithinIs

Minable(p) == Len(p) \in MinPattern..MaxPattern

LEMMA PipelinesAre ==
    ASSUME NEW calls \in Seq(ObservedCalls)
    PROVE  Pipelines(calls) = { p \in Seq(Sigs) : Minable(p) /\ Within(p, Signatures(calls)) }
<1> DEFINE s == Signatures(calls)
           Lengths == { n \in MinPattern..MaxPattern : n <= Len(calls) }
<1>0. s \in Seq(Sigs) /\ Len(s) = Len(calls) /\ MinPattern \in Nat \ {0} /\ MaxPattern \in Nat
  BY SignaturesAre, MiningAssumption DEF MaxPattern
<1>a. Pipelines(calls) = UNION { { Window(s, i, n) : i \in StartsOf(calls, n) } : n \in Lengths }
  BY DEF Pipelines
<1>b. \A n : StartsOf(calls, n) = StartsOf(s, n)
  BY <1>0 DEF StartsOf
<1> HIDE DEF s
<1>1. ASSUME NEW n \in Lengths, NEW i \in StartsOf(s, n)
      PROVE  Window(s, i, n) \in Seq(Sigs) /\ Minable(Window(s, i, n)) /\ Within(Window(s, i, n), s)
  <2>1. n \in Nat /\ n \in MinPattern..MaxPattern
    BY <1>0
  <2>2. Window(s, i, n) \in Seq(Sigs) /\ Len(Window(s, i, n)) = n
    BY <1>0, <2>1, WindowIs
  <2> QED BY <2>1, <2>2 DEF Minable, Within
<1>2. ASSUME NEW p \in Seq(Sigs), Minable(p), Within(p, s)
      PROVE  \E n \in Lengths : \E i \in StartsOf(s, n) : p = Window(s, i, n)
  <2>1. PICK i \in StartsOf(s, Len(p)) : Window(s, i, Len(p)) = p
    BY <1>2 DEF Within
  <2>2. Len(p) <= Len(s)
    BY <1>0 DEF StartsOf
  <2> QED BY <1>0, <1>2, <2>1, <2>2 DEF Minable
<1> HIDE DEF Lengths
<1> QED BY <1>a, <1>b, <1>1, <1>2 DEF s

(* The tasks a pipeline occurs in.                                            *)
Occurs(tasks, p) == { t \in DOMAIN tasks : Within(p, Signatures(tasks[t])) }

LEMMA SupportIs ==
    ASSUME NEW tasks \in Seq(Seq(ObservedCalls))
    PROVE  /\ DOMAIN Supported(tasks) = { p \in Seq(Sigs) : Minable(p) /\ Occurs(tasks, p) # {} }
           /\ \A p \in DOMAIN Supported(tasks) : Supported(tasks)[p] = Occurs(tasks, p)
<1> DEFINE pipelines == [t \in DOMAIN tasks |-> Pipelines(tasks[t])]
<1>1. \A t \in DOMAIN tasks : tasks[t] \in Seq(ObservedCalls)
  OBVIOUS
<1>2. \A t \in DOMAIN tasks : pipelines[t] = { p \in Seq(Sigs) : Minable(p) /\ Within(p, Signatures(tasks[t])) }
  BY <1>1, PipelinesAre
<1>3. Supported(tasks) = [p \in UNION Range(pipelines) |-> { t \in DOMAIN tasks : p \in pipelines[t] }]
  BY DEF Supported
<1>4. Range(pipelines) = { pipelines[t] : t \in DOMAIN tasks }
  BY DEF Range
<1> HIDE DEF pipelines
<1>5. UNION Range(pipelines) = { p \in Seq(Sigs) : Minable(p) /\ Occurs(tasks, p) # {} }
  <2>1. ASSUME NEW p, p \in UNION Range(pipelines) PROVE p \in Seq(Sigs) /\ Minable(p) /\ Occurs(tasks, p) # {}
    <3>1. PICK t \in DOMAIN tasks : p \in pipelines[t]
      BY <1>4, <2>1
    <3> QED BY <1>2, <3>1 DEF Occurs
  <2>2. ASSUME NEW p \in Seq(Sigs), Minable(p), Occurs(tasks, p) # {} PROVE p \in UNION Range(pipelines)
    <3>1. PICK t \in DOMAIN tasks : Within(p, Signatures(tasks[t]))
      BY <2>2 DEF Occurs
    <3>2. p \in pipelines[t]
      BY <1>2, <2>2, <3>1
    <3> QED BY <1>4, <3>2
  <2> QED BY <2>1, <2>2
<1>6. \A p \in UNION Range(pipelines) : { t \in DOMAIN tasks : p \in pipelines[t] } = Occurs(tasks, p)
  BY <1>2, <1>5 DEF Occurs
<1> QED BY <1>3, <1>5, <1>6

(* Whatever recurs is part of something that recurs in the same tasks and is  *)
(* part of nothing that does: the longest there is.                           *)
LEMMA LongestExists ==
    ASSUME NEW S, S # {}, \A q \in S : Len(q) \in 0..MaxPattern
    PROVE  \E q \in S : \A r \in S : Len(r) <= Len(q)
<1> DEFINE Short == { MaxPattern - Len(q) : q \in S }
           R == OpToRel(<, Nat)
<1>0. Short \in SUBSET Nat /\ Short # {} /\ \A n \in Short : \E q \in S : n = MaxPattern - Len(q)
  <2>1. \A q \in S : MaxPattern - Len(q) \in Nat
    <3>1. ASSUME NEW m \in 0..MaxPattern PROVE MaxPattern - m \in Nat
      BY DEF MaxPattern
    <3> QED BY <3>1
  <2> QED BY <2>1
<1>1. IsWellFoundedOn(R, Nat)
  BY NatLessThanWellFounded
<1> HIDE DEF R, Short
<1>2. PICK x \in Short : \A y \in Short : <<y, x>> \notin R
  BY <1>0, <1>1, WFMin
<1>3. \A y \in Short : ~(y < x) /\ y \in Nat /\ x \in Nat
  BY <1>0, <1>2 DEF R, OpToRel
<1>4. PICK q \in S : x = MaxPattern - Len(q)
  BY <1>0
<1>5. ASSUME NEW r \in S PROVE Len(r) <= Len(q)
  <2>1. MaxPattern - Len(r) \in Short
    BY DEF Short
  <2> QED BY <1>3, <1>4, <2>1 DEF MaxPattern
<1> QED BY <1>5

LEMMA OccursShrinks ==
    ASSUME NEW tasks \in Seq(Seq(ObservedCalls)), NEW p \in Seq(Sigs), NEW q \in Seq(Sigs), Within(p, q)
    PROVE  /\ Occurs(tasks, q) \subseteq Occurs(tasks, p)
           /\ IsFiniteSet(Occurs(tasks, p)) /\ Cardinality(Occurs(tasks, p)) \in Nat
           /\ Cardinality(Occurs(tasks, q)) >= Cardinality(Occurs(tasks, p))
                => Occurs(tasks, q) = Occurs(tasks, p)
<1>1. ASSUME NEW t \in DOMAIN tasks, Within(q, Signatures(tasks[t])) PROVE Within(p, Signatures(tasks[t]))
  <2>1. Signatures(tasks[t]) \in Seq(Sigs)
    BY SignaturesAre
  <2> QED BY <1>1, <2>1, WithinTransitive
<1>2. Occurs(tasks, q) \subseteq Occurs(tasks, p)
  BY <1>1 DEF Occurs
<1>3. IsFiniteSet(DOMAIN tasks)
  <2>1. DOMAIN tasks = 1..Len(tasks) /\ Len(tasks) \in Nat
    OBVIOUS
  <2> QED BY <2>1, FS_Interval
<1>4. IsFiniteSet(Occurs(tasks, p))
  BY <1>3, FS_Subset DEF Occurs
<1>5. Cardinality(Occurs(tasks, p)) \in Nat
  BY <1>4, FS_CardinalityType
<1>6. /\ Cardinality(Occurs(tasks, q)) <= Cardinality(Occurs(tasks, p))
      /\ Cardinality(Occurs(tasks, q)) = Cardinality(Occurs(tasks, p)) => Occurs(tasks, q) = Occurs(tasks, p)
      /\ IsFiniteSet(Occurs(tasks, q))
  BY <1>2, <1>4, FS_Subset
<1>7. Cardinality(Occurs(tasks, q)) \in Nat
  BY <1>6, FS_CardinalityType
<1> QED BY <1>2, <1>4, <1>5, <1>6, <1>7

LEMMA HabitIsKept ==
    ASSUME NEW tasks \in Seq(Seq(ObservedCalls)), NEW p \in Frequent(Supported(tasks))
    PROVE  \E q \in Undominated(Supported(tasks)) :
              /\ Within(p, q) /\ Len(p) <= Len(q) /\ Supported(tasks)[q] = Occurs(tasks, p)
<1> DEFINE support == Supported(tasks)
           Same == { q \in Frequent(support) : Within(p, q) /\ support[q] = support[p] }
<1>1. /\ \A q \in Frequent(support) : q \in Seq(Sigs) /\ Minable(q) /\ support[q] = Occurs(tasks, q)
      /\ \A q \in Frequent(support) : q \in DOMAIN support
  BY SupportIs DEF Frequent
<1>2. p \in Same
  <2>1. LiesAt(p, p, 0)
    BY <1>1 DEF LiesAt
  <2> QED BY <1>1, <2>1, WithinIs
<1>3. \A q \in Same : Len(q) \in 0..MaxPattern
  <2>1. \A q \in Frequent(support) : Len(q) \in MinPattern..MaxPattern
    BY <1>1 DEF Minable
  <2>2. \A n \in MinPattern..MaxPattern : n \in 0..MaxPattern
    BY MiningAssumption DEF MaxPattern
  <2> QED BY <2>1, <2>2
<1>4. PICK q \in Same : \A r \in Same : Len(r) <= Len(q)
  <2> HIDE DEF Same, support
  <2> QED BY <1>2, <1>3, LongestExists
<1>5. ASSUME NEW r \in Frequent(support), Dominates(support, q, r) PROVE FALSE
  <2>1. /\ Within(q, r) /\ Within(p, q) /\ Len(r) > Len(q)
        /\ Cardinality(Occurs(tasks, r)) >= Cardinality(Occurs(tasks, q))
    BY <1>1, <1>4, <1>5 DEF Dominates
  <2>2. Occurs(tasks, r) = Occurs(tasks, q)
    BY <1>1, <1>4, <2>1, OccursShrinks
  <2>3. Within(p, r)
    BY <1>1, <1>4, <2>1, WithinTransitive
  <2>4. r \in Same
    BY <1>1, <1>4, <2>2, <2>3
  <2>5. Len(r) <= Len(q) /\ Len(r) \in Nat /\ Len(q) \in Nat
    BY <1>1, <1>4, <2>4
  <2> QED BY <2>1, <2>5
<1>6. q \in Undominated(support)
  BY <1>4, <1>5 DEF Undominated
<1>7. Len(p) <= Len(q)
  BY <1>1, <1>2, <1>4
<1> QED BY <1>1, <1>4, <1>6, <1>7

LEMMA HabitsOffered == ASSUME corpus \in Seq(Seq(ObservedCalls)) PROVE HabitsAreOffered
<1> DEFINE offers == Offers(corpus)
<1> SUFFICES ASSUME NEW t \in DOMAIN corpus, NEW n \in Max({LeastSteps, MinPattern})..MaxPattern,
                    NEW i \in StartsOf(corpus[t], n),
                    Cardinality(Shared(Window(Signatures(corpus[t]), i, n))) >= MinSupport
             PROVE  \E offer \in offers :
                       /\ Within(Window(Signatures(corpus[t]), i, n), offer.pattern)
                       /\ offer.supporters = Shared(Window(Signatures(corpus[t]), i, n))
  BY DEF HabitsAreOffered
<1> DEFINE s == Signatures(corpus[t])
           p == Window(s, i, n)
<1>1. n \in Nat /\ n >= LeastSteps /\ n >= MinPattern /\ n <= MaxPattern
  <2> DEFINE M == Max({LeastSteps, MinPattern})
  <2>1. LeastSteps \in Nat /\ MinPattern \in Nat /\ MaxPattern \in Nat
    BY MiningAssumption DEF LeastSteps, MaxPattern
  <2>2. \E m \in {LeastSteps, MinPattern} : \A k \in {LeastSteps, MinPattern} : m >= k
    BY <2>1
  <2>3. M \in {LeastSteps, MinPattern} /\ M >= LeastSteps /\ M >= MinPattern
    BY <2>2 DEF Max
  <2>4. n \in M..MaxPattern
    OBVIOUS
  <2> HIDE DEF M
  <2> QED BY <2>1, <2>3, <2>4
<1>2. s \in Seq(Sigs) /\ Len(s) = Len(corpus[t])
  BY SignaturesAre
<1>3. i \in StartsOf(s, n)
  BY <1>2 DEF StartsOf
<1> HIDE DEF s
<1>4. p \in Seq(Sigs) /\ Len(p) = n /\ Minable(p) /\ Within(p, s)
  BY <1>1, <1>2, <1>3, WindowIs DEF Within, Minable
<1> HIDE DEF p
<1>5. Shared(p) = Occurs(corpus, p) /\ t \in Occurs(corpus, p)
  BY <1>4 DEF Shared, Occurs, s
<1>6. p \in Frequent(Supported(corpus))
  BY <1>4, <1>5, SupportIs DEF Frequent, p, s
<1>7. PICK q \in Undominated(Supported(corpus)) :
         Within(p, q) /\ Len(p) <= Len(q) /\ Supported(corpus)[q] = Occurs(corpus, p)
  BY <1>6, HabitIsKept
<1>8. Len(q) >= LeastSteps
  <2>1. q \in DOMAIN Supported(corpus)
    BY DEF Undominated, Frequent
  <2>2. Len(q) \in Nat
    BY <2>1, SupportIs
  <2> QED BY <1>1, <1>4, <1>7, <2>2 DEF LeastSteps
<1> DEFINE offer == Offer(corpus, q, Supported(corpus)[q])
<1>9. offer \in offers
  BY <1>8 DEF Offers
<1>10. offer.pattern = q /\ offer.supporters = Occurs(corpus, p)
  BY <1>7 DEF Offer
<1> HIDE DEF offer, offers
<1> QED BY <1>5, <1>7, <1>9, <1>10 DEF p, s

LEMMA OrderedIs ==
    ASSUME NEW N \in Nat, NEW S \in SUBSET (1..N)
    PROVE  Ascends(Ordered(S), S)
BY AscentExists DEF Ordered, Ascends

------------------------------------------------------------------------------
(* What is offered.                                                           *)

LEMMA SignaturesTell ==
    ASSUME NEW c \in ObservedCalls, NEW d \in ObservedCalls, Signature(c) = Signature(d)
    PROVE  c.tool = d.tool /\ DOMAIN c.args = DOMAIN d.args
<1>1. Signature(c).tool = Signature(d).tool /\ DOMAIN Signature(c).shape = DOMAIN Signature(d).shape
  OBVIOUS
<1> QED BY <1>1 DEF Signature

LEMMA OccurrenceIs ==
    ASSUME NEW calls \in Seq(ObservedCalls), NEW p \in Seq(Sigs), Within(p, Signatures(calls))
    PROVE  /\ Occurrence(calls, p) \in Seq(ObservedCalls) /\ Len(Occurrence(calls, p)) = Len(p)
           /\ \A k \in 1..Len(p) : Signature(Occurrence(calls, p)[k]) = p[k]
           /\ \E d \in Nat : d + Len(p) <= Len(calls)
                             /\ \A k \in 1..Len(p) : Occurrence(calls, p)[k] = calls[d + k]
<1> DEFINE s == Signatures(calls)
           matches == { i \in StartsOf(calls, Len(p)) : Window(s, i, Len(p)) = p }
           m == Min(matches)
<1>1. s \in Seq(Sigs) /\ Len(s) = Len(calls) /\ \A i \in 1..Len(calls) : s[i] = Signature(calls[i])
  BY SignaturesAre
<1>2. StartsOf(calls, Len(p)) = StartsOf(s, Len(p)) /\ StartsOf(s, Len(p)) \in SUBSET Nat
  BY <1>1 DEF StartsOf
<1>3. matches # {}
  BY <1>2 DEF Within
<1>4. m \in matches
  <2>1. \E x \in matches : \A y \in matches : x <= y
    <3>1. matches \in SUBSET Nat
      BY <1>2
    <3> HIDE DEF matches
    <3> QED BY <1>3, <3>1, LeastExists
  <2> HIDE DEF matches
  <2> QED BY <2>1 DEF Min
<1>5. m \in StartsOf(calls, Len(p)) /\ Window(s, m, Len(p)) = p
  BY <1>4
<1>6. Occurrence(calls, p) = Window(calls, m, Len(p))
  BY DEF Occurrence
<1> HIDE DEF m, s
<1>7. /\ Occurrence(calls, p) \in Seq(ObservedCalls) /\ Len(Occurrence(calls, p)) = Len(p)
      /\ \A k \in 1..Len(p) : Occurrence(calls, p)[k] = calls[m + k - 1]
  BY <1>5, <1>6, WindowIs
<1>8. \A k \in 1..Len(p) : p[k] = s[m + k - 1]
  <2>1. m \in StartsOf(s, Len(p)) /\ Len(p) \in Nat
    BY <1>2, <1>5
  <2>2. \A k \in 1..Len(p) : Window(s, m, Len(p))[k] = s[m + k - 1]
    BY <1>1, <2>1, WindowIs
  <2> QED BY <1>5, <2>2
<1>9. m - 1 \in Nat /\ (m - 1) + Len(p) <= Len(calls)
      /\ \A k \in 1..Len(p) : m + k - 1 \in 1..Len(calls) /\ m + k - 1 = (m - 1) + k
  BY <1>5 DEF StartsOf
<1>10. \A k \in 1..Len(p) : Signature(Occurrence(calls, p)[k]) = p[k]
  BY <1>1, <1>7, <1>8, <1>9
<1>11. \A k \in 1..Len(p) : Occurrence(calls, p)[k] = calls[(m - 1) + k]
  BY <1>7, <1>9
<1> QED BY <1>7, <1>9, <1>10, <1>11

(* The offer of a pipeline, made of one occurrence for each task it was found *)
(* in, with the values of any of them is that occurrence.                     *)
LEMMA OfferReplays ==
    ASSUME NEW tasks \in Seq(Seq(ObservedCalls)), NEW p \in Seq(Sigs), NEW t \in Occurs(tasks, p)
    PROVE  BindParameters(Offer(tasks, p, Occurs(tasks, p)), Occurrence(tasks[t], p)) =
              [i \in DOMAIN Occurrence(tasks[t], p) |->
                  [tool |-> Occurrence(tasks[t], p)[i].tool, args |-> Occurrence(tasks[t], p)[i].args]]
<1> DEFINE tids == Occurs(tasks, p)
           supporters == Ordered(tids)
           windows == [n \in DOMAIN supporters |-> Occurrence(tasks[supporters[n]], p)]
           offer == Offer(tasks, p, tids)
           steps == offer.steps
           did == Occurrence(tasks[t], p)
           L == Len(p)
<1>1. Ascends(supporters, tids)
  <2>1. tids \in SUBSET (1..Len(tasks)) /\ Len(tasks) \in Nat
    BY DEF Occurs
  <2> HIDE DEF tids
  <2> QED BY <2>1, OrderedIs
<1>2. \A n \in DOMAIN supporters : supporters[n] \in tids
  <2> HIDE DEF tids, supporters
  <2> QED BY <1>1 DEF Ascends
<1>3. 1 \in DOMAIN supporters /\ \E n \in DOMAIN supporters : supporters[n] = t
  <2>0. t \in tids
    OBVIOUS
  <2> HIDE DEF tids, supporters
  <2>1. PICK n \in DOMAIN supporters : supporters[n] = t
    BY <1>1, <2>0 DEF Ascends, Range
  <2>2. DOMAIN supporters = 1..Cardinality(tids)
    BY <1>1 DEF Ascends
  <2>3. 1 \in DOMAIN supporters
    <3>1. IsFiniteSet(tids)
      <4>1. IsFiniteSet(1..Len(tasks)) /\ tids \subseteq 1..Len(tasks)
        BY FS_Interval DEF tids, Occurs
      <4> QED BY <4>1, FS_Subset
    <3>2. Cardinality(tids) \in Nat
      BY <3>1, FS_CardinalityType
    <3> QED BY <2>1, <2>2, <3>2
  <2> QED BY <2>1, <2>3
<1>4. \A u \in tids : /\ Occurrence(tasks[u], p) \in Seq(ObservedCalls) /\ Len(Occurrence(tasks[u], p)) = L
                      /\ \A k \in 1..L : Signature(Occurrence(tasks[u], p)[k]) = p[k]
  <2>1. \A u \in tids : tasks[u] \in Seq(ObservedCalls) /\ Within(p, Signatures(tasks[u]))
    BY DEF Occurs
  <2> HIDE DEF tids, L
  <2> QED BY <2>1, OccurrenceIs DEF L
<1>5. /\ DOMAIN windows = DOMAIN supporters
      /\ \A n \in DOMAIN windows :
            /\ windows[n] \in Seq(ObservedCalls) /\ Len(windows[n]) = L
            /\ \A k \in 1..L : windows[n][k] \in ObservedCalls /\ Signature(windows[n][k]) = p[k]
  <2> HIDE DEF tids, supporters
  <2>1. \A n \in DOMAIN supporters : windows[n] \in Seq(ObservedCalls) /\ Len(windows[n]) = L
           /\ \A k \in 1..L : Signature(windows[n][k]) = p[k]
    BY <1>2, <1>4
  <2> HIDE DEF windows, L
  <2>2. \A n \in DOMAIN supporters : \A k \in 1..L : windows[n][k] \in ObservedCalls
    BY <2>1
  <2> QED BY <2>1, <2>2 DEF windows
<1>6. steps = Generalized(windows)
  BY DEF Offer
<1>7. did \in ToSet(windows)
  <2> HIDE DEF tids, supporters, did
  <2>1. PICK n \in DOMAIN supporters : supporters[n] = t
    BY <1>3
  <2>2. windows[n] = did
    BY <2>1 DEF did
  <2> QED BY <2>2 DEF ToSet
<1> HIDE DEF tids, supporters, windows, steps
<1> DEFINE w == windows[1]
<1>8. /\ w \in Seq(ObservedCalls) /\ DOMAIN w = 1..L /\ DOMAIN did = 1..L
      /\ \A k \in 1..L : w[k] \in ObservedCalls /\ did[k] \in ObservedCalls /\ Signature(w[k]) = Signature(did[k])
  <2>1. 1 \in DOMAIN windows
    BY <1>3, <1>5
  <2>2. t \in tids
    BY DEF tids
  <2>3. did \in Seq(ObservedCalls) /\ Len(did) = L /\ \A k \in 1..L : Signature(did[k]) = p[k]
    BY <1>4, <2>2
  <2> HIDE DEF did, L
  <2> QED BY <1>5, <2>1, <2>3
<1> HIDE DEF did, L, w
<1>9. \A k \in 1..L : /\ w[k].tool = did[k].tool /\ DOMAIN w[k].args = DOMAIN did[k].args
                      /\ did[k].args = [x \in DOMAIN did[k].args |-> did[k].args[x]]
  <2>1. \A k \in 1..L : w[k].tool = did[k].tool /\ DOMAIN w[k].args = DOMAIN did[k].args
    BY <1>8, SignaturesTell
  <2>2. \A c \in ObservedCalls : c.args = [x \in DOMAIN c.args |-> c.args[x]]
    BY MiningAssumption
  <2> QED BY <1>8, <2>1, <2>2
<1>10. \A k \in 1..L : \A x \in DOMAIN w[k].args :
          Constant(windows, k, x) => w[k].args[x] = did[k].args[x]
  BY <1>7 DEF Constant, w
<1> DEFINE Template(k, x) == IF Constant(windows, k, x) THEN [param |-> FALSE, value |-> w[k].args[x]]
                             ELSE [param |-> TRUE, value |-> <<k, x>>]
           Args(k) == [x \in DOMAIN w[k].args |-> Template(k, x)]
<1>a. /\ DOMAIN steps = 1..L
      /\ \A k \in 1..L : steps[k] = [tool |-> w[k].tool, args |-> Args(k)]
  BY <1>6, <1>8 DEF Generalized, w
<1>b. \A k : /\ DOMAIN Args(k) = DOMAIN w[k].args
             /\ \A x \in DOMAIN w[k].args : Args(k)[x] = Template(k, x)
  OBVIOUS
<1> HIDE DEF Args
<1>11. /\ DOMAIN steps = 1..L
       /\ \A k \in 1..L : steps[k].tool = w[k].tool /\ steps[k].args = Args(k)
  BY <1>a
<1>12. \A k \in 1..L : /\ steps[k].tool = did[k].tool /\ DOMAIN steps[k].args = DOMAIN did[k].args
                       /\ \A x \in DOMAIN did[k].args :
                            (IF steps[k].args[x].param THEN did[k].args[x] ELSE steps[k].args[x].value)
                               = did[k].args[x]
  <2> SUFFICES ASSUME NEW k \in 1..L
               PROVE  /\ steps[k].tool = did[k].tool /\ DOMAIN steps[k].args = DOMAIN did[k].args
                      /\ \A x \in DOMAIN did[k].args :
                            (IF steps[k].args[x].param THEN did[k].args[x] ELSE steps[k].args[x].value)
                               = did[k].args[x]
    OBVIOUS
  <2>1. steps[k].tool = did[k].tool /\ DOMAIN steps[k].args = DOMAIN did[k].args
    <3>1. steps[k].tool = w[k].tool /\ steps[k].args = Args(k)
      BY <1>11
    <3>2. DOMAIN Args(k) = DOMAIN w[k].args
      BY <1>b
    <3> HIDE DEF Template
    <3> QED BY <1>9, <3>1, <3>2
  <2>2. ASSUME NEW x \in DOMAIN did[k].args
        PROVE  (IF steps[k].args[x].param THEN did[k].args[x] ELSE steps[k].args[x].value) = did[k].args[x]
    <3>1. steps[k].args[x] = Template(k, x) /\ x \in DOMAIN w[k].args
      <4>1. steps[k].args = Args(k)
        BY <1>11
      <4>2. DOMAIN w[k].args = DOMAIN did[k].args
        BY <1>9
      <4>3. Args(k)[x] = Template(k, x)
        BY <1>b, <2>2, <4>2
      <4> HIDE DEF Template
      <4> QED BY <2>2, <4>1, <4>2, <4>3
    <3>2. CASE Constant(windows, k, x)
      BY <1>10, <3>1, <3>2
    <3>3. CASE ~Constant(windows, k, x)
      BY <3>1, <3>3
    <3> QED BY <3>2, <3>3
  <2> QED BY <2>1, <2>2
<1>13. BindParameters(offer, did) =
          [k \in 1..L |->
             [tool |-> steps[k].tool,
              args |-> [x \in DOMAIN steps[k].args |->
                 IF steps[k].args[x].param THEN did[k].args[x] ELSE steps[k].args[x].value]]]
  BY <1>11 DEF BindParameters, steps
<1>14. \A k \in 1..L :
          [x \in DOMAIN steps[k].args |->
                 IF steps[k].args[x].param THEN did[k].args[x] ELSE steps[k].args[x].value] = did[k].args
  <2> SUFFICES ASSUME NEW k \in 1..L
               PROVE  [x \in DOMAIN steps[k].args |->
                         IF steps[k].args[x].param THEN did[k].args[x] ELSE steps[k].args[x].value]
                       = [x \in DOMAIN did[k].args |-> did[k].args[x]]
    BY <1>9
  <2> QED BY <1>12
<1>15. BindParameters(offer, did) = [k \in 1..L |-> [tool |-> did[k].tool, args |-> did[k].args]]
  BY <1>12, <1>13, <1>14
<1> QED BY <1>8, <1>15 DEF did, offer, tids

LEMMA OffersAre ==
    ASSUME NEW tasks \in Seq(Seq(ObservedCalls)), NEW offer \in Offers(tasks)
    PROVE  /\ offer.pattern \in Seq(Sigs) /\ offer.supporters = Occurs(tasks, offer.pattern)
           /\ offer = Offer(tasks, offer.pattern, offer.supporters)
<1>1. PICK p \in Undominated(Supported(tasks)) : offer = Offer(tasks, p, Supported(tasks)[p])
  BY DEF Offers
<1>2. p \in DOMAIN Supported(tasks)
  BY DEF Undominated, Frequent
<1>3. p \in Seq(Sigs) /\ Supported(tasks)[p] = Occurs(tasks, p)
  BY <1>2, SupportIs
<1>4. offer.pattern = p /\ offer.supporters = Supported(tasks)[p]
  BY <1>1 DEF Offer
<1> QED BY <1>1, <1>3, <1>4

LEMMA OffersReplayed == ASSUME corpus \in Seq(Seq(ObservedCalls)) PROVE OffersReplay
<1> SUFFICES ASSUME NEW offer \in Offers(corpus), NEW t \in offer.supporters
             PROVE  BindParameters(offer, Occurrence(corpus[t], offer.pattern)) =
                       [i \in DOMAIN Occurrence(corpus[t], offer.pattern) |->
                          [tool |-> Occurrence(corpus[t], offer.pattern)[i].tool,
                           args |-> Occurrence(corpus[t], offer.pattern)[i].args]]
  BY DEF OffersReplay
<1>1. /\ offer.pattern \in Seq(Sigs) /\ offer.supporters = Occurs(corpus, offer.pattern)
      /\ offer = Offer(corpus, offer.pattern, offer.supporters)
  BY OffersAre
<1> DEFINE p == offer.pattern
<1>2. t \in Occurs(corpus, p) /\ p \in Seq(Sigs) /\ offer = Offer(corpus, p, Occurs(corpus, p))
  BY <1>1
<1> HIDE DEF p
<1>3. BindParameters(Offer(corpus, p, Occurs(corpus, p)), Occurrence(corpus[t], p)) =
              [i \in DOMAIN Occurrence(corpus[t], p) |->
                  [tool |-> Occurrence(corpus[t], p)[i].tool, args |-> Occurrence(corpus[t], p)[i].args]]
  BY <1>2, OfferReplays
<1> QED BY <1>2, <1>3 DEF p

(* What is mined are calls, in the order of their plans.                      *)
ByPlan(calls) == \A i, j \in DOMAIN calls : i < j => calls[i].plan <= calls[j].plan

MiningInv ==
    /\ history \in Seq(TaskRuns)
    /\ corpus \in Seq(Seq(ObservedCalls))
    /\ \A t \in DOMAIN corpus : ByPlan(corpus[t])

LEMMA OffersFollow == ASSUME MiningInv PROVE OffersFollowPlans
<1> SUFFICES ASSUME NEW offer \in Offers(corpus), NEW t \in offer.supporters,
                    NEW i \in DOMAIN Occurrence(corpus[t], offer.pattern),
                    NEW j \in DOMAIN Occurrence(corpus[t], offer.pattern), i < j
             PROVE  Occurrence(corpus[t], offer.pattern)[i].plan <= Occurrence(corpus[t], offer.pattern)[j].plan
  BY DEF OffersFollowPlans
<1> DEFINE p == offer.pattern
           did == Occurrence(corpus[t], p)
<1>1. p \in Seq(Sigs) /\ t \in Occurs(corpus, p)
  BY OffersAre DEF MiningInv
<1>2. t \in DOMAIN corpus /\ corpus[t] \in Seq(ObservedCalls) /\ Within(p, Signatures(corpus[t]))
  BY <1>1 DEF Occurs, MiningInv
<1> HIDE DEF p
<1>3. /\ did \in Seq(ObservedCalls) /\ Len(did) = Len(p)
      /\ \E d \in Nat : d + Len(p) <= Len(corpus[t]) /\ \A k \in 1..Len(p) : did[k] = corpus[t][d + k]
  BY <1>1, <1>2, OccurrenceIs
<1>4. PICK d \in Nat : d + Len(p) <= Len(corpus[t]) /\ \A k \in 1..Len(p) : did[k] = corpus[t][d + k]
  BY <1>3
<1>5. i \in DOMAIN did /\ j \in DOMAIN did
  BY DEF p
<1> HIDE DEF did
<1>6. i \in 1..Len(p) /\ j \in 1..Len(p) /\ did[i] = corpus[t][d + i] /\ did[j] = corpus[t][d + j]
  <2>1. DOMAIN did = 1..Len(p)
    BY <1>3
  <2>2. i \in 1..Len(p) /\ j \in 1..Len(p)
    BY <1>5, <2>1
  <2> QED BY <1>4, <2>2
<1>7. d + i \in DOMAIN corpus[t] /\ d + j \in DOMAIN corpus[t] /\ d + i < d + j
  BY <1>1, <1>2, <1>4, <1>6
<1>8. corpus[t][d + i].plan <= corpus[t][d + j].plan
  BY <1>2, <1>7 DEF MiningInv, ByPlan
<1> QED BY <1>6, <1>8 DEF did, p

LEMMA RunsAreCalls ==
    ASSUME NEW calls \in TaskRuns
    PROVE  calls \in Seq(ObservedCalls) /\ ByPlan(calls)
BY MiningAssumption DEF ByPlan

LEMMA LoadsAreCalls ==
    ASSUME NEW calls \in Seq(ObservedCalls), NEW loaded \in Loads(calls)
    PROVE  loaded \in Seq(ObservedCalls) /\ ByPlan(loaded)
<1>1. PICK f \in Shuffles(calls) : /\ \A i, j \in DOMAIN calls : i < j => calls[f[i]].plan <= calls[f[j]].plan
                                   /\ loaded = [i \in DOMAIN calls |-> calls[f[i]]]
  BY DEF Loads
<1>2. f \in [DOMAIN calls -> DOMAIN calls] /\ DOMAIN calls = 1..Len(calls) /\ Len(calls) \in Nat
  BY DEF Shuffles
<1>3. loaded \in Seq(ObservedCalls)
  BY <1>1, <1>2
<1> QED BY <1>1, <1>3 DEF ByPlan

LEMMA NewestAre ==
    ASSUME history \in Seq(TaskRuns)
    PROVE  Newest \in Seq(TaskRuns)
<1> DEFINE from == IF Len(history) > MinedTasks THEN Len(history) - MinedTasks + 1 ELSE 1
<1>1. from \in Nat /\ from >= 1 /\ from <= Len(history) + 1
  BY MiningAssumption
<1> HIDE DEF from
<1>2. SubSeq(history, from, Len(history)) \in Seq(TaskRuns)
  BY <1>1
<1> QED BY <1>2 DEF Newest, from

LEMMA MiningInvHolds == MiningSpec => []MiningInv
<1>1. MiningInit => MiningInv
  BY DEF MiningInit, MiningInv
<1>2. ASSUME MiningInv, [MiningNext]_miningVars PROVE MiningInv'
  <2>1. ASSUME NEW calls \in TaskRuns, TaskSucceeds(calls) PROVE MiningInv'
    BY <1>2, <2>1 DEF MiningInv, TaskSucceeds, ByPlan
  <2>2. CASE AutoMine
    <3>1. Newest \in Seq(TaskRuns) /\ history' = history
      BY <1>2, <2>2, NewestAre DEF MiningInv, AutoMine
    <3>2. \A t \in DOMAIN Newest : Newest[t] \in Seq(ObservedCalls)
      BY <3>1, RunsAreCalls
    <3>3. DOMAIN corpus' = DOMAIN Newest /\ \A t \in DOMAIN Newest : corpus'[t] \in Loads(Newest[t])
      BY <2>2 DEF AutoMine
    <3>4. \A t \in DOMAIN Newest : corpus'[t] \in Seq(ObservedCalls) /\ ByPlan(corpus'[t])
      BY <3>2, <3>3, LoadsAreCalls
    <3>5. corpus' = [t \in DOMAIN Newest |-> corpus'[t]]
      BY <2>2 DEF AutoMine
    <3>6. corpus' \in Seq(Seq(ObservedCalls))
      <4>1. DOMAIN Newest = 1..Len(Newest) /\ Len(Newest) \in Nat
        BY <3>1
      <4> QED BY <3>4, <3>5, <4>1
    <3> QED BY <1>2, <3>1, <3>3, <3>4, <3>6 DEF MiningInv, ByPlan
  <2>3. CASE MineRecords
    <3>1. history \in Seq(TaskRuns) /\ history' = history /\ corpus' = history
      BY <1>2, <2>3 DEF MiningInv, MineRecords
    <3>2. \A t \in DOMAIN history : history[t] \in Seq(ObservedCalls) /\ ByPlan(history[t])
      BY <3>1, RunsAreCalls
    <3>3. history \in Seq(Seq(ObservedCalls))
      BY <3>1, <3>2
    <3> QED BY <3>1, <3>2, <3>3 DEF MiningInv, ByPlan
  <2>4. CASE UNCHANGED miningVars
    BY <1>2, <2>4 DEF miningVars, MiningInv, ByPlan
  <2> QED BY <1>2, <2>1, <2>2, <2>3, <2>4 DEF MiningNext
<1> QED BY <1>1, <1>2, PTL DEF MiningSpec

(* Whatever tasks ran, and whatever support and lengths are asked for: every  *)
(* habit is offered, by itself or within a longer one; each offer, bound,     *)
(* gives back the occurrences it was made of; and it follows their plans      *)
(* (mine_frequent_sequences, propose_workflows, bind_parameters).             *)
THEOREM HabitsBecomeOffers == MiningSpec => []OffersAreHabits
<1>1. MiningInv => OffersAreHabits
  <2> SUFFICES ASSUME MiningInv PROVE OffersAreHabits
    OBVIOUS
  <2>1. corpus \in Seq(Seq(ObservedCalls))
    BY DEF MiningInv
  <2> QED BY <2>1, HabitsOffered, OffersReplayed, OffersFollow DEF OffersAreHabits
<1> QED BY <1>1, MiningInvHolds, PTL

------------------------------------------------------------------------------
(* A task that is cancelled.                                                  *)

HandState == [pc : {"idle", "claimed", "loaded"} \cup Executing,
              act : Actions \cup {NoAction}, last : BOOLEAN]
RequestState ==
    [pc : {"idle", "marking", "undoing", "done", "reported", "refused", "dead"},
     undoes : BOOLEAN, act : [Actions -> ActionStatus], todo : SUBSET Actions,
     again : BOOLEAN, missed : SUBSET Actions, report : Report]

Runs(w, a) == hand[w].act = a /\ hand[w].pc \in Executing
Kept == {"SUCCEEDED", "ROLLED_BACK"}

(* Who has an action in hand: one worker, and while it is RUNNING, until its  *)
(* lease lapses under a live one; and the ledger keeps a tool that is not     *)
(* idempotent from two workers, and from one that comes late.                 *)
HandInv ==
    /\ \A w \in Workers : hand[w].pc = "idle" <=> hand[w].act = NoAction
    /\ \A a \in Actions : overrun[a] = 0 =>
         \A w \in Workers : hand[w].act = a =>
             row[a] = "RUNNING" /\ \A v \in Workers : hand[v].act = a => v = w
    /\ \A a \in Actions \ Idempotent :
         /\ \A w, v \in Workers : Runs(w, a) /\ Runs(v, a) => v = w
         /\ row[a] \in Kept => a \in ledger
         /\ a \in ledger => \A w \in Workers : ~Runs(w, a)

(* What the world and the rows of actions say of one another.                 *)
WorldInv ==
    \A a \in Actions :
        /\ world[a].undos \in {0, 1}
        /\ row[a] \in Kept => world[a].effect # "none"
        /\ row[a] = "ROLLED_BACK" => world[a].undos = 1
        /\ world[a].undos = 1 => row[a] \in Kept
        /\ world[a].effect = "undone" => world[a].undos = 1
        /\ world[a].undos = 1 /\ a \notin Redoable => world[a].effect = "undone"

(* One request wins the task; what is undone is what that one compensated.    *)
Won(r) == req[r].pc \in {"undoing", "done", "dead"}
WinnerInv ==
    /\ \A r \in Requests : Won(r) => task = "CANCELLED"
    /\ \A r, s \in Requests : Won(r) /\ Won(s) => r = s
    /\ \A r \in Requests : req[r].todo # {} => Won(r)
    /\ \A a \in Actions : world[a].undos = 1 => task = "CANCELLED"
    /\ \A r \in Requests : Won(r) =>
         \A a \in Actions : world[a].undos = 1 <=> a \in req[r].report.compensated

(* What a request still has to undo is there to be undone, before what it was *)
(* built on; what it has undone its report has written over; and one that has *)
(* not marked the task knows of no false success.                             *)
RequestInv ==
    \A r \in Requests :
        /\ req[r].pc = "undoing" =>
             \A a \in req[r].todo : row[a] = "SUCCEEDED" /\ world[a].undos = 0
        /\ req[r].pc = "undoing" /\ ~req[r].again =>
             \A b \in req[r].todo : \A a \in Deps[b] : world[a].undos = 0
        /\ req[r].pc = "done" =>
             \A a \in req[r].report.compensated : row[a] = "ROLLED_BACK"
        /\ req[r].pc = "marking" =>
             /\ req[r].report.compensated = {} /\ ~req[r].again
             /\ task = "RUNNING" => \A a \in Actions : req[r].act[a] = "SUCCEEDED" => row[a] = "SUCCEEDED"

CancelInv == TypeOK /\ HandInv /\ WorldInv /\ WinnerInv /\ RequestInv

------------------------------------------------------------------------------
LEMMA CancelInvInit == Init => CancelInv
<1> SUFFICES ASSUME Init PROVE CancelInv
  OBVIOUS
<1>1. NoReport \in Report
  BY DEF NoReport, Report
<1>2. TypeOK
  BY <1>1, CancellationAssumption DEF Init, TypeOK, Waiting, Away, ActionStatus
<1>3. \A r \in Requests : req[r].pc = "idle" /\ req[r].todo = {}
  BY DEF Init, Waiting
<1>4. \A a \in Actions : world[a].effect = "none" /\ world[a].undos = 0 /\ row[a] = "PLANNED"
  BY DEF Init
<1>5. HandInv
  <2>1. \A w \in Workers : hand[w].pc = "idle" /\ hand[w].act = NoAction
    BY DEF Init, Away
  <2> QED BY <1>4, <2>1, CancellationAssumption DEF HandInv, Runs, Kept, Executing
<1> QED BY <1>2, <1>3, <1>4, <1>5 DEF CancelInv, WorldInv, WinnerInv, RequestInv, Won, Kept

(* No worker executes what is recorded as done, but an idempotent tool that   *)
(* outlived its lease.                                                        *)
LEMMA KeptIsQuiet ==
    ASSUME CancelInv, NEW a \in Actions, row[a] \in Kept, a \notin Redoable, NEW w \in Workers
    PROVE  ~Runs(w, a)
<1>1. CASE a \in Idempotent
  <2>1. overrun[a] = 0
    BY <1>1 DEF Redoable, CancelInv, TypeOK
  <2> QED BY <2>1 DEF CancelInv, HandInv, Runs, Kept
<1>2. CASE a \notin Idempotent
  BY <1>2 DEF CancelInv, HandInv
<1> QED BY <1>1, <1>2

(* A step of the scheduler, of a worker or of the reaper leaves the requests  *)
(* alone, undoes nothing, and does not move a row whose effect is recorded.   *)
EngineFrame ==
    /\ req' = req
    /\ task' = task \/ (task = "RUNNING" /\ task' # "CANCELLED" /\ task' # "RUNNING")
    /\ \A a \in Actions :
         /\ world'[a].undos = world[a].undos
         /\ \/ world'[a].effect = world[a].effect
            \/ world'[a].effect = "done" /\ (world[a].undos = 1 => a \in Redoable)
         /\ a \in Redoable => a \in Redoable'
         /\ row'[a] = row[a] \/ row[a] \notin Ended
         /\ row'[a] = row[a] \/ row'[a] # "ROLLED_BACK"
         /\ row'[a] = "SUCCEEDED" => row[a] = "SUCCEEDED" \/ world[a].effect # "none"

LEMMA FrameKeepsInv ==
    ASSUME CancelInv, TypeOK', HandInv', EngineFrame
    PROVE  CancelInv'
<1>1. \A r \in Requests : Won(r)' <=> Won(r)
  BY DEF EngineFrame, Won
<1>2. \A a \in Actions :
        /\ world'[a].undos = world[a].undos
        /\ row[a] = "SUCCEEDED" => row'[a] = "SUCCEEDED"
        /\ row[a] = "ROLLED_BACK" => row'[a] = "ROLLED_BACK"
  BY DEF EngineFrame, Ended, NotStarted, ActionStatus
<1>3. WorldInv'
  <2> SUFFICES ASSUME NEW a \in Actions
               PROVE  /\ world'[a].undos \in {0, 1}
                      /\ row'[a] \in Kept => world'[a].effect # "none"
                      /\ row'[a] = "ROLLED_BACK" => world'[a].undos = 1
                      /\ world'[a].undos = 1 => row'[a] \in Kept
                      /\ world'[a].effect = "undone" => world'[a].undos = 1
                      /\ world'[a].undos = 1 /\ a \notin Redoable' => world'[a].effect = "undone"
    BY DEF WorldInv
  <2>1. /\ world[a].undos \in {0, 1}
        /\ row[a] \in Kept => world[a].effect # "none"
        /\ row[a] = "ROLLED_BACK" => world[a].undos = 1
        /\ world[a].undos = 1 => row[a] \in Kept
        /\ world[a].effect = "undone" => world[a].undos = 1
        /\ world[a].undos = 1 /\ a \notin Redoable => world[a].effect = "undone"
    BY DEF CancelInv, WorldInv
  <2>2. /\ \/ world'[a].effect = world[a].effect
           \/ world'[a].effect = "done" /\ (world[a].undos = 1 => a \in Redoable)
        /\ a \in Redoable => a \in Redoable'
        /\ row'[a] = row[a] \/ row'[a] # "ROLLED_BACK"
        /\ row'[a] = "SUCCEEDED" => row[a] = "SUCCEEDED" \/ world[a].effect # "none"
    BY DEF EngineFrame
  <2> QED BY <1>2, <2>1, <2>2 DEF Kept
<1>4. WinnerInv'
  <2>1. task = "CANCELLED" => task' = "CANCELLED"
    BY DEF EngineFrame
  <2> QED BY <1>1, <1>2, <2>1 DEF EngineFrame, CancelInv, WinnerInv
<1>5. RequestInv'
  <2>1. (task' = "RUNNING" => task = "RUNNING") /\ req' = req
    BY DEF EngineFrame
  <2>2. \A r \in Requests : req[r].todo \subseteq Actions /\ req[r].report.compensated \subseteq Actions
    BY DEF CancelInv, TypeOK, Report
  <2>3. \A b \in Actions : Deps[b] \subseteq Actions
    BY CancellationAssumption
  <2> QED BY <1>2, <2>1, <2>2, <2>3 DEF CancelInv, RequestInv
<1> QED BY <1>3, <1>4, <1>5 DEF CancelInv

------------------------------------------------------------------------------
(* A worker that lets go of its action: what it was for may have moved, and   *)
(* its reservation may be written.                                            *)
LEMMA LettingGo ==
    ASSUME CancelInv, NEW w \in Workers, hand' = [hand EXCEPT ![w] = Away], overrun' = overrun,
           \A b \in Actions : row'[b] = row[b] \/ (b = hand[w].act /\ row[b] = "RUNNING"),
           ledger \subseteq ledger', \A b \in ledger' : b \in ledger \/ Runs(w, b),
           \A b \in Actions \ Idempotent :
               row'[b] \in Kept => row'[b] = row[b] \/ b \in ledger'
    PROVE  HandInv'
<1>1. /\ hand'[w] = Away /\ \A v \in Workers : v # w => hand'[v] = hand[v]
      /\ Away.act = NoAction /\ Away.pc = "idle" /\ NoAction \notin Actions
  BY CancellationAssumption DEF CancelInv, TypeOK, Away
<1>2. \A v \in Workers : \A a \in Actions :
        /\ hand'[v].act = a => v # w /\ hand[v].act = a
        /\ Runs(v, a)' => v # w /\ Runs(v, a)
  BY <1>1 DEF Runs
<1>3. \A v \in Workers : hand'[v].pc = "idle" <=> hand'[v].act = NoAction
  BY <1>1 DEF CancelInv, HandInv
<1>4. ASSUME NEW a \in Actions, overrun'[a] = 0, NEW v \in Workers, hand'[v].act = a
      PROVE  row'[a] = "RUNNING" /\ \A u \in Workers : hand'[u].act = a => u = v
  <2>1. overrun[a] = 0 /\ hand[v].act = a /\ v # w
    BY <1>2, <1>4
  <2>2. row[a] = "RUNNING" /\ \A u \in Workers : hand[u].act = a => u = v
    BY <2>1 DEF CancelInv, HandInv
  <2> QED BY <1>2, <2>1, <2>2
<1>5. ASSUME NEW a \in Actions \ Idempotent
      PROVE  /\ \A u, v \in Workers : Runs(u, a)' /\ Runs(v, a)' => v = u
             /\ row'[a] \in Kept => a \in ledger'
             /\ a \in ledger' => \A v \in Workers : ~Runs(v, a)'
  <2>1. /\ \A u, v \in Workers : Runs(u, a) /\ Runs(v, a) => v = u
        /\ row[a] \in Kept => a \in ledger
        /\ a \in ledger => \A v \in Workers : ~Runs(v, a)
    BY DEF CancelInv, HandInv
  <2> QED BY <1>2, <2>1
<1> QED BY <1>3, <1>4, <1>5 DEF HandInv

(* A worker that stays with its action, or takes one that nobody is due to    *)
(* have; only Execute makes it run a tool.                                    *)
LEMMA HoldingOn ==
    ASSUME CancelInv, NEW w \in Workers, NEW x \in HandState, hand' = [hand EXCEPT ![w] = x],
           UNCHANGED <<ledger, overrun>>, x.pc # "idle", x.act \in Actions,
           \A b \in Actions : row'[b] = row[b] \/ (b = x.act /\ row'[b] = "RUNNING"),
           \/ hand[w].act = x.act /\ row'[x.act] = row[x.act]
           \/ row[x.act] # "RUNNING" /\ row'[x.act] = "RUNNING",
           x.pc \in Executing /\ x.act \notin Idempotent =>
               \/ Runs(w, x.act)
               \/ x.act \notin ledger /\ \A v \in Workers : ~Runs(v, x.act)
    PROVE  HandInv'
<1> DEFINE c == x.act
<1>1. hand'[w] = x /\ \A v \in Workers : v # w => hand'[v] = hand[v]
  BY DEF CancelInv, TypeOK
<1>2. \A v \in Workers : hand'[v].pc = "idle" <=> hand'[v].act = NoAction
  BY <1>1, CancellationAssumption DEF CancelInv, HandInv
<1>3. ASSUME NEW a \in Actions, overrun'[a] = 0, NEW v \in Workers, hand'[v].act = a
      PROVE  row'[a] = "RUNNING" /\ \A u \in Workers : hand'[u].act = a => u = v
  <2>1. \A u \in Workers : hand[u].act = a =>
          row[a] = "RUNNING" /\ \A t \in Workers : hand[t].act = a => t = u
    BY <1>3 DEF CancelInv, HandInv
  <2>2. CASE a # c
    BY <1>1, <1>3, <2>1, <2>2
  <2>3. CASE a = c /\ hand[w].act = c
    BY <1>1, <1>3, <2>1, <2>3
  <2>4. CASE a = c /\ row[c] # "RUNNING"
    BY <1>1, <1>3, <2>1, <2>4
  <2> QED BY <2>2, <2>3, <2>4
<1>4. ASSUME NEW a \in Actions \ Idempotent
      PROVE  /\ \A u, v \in Workers : Runs(u, a)' /\ Runs(v, a)' => v = u
             /\ row'[a] \in Kept => a \in ledger'
             /\ a \in ledger' => \A v \in Workers : ~Runs(v, a)'
  <2>1. /\ \A u, v \in Workers : Runs(u, a) /\ Runs(v, a) => v = u
        /\ row[a] \in Kept => a \in ledger
        /\ a \in ledger => \A v \in Workers : ~Runs(v, a)
    BY DEF CancelInv, HandInv
  <2>2. row'[a] \in Kept => row[a] \in Kept
    BY DEF Kept
  <2>3. \A v \in Workers : Runs(v, a)' => Runs(v, a) \/ (v = w /\ x.pc \in Executing /\ a = c)
    BY <1>1 DEF Runs
  <2>4. CASE x.pc \in Executing /\ a = c
    BY <2>1, <2>2, <2>3, <2>4
  <2>5. CASE ~(x.pc \in Executing /\ a = c)
    BY <2>1, <2>2, <2>3, <2>5
  <2> QED BY <2>4, <2>5
<1> QED BY <1>2, <1>3, <1>4 DEF HandInv

LEMMA TakingUp ==
    ASSUME CancelInv, NEW w \in Workers, NEW a \in Actions, Claim(w, a)
    PROVE  TypeOK' /\ HandInv' /\ EngineFrame
<1> DEFINE x == [Away EXCEPT !.pc = "claimed", !.act = a]
<1>1. /\ hand' = [hand EXCEPT ![w] = x] /\ row[a] \in {"DISPATCHED", "READY"}
      /\ row' = [row EXCEPT ![a] = "RUNNING"] /\ attempts' = [attempts EXCEPT ![a] = @ + 1]
      /\ UNCHANGED <<task, ledger, dead, world, requests, counts>>
  BY DEF Claim
<1>2. x \in HandState /\ x.pc = "claimed" /\ x.act = a
  BY DEF Away, HandState
<1> HIDE DEF x
<1>3. row \in [Actions -> ActionStatus] /\ hand \in [Workers -> HandState]
  BY DEF CancelInv, TypeOK, HandState
<1>4. row'[a] = "RUNNING" /\ \A b \in Actions : b # a => row'[b] = row[b]
  BY <1>1, <1>3
<1>5. TypeOK'
  <2>1. row' \in [Actions -> ActionStatus] /\ hand' \in [Workers -> HandState]
    BY <1>1, <1>2, <1>3 DEF ActionStatus
  <2>2. attempts' \in [Actions -> Nat]
    BY <1>1 DEF CancelInv, TypeOK
  <2> QED BY <1>1, <2>1, <2>2 DEF CancelInv, TypeOK, HandState, requests, counts
<1>6. HandInv'
  <2>1. /\ UNCHANGED <<ledger, overrun>> /\ x.pc # "idle" /\ x.act \in Actions
        /\ \A b \in Actions : row'[b] = row[b] \/ (b = x.act /\ row'[b] = "RUNNING")
        /\ row[x.act] # "RUNNING" /\ row'[x.act] = "RUNNING" /\ x.pc \notin Executing
    BY <1>1, <1>2, <1>4 DEF counts, Executing
  <2> QED BY <1>1, <1>2, <2>1, HoldingOn
<1>7. EngineFrame
  BY <1>1, <1>4 DEF EngineFrame, requests, counts, Redoable, Ended, NotStarted
<1> QED BY <1>5, <1>6, <1>7

(* A step that moves only a worker's hand within its action.                  *)
LEMMA Carrying ==
    ASSUME CancelInv, NEW w \in Workers, Execute(w) \/ Signal(w)
    PROVE  TypeOK' /\ HandInv' /\ EngineFrame
<1> DEFINE pcs == IF hand[w].pc = "loaded" THEN "executing" ELSE "signalled"
           x == [hand[w] EXCEPT !.pc = pcs]
<1>1. /\ hand' = [hand EXCEPT ![w] = x] /\ hand[w].pc \in {"loaded", "executing"}
      /\ UNCHANGED <<task, tables, world, requests, counts>>
  BY DEF Execute, Signal
<1>2. hand \in [Workers -> HandState] /\ hand[w] \in HandState
  BY DEF CancelInv, TypeOK, HandState
<1>3. x \in HandState /\ x.pc \in Executing /\ x.act = hand[w].act
  BY <1>2 DEF HandState, Executing
<1> HIDE DEF x
<1>4. TypeOK'
  <2>1. hand' \in [Workers -> HandState]
    BY <1>1, <1>2, <1>3
  <2> QED BY <1>1, <2>1 DEF CancelInv, TypeOK, HandState, tables, requests, counts
<1>5. HandInv'
  <2>1. x.act \in Actions /\ x.pc # "idle"
    BY <1>1, <1>2, <1>3 DEF CancelInv, HandInv, HandState, Executing
  <2>2. UNCHANGED <<ledger, overrun, row>>
    BY <1>1 DEF tables, counts
  <2>3. x.act \notin Idempotent =>
          \/ Runs(w, x.act)
          \/ x.act \notin ledger /\ \A v \in Workers : ~Runs(v, x.act)
    <3>1. CASE Signal(w)
      BY <1>3, <3>1 DEF Signal, Runs, Executing
    <3>2. CASE Execute(w)
      BY <1>3, <3>2 DEF Execute, Runs
    <3> QED BY <3>1, <3>2
  <2> QED BY <1>1, <1>3, <2>1, <2>2, <2>3, HoldingOn
<1>6. EngineFrame
  BY <1>1 DEF EngineFrame, tables, requests, counts, Redoable
<1> QED BY <1>4, <1>5, <1>6

LEMMA Looking ==
    ASSUME CancelInv, NEW w \in Workers, Load(w)
    PROVE  TypeOK' /\ HandInv' /\ EngineFrame
<1> DEFINE a == hand[w].act
           late == attempts[a] >= MaxRetries[a]
           x == [hand[w] EXCEPT !.pc = "loaded", !.last = late]
<1>1. /\ hand[w].pc = "claimed" /\ UNCHANGED <<task, attempts, ledger, dead, world, requests, counts>>
      /\ \/ hand' = [hand EXCEPT ![w] = x] /\ row' = row
         \/ /\ hand' = [hand EXCEPT ![w] = Away]
            /\ row' = IF row[a] = "RUNNING" THEN [row EXCEPT ![a] = "CANCELLED"] ELSE row
  BY DEF Load
<1>2. /\ hand \in [Workers -> HandState] /\ hand[w] \in HandState /\ row \in [Actions -> ActionStatus]
      /\ a \in Actions /\ Away \in HandState
  BY <1>1 DEF CancelInv, TypeOK, HandInv, HandState, Away
<1>3. late \in BOOLEAN
  OBVIOUS
<1> HIDE DEF late
<1>4. x \in HandState /\ x.pc = "loaded" /\ x.act = a
  BY <1>2, <1>3 DEF HandState
<1> HIDE DEF x, a
<1>5. CASE hand' = [hand EXCEPT ![w] = x] /\ row' = row
  <2>1. TypeOK'
    <3>1. hand' \in [Workers -> HandState]
      BY <1>2, <1>4, <1>5
    <3> QED BY <1>1, <1>5, <3>1 DEF CancelInv, TypeOK, HandState, requests, counts
  <2>2. HandInv'
    <3>1. UNCHANGED <<ledger, overrun>> /\ x.pc # "idle" /\ x.act \in Actions /\ x.pc \notin Executing
          /\ hand[w].act = x.act
      BY <1>1, <1>2, <1>4 DEF counts, Executing, a
    <3> QED BY <1>4, <1>5, <3>1, HoldingOn
  <2>3. EngineFrame
    BY <1>1, <1>5 DEF EngineFrame, requests, counts, Redoable
  <2> QED BY <2>1, <2>2, <2>3
<1>6. CASE /\ hand' = [hand EXCEPT ![w] = Away]
           /\ row' = IF row[a] = "RUNNING" THEN [row EXCEPT ![a] = "CANCELLED"] ELSE row
  <2>1. \A b \in Actions : row'[b] = row[b] \/ (b = a /\ row[b] = "RUNNING" /\ row'[b] = "CANCELLED")
    BY <1>2, <1>6
  <2>2. TypeOK'
    <3>1. hand' \in [Workers -> HandState] /\ row' \in [Actions -> ActionStatus]
      BY <1>2, <1>6 DEF ActionStatus
    <3> QED BY <1>1, <3>1 DEF CancelInv, TypeOK, HandState, requests, counts
  <2>3. HandInv'
    <3>1. /\ overrun' = overrun /\ ledger' = ledger
          /\ \A b \in Actions \ Idempotent : row'[b] \in Kept => row'[b] = row[b]
      BY <1>1, <2>1 DEF counts, Kept
    <3> QED BY <1>6, <2>1, <3>1, LettingGo DEF a
  <2>4. EngineFrame
    BY <1>1, <2>1 DEF EngineFrame, requests, counts, Redoable, Ended, NotStarted
  <2> QED BY <2>2, <2>3, <2>4
<1> QED BY <1>1, <1>5, <1>6

LEMMA Performing ==
    ASSUME CancelInv, NEW w \in Workers, Perform(w)
    PROVE  TypeOK' /\ HandInv' /\ EngineFrame
<1> DEFINE a == hand[w].act
<1>1. /\ Runs(w, a) /\ world[a].effect # "done" /\ world' = [world EXCEPT ![a].effect = "done"]
      /\ UNCHANGED <<task, tables, hand, requests, counts>>
  BY DEF Perform, Runs
<1>2. /\ world \in [Actions -> [effect : {"none", "done", "undone"}, undos : Nat]]
      /\ a \in Actions
  BY <1>1 DEF CancelInv, TypeOK, HandInv, Runs, Executing
<1> HIDE DEF a
<1>3. /\ world' \in [Actions -> [effect : {"none", "done", "undone"}, undos : Nat]]
      /\ world'[a].undos = world[a].undos /\ world'[a].effect = "done"
      /\ \A b \in Actions : b # a => world'[b] = world[b]
  BY <1>1, <1>2
<1>4. world[a].undos = 1 => a \in Redoable
  BY <1>1, <1>2, KeptIsQuiet DEF CancelInv, WorldInv
<1>5. TypeOK'
  BY <1>1, <1>3 DEF CancelInv, TypeOK, tables, requests, counts
<1>6. HandInv'
  BY <1>1 DEF CancelInv, HandInv, tables, counts, Runs
<1>7. EngineFrame
  BY <1>1, <1>3, <1>4 DEF EngineFrame, tables, requests, counts, Redoable
<1> QED BY <1>5, <1>6, <1>7

(* An outcome is recorded.                                                    *)
LEMMA Recording ==
    ASSUME CancelInv, NEW w \in Workers, NEW status \in ActionStatus, Record(w, status),
           hand[w].pc \in {"loaded"} \cup Executing, status # "ROLLED_BACK",
           status = "SUCCEEDED" =>
               hand[w].pc \in Executing /\ world[hand[w].act].effect # "none"
    PROVE  TypeOK' /\ HandInv' /\ EngineFrame
<1> DEFINE a == hand[w].act
<1>1. /\ row' = IF StillRunning(a) THEN [row EXCEPT ![a] = status] ELSE row
      /\ dead' = IF status = "FAILED" THEN dead \cup {a} ELSE dead
      /\ ledger' = IF hand[w].pc \in Executing /\ a \notin Idempotent THEN ledger \cup {a} ELSE ledger
      /\ hand' = [hand EXCEPT ![w] = Away]
      /\ UNCHANGED <<task, attempts, world, requests, counts>>
  BY DEF Record
<1>2. /\ hand \in [Workers -> HandState] /\ row \in [Actions -> ActionStatus]
      /\ a \in Actions /\ Away \in HandState
  BY DEF CancelInv, TypeOK, HandInv, HandState, Away, Executing
<1>3. \A b \in Actions : row'[b] = row[b] \/ (b = a /\ row[b] = "RUNNING" /\ row'[b] = status)
  BY <1>1, <1>2 DEF StillRunning
<1>4. TypeOK'
  <2>1. hand' \in [Workers -> HandState] /\ row' \in [Actions -> ActionStatus]
    BY <1>1, <1>2
  <2>2. dead' \subseteq Actions /\ ledger' \subseteq Actions
    BY <1>1, <1>2 DEF CancelInv, TypeOK
  <2> QED BY <1>1, <2>1, <2>2 DEF CancelInv, TypeOK, HandState, requests, counts
<1>5. HandInv'
  <2>1. /\ overrun' = overrun /\ ledger \subseteq ledger'
        /\ \A b \in ledger' : b \in ledger \/ Runs(w, b)
    BY <1>1 DEF counts, Runs
  <2>2. \A b \in Actions \ Idempotent : row'[b] \in Kept => row'[b] = row[b] \/ b \in ledger'
    BY <1>1, <1>3 DEF Kept
  <2> QED BY <1>1, <1>3, <2>1, <2>2, LettingGo
<1>6. EngineFrame
  BY <1>1, <1>3 DEF EngineFrame, requests, counts, Redoable, Ended, NotStarted
<1> QED BY <1>4, <1>5, <1>6

LEMMA EndingAnAttempt ==
    ASSUME CancelInv, NEW w \in Workers, Return(w) \/ Refuse(w)
    PROVE  TypeOK' /\ HandInv' /\ EngineFrame
<1>1. CASE Return(w)
  <2>1. PICK status \in Outcome(w) : Record(w, status)
    BY <1>1 DEF Return
  <2>2. /\ hand[w].pc \in Executing /\ status \in ActionStatus /\ status # "ROLLED_BACK"
        /\ status = "SUCCEEDED" => world[hand[w].act].effect # "none"
    BY <1>1 DEF Return, Outcome, ActionStatus
  <2> QED BY <2>1, <2>2, Recording
<1>2. CASE Refuse(w)
  BY <1>2, Recording DEF Refuse, ActionStatus
<1> QED BY <1>1, <1>2

LEMMA LosingAnAttempt ==
    ASSUME CancelInv, NEW w \in Workers, RollBack(w) \/ WorkerDies(w)
    PROVE  TypeOK' /\ HandInv' /\ EngineFrame
<1>1. /\ hand' = [hand EXCEPT ![w] = Away] /\ UNCHANGED <<task, tables, world, requests, overrun>>
      /\ faults' = faults \/ (faults < MaxFaults /\ faults' = faults + 1)
  BY DEF RollBack, WorkerDies, counts
<1>2. hand \in [Workers -> HandState] /\ Away \in HandState
  BY DEF CancelInv, TypeOK, HandState, Away
<1>3. TypeOK'
  <2>1. hand' \in [Workers -> HandState]
    BY <1>1, <1>2
  <2>2. faults' \in 0..MaxFaults
    BY <1>1, CancellationAssumption DEF CancelInv, TypeOK
  <2> QED BY <1>1, <2>1, <2>2 DEF CancelInv, TypeOK, HandState, tables, requests
<1>4. HandInv'
  BY <1>1, LettingGo DEF tables
<1>5. EngineFrame
  BY <1>1 DEF EngineFrame, tables, requests, Redoable
<1> QED BY <1>3, <1>4, <1>5

LEMMA Reclaiming ==
    ASSUME CancelInv, NEW a \in Actions, Reap(a)
    PROVE  TypeOK' /\ HandInv' /\ EngineFrame
<1>1. /\ row[a] = "RUNNING"
      /\ row' = [row EXCEPT ![a] = IF Exhausted(a) THEN "FAILED" ELSE "READY"]
      /\ dead' = IF Exhausted(a) THEN dead \cup {a} ELSE dead
      /\ overrun' = IF Nobody(a) THEN overrun ELSE [overrun EXCEPT ![a] = @ + 1]
      /\ UNCHANGED <<task, attempts, ledger, world, hand, requests, faults>>
  BY DEF Reap, Lapsed
<1>2. row \in [Actions -> ActionStatus] /\ overrun \in [Actions -> Nat]
  BY DEF CancelInv, TypeOK
<1>3. /\ row'[a] \in {"FAILED", "READY"} /\ \A b \in Actions : b # a => row'[b] = row[b]
      /\ overrun' \in [Actions -> Nat] /\ \A b \in Actions : b # a => overrun'[b] = overrun[b]
      /\ overrun'[a] = 0 => Nobody(a) /\ overrun[a] = 0
      /\ overrun[a] > 0 => overrun'[a] > 0
  BY <1>1, <1>2
<1>4. TypeOK'
  <2>1. row' \in [Actions -> ActionStatus] /\ dead' \subseteq Actions
    BY <1>1, <1>2 DEF ActionStatus, CancelInv, TypeOK
  <2> QED BY <1>1, <1>3, <2>1 DEF CancelInv, TypeOK, requests
<1>5. HandInv'
  <2>1. ASSUME NEW b \in Actions, overrun'[b] = 0, NEW w \in Workers, hand[w].act = b
        PROVE  row'[b] = "RUNNING" /\ \A v \in Workers : hand[v].act = b => v = w
    <3>1. b # a /\ overrun[b] = 0
      BY <1>3, <2>1 DEF Nobody
    <3> QED BY <1>3, <2>1, <3>1 DEF CancelInv, HandInv
  <2>2. \A b \in Actions : row'[b] \in Kept => row[b] \in Kept
    BY <1>3 DEF Kept
  <2> QED BY <1>1, <2>1, <2>2 DEF CancelInv, HandInv, Runs
<1>6. EngineFrame
  <2>1. \A b \in Actions : b \in Redoable => b \in Redoable'
    BY <1>3 DEF Redoable
  <2>2. \A b \in Actions : /\ row'[b] = row[b] \/ row[b] \notin Ended
                           /\ row'[b] = row[b] \/ row'[b] # "ROLLED_BACK"
                           /\ row'[b] = "SUCCEEDED" => row[b] = "SUCCEEDED"
    BY <1>1, <1>3 DEF Ended, NotStarted
  <2> QED BY <1>1, <2>1, <2>2 DEF EngineFrame, requests
<1> QED BY <1>4, <1>5, <1>6

LEMMA Scheduling ==
    ASSUME CancelInv, Complete \/ \E a \in Actions : Dispatch(a)
    PROVE  TypeOK' /\ HandInv' /\ EngineFrame
<1>1. CASE Complete
  <2>1. /\ task = "RUNNING" /\ task' \in {"SUCCEEDED", "FAILED"}
        /\ UNCHANGED <<tables, world, hand, requests, counts>>
    BY <1>1 DEF Complete
  <2>2. TypeOK' /\ HandInv'
    BY <2>1 DEF CancelInv, TypeOK, HandInv, Runs, tables, requests, counts
  <2>3. EngineFrame
    BY <2>1 DEF EngineFrame, tables, requests, counts, Redoable
  <2> QED BY <2>2, <2>3
<1>2. ASSUME NEW a \in Actions, Dispatch(a) PROVE TypeOK' /\ HandInv' /\ EngineFrame
  <2>1. /\ row[a] \in {"PLANNED", "READY"} /\ row' = [row EXCEPT ![a] = "DISPATCHED"]
        /\ UNCHANGED <<task, attempts, ledger, dead, world, hand, requests, counts>>
    BY <1>2 DEF Dispatch
  <2>2. row' \in [Actions -> ActionStatus]
    BY <2>1 DEF CancelInv, TypeOK, ActionStatus
  <2>3. row'[a] = "DISPATCHED" /\ \A b \in Actions : b # a => row'[b] = row[b]
    BY <2>1 DEF CancelInv, TypeOK
  <2>4. TypeOK'
    BY <2>1, <2>2 DEF CancelInv, TypeOK, requests, counts
  <2>5. HandInv'
    <3>1. ASSUME NEW b \in Actions, overrun[b] = 0, NEW w \in Workers, hand[w].act = b
          PROVE  row'[b] = "RUNNING" /\ \A v \in Workers : hand[v].act = b => v = w
      BY <2>1, <2>3, <3>1 DEF CancelInv, HandInv
    <3>2. \A b \in Actions : row'[b] \in Kept => row[b] \in Kept
      BY <2>3 DEF Kept
    <3> QED BY <2>1, <3>1, <3>2 DEF CancelInv, HandInv, Runs, counts
  <2>6. EngineFrame
    BY <2>1, <2>3 DEF EngineFrame, requests, counts, Redoable, Ended, NotStarted
  <2> QED BY <2>4, <2>5, <2>6
<1> QED BY <1>1, <1>2

LEMMA EngineSteps ==
    ASSUME CancelInv, EngineStep
    PROVE  CancelInv' /\ EngineFrame
<1>1. ASSUME NEW w \in Workers, WorkerStep(w) PROVE TypeOK' /\ HandInv' /\ EngineFrame
  BY <1>1, TakingUp, Carrying, Looking, Performing, EndingAnAttempt, LosingAnAttempt DEF WorkerStep
<1>2. TypeOK' /\ HandInv' /\ EngineFrame
  BY <1>1, Scheduling, Reclaiming DEF EngineStep
<1> QED BY <1>2, FrameKeepsInv

------------------------------------------------------------------------------
(* Requests move no row that a worker has in hand.                            *)
LEMMA HandsApart ==
    ASSUME CancelInv, UNCHANGED <<hand, ledger, overrun>>,
           \A a \in Actions : \/ row'[a] = row[a]
                              \/ row[a] # "RUNNING" /\ (row'[a] \in Kept => row[a] \in Kept)
    PROVE  HandInv'
BY DEF CancelInv, HandInv, Runs

(* A request that reads, is refused or reports what it found changes nothing  *)
(* but itself, and does not win.                                              *)
LEMMA BystandersKeepInv ==
    ASSUME CancelInv, TypeOK', NEW r \in Requests, UNCHANGED <<task, row, ledger, world, hand, overrun>>,
           ~Won(r), ~Won(r)', req'[r].todo = {},
           \A s \in Requests \ {r} : req'[s] = req[s],
           req'[r].pc = "marking" =>
               /\ req'[r].report.compensated = {} /\ ~req'[r].again
               /\ \A a \in Actions : req'[r].act[a] = "SUCCEEDED" => row[a] = "SUCCEEDED"
    PROVE  CancelInv'
<1>1. WorldInv' /\ HandInv'
  BY DEF CancelInv, WorldInv, Redoable, HandInv, Runs
<1>2. \A s \in Requests : Won(s)' <=> Won(s)
  BY DEF Won
<1>3. WinnerInv'
  <2>1. \A s \in Requests : Won(s) => req'[s] = req[s]
    OBVIOUS
  <2> QED BY <1>2, <2>1 DEF CancelInv, WinnerInv
<1>4. RequestInv'
  BY DEF CancelInv, RequestInv, Won
<1> QED BY <1>1, <1>3, <1>4 DEF CancelInv

LEMMA BeginKeepsInv ==
    ASSUME CancelInv, NEW r \in Requests, Begin(r)
    PROVE  CancelInv'
<1>1. /\ req[r].pc = "idle" /\ UNCHANGED <<task, tables, world, hand, step, counts>>
      /\ task \in {"RUNNING", "SUCCEEDED", "FAILED", "CANCELLED"} /\ row \in [Actions -> ActionStatus]
      /\ req \in [Requests -> RequestState]
  BY DEF Begin, CancelInv, TypeOK, RequestState
<1>2. /\ Waiting = [pc |-> "idle", undoes |-> TRUE, act |-> [a \in Actions |-> "PLANNED"],
                    todo |-> {}, again |-> FALSE, missed |-> {}, report |-> NoReport]
      /\ NoReport \in Report /\ NoReport.compensated = {} /\ "PLANNED" \in ActionStatus
  BY DEF Waiting, NoReport, Report, ActionStatus
<1> DEFINE next == CASE task = "CANCELLED" -> [Waiting EXCEPT !.pc = "reported"]
                     [] task \in {"SUCCEEDED", "FAILED"} -> [Waiting EXCEPT !.pc = "refused"]
                     [] task = "RUNNING" -> [Waiting EXCEPT !.pc = "marking", !.act = row]
<1>3. req' = [req EXCEPT ![r] = next]
  BY DEF Begin
<1>4. /\ next \in RequestState
      /\ next.pc \in {"reported", "refused", "marking"} /\ next.todo = {} /\ ~next.again
      /\ next.pc = "marking" => next.act = row /\ next.report = NoReport
  <2>1. CASE task = "CANCELLED"
    BY <1>1, <1>2, <2>1 DEF RequestState
  <2>2. CASE task \in {"SUCCEEDED", "FAILED"}
    BY <1>1, <1>2, <2>2 DEF RequestState
  <2>3. CASE task = "RUNNING"
    BY <1>1, <1>2, <2>3 DEF RequestState
  <2> QED BY <1>1, <2>1, <2>2, <2>3
<1> HIDE DEF next
<1>5. req'[r] = next /\ \A s \in Requests \ {r} : req'[s] = req[s]
  BY <1>1, <1>3
<1>6. TypeOK'
  BY <1>1, <1>3, <1>4 DEF CancelInv, TypeOK, RequestState, tables, counts
<1>7. ~Won(r) /\ ~Won(r)'
  BY <1>1, <1>4, <1>5 DEF Won
<1>8. UNCHANGED <<task, row, ledger, world, hand, overrun>>
  BY <1>1 DEF tables, counts
<1> QED BY <1>2, <1>4, <1>5, <1>6, <1>7, <1>8, BystandersKeepInv

(* The winner marks the task: nothing has been undone yet, and what it takes  *)
(* for a success is one.                                                      *)
LEMMA MarkKeepsInv ==
    ASSUME CancelInv, NEW r \in Requests, NEW undoes \in BOOLEAN, Mark(r, undoes)
    PROVE  CancelInv'
<1> DEFINE old == req[r].act
           act == [a \in Actions |-> IF old[a] \in NotStarted THEN "CANCELLED" ELSE old[a]]
           loser == [Waiting EXCEPT !.pc = "reported"]
           todo == Effective(act)
           missed == {a \in Actions : old[a] \in NotStarted /\ row[a] # old[a]}
<1>1. /\ req[r].pc = "marking" /\ UNCHANGED <<attempts, ledger, dead, world, hand, step, counts>>
      /\ req \in [Requests -> RequestState]
      /\ row \in [Actions -> ActionStatus] /\ old \in [Actions -> ActionStatus]
  BY DEF Mark, CancelInv, TypeOK, RequestState
<1>2. CASE ~Wins(r)
  <2>1. req' = [req EXCEPT ![r] = loser] /\ task' = task /\ row' = row
    BY <1>2 DEF Mark
  <2>2. /\ loser \in RequestState
        /\ loser.pc = "reported" /\ loser.todo = {}
    <3>1. NoReport \in Report
      BY DEF NoReport, Report
    <3>2. Waiting = [pc |-> "idle", undoes |-> TRUE, act |-> [a \in Actions |-> "PLANNED"],
                    todo |-> {}, again |-> FALSE, missed |-> {}, report |-> NoReport]
      BY DEF Waiting
    <3> HIDE DEF old
    <3> QED BY <3>1, <3>2 DEF ActionStatus, RequestState
  <2> HIDE DEF loser
  <2>3. req'[r] = loser /\ \A s \in Requests \ {r} : req'[s] = req[s]
    BY <1>1, <2>1
  <2>4. TypeOK'
    BY <1>1, <2>1, <2>2 DEF CancelInv, TypeOK, RequestState, counts
  <2>5. ~Won(r) /\ ~Won(r)'
    BY <1>1, <2>2, <2>3 DEF Won
  <2>6. UNCHANGED <<task, row, ledger, world, hand, overrun>>
    BY <1>1, <2>1 DEF counts
  <2> QED BY SMTT(30), <2>2, <2>3, <2>4, <2>5, <2>6, BystandersKeepInv
<1>3. CASE Wins(r)
  <2>1. /\ task = "RUNNING" /\ task' = "CANCELLED"
        /\ row' = [a \in Actions |->
                     IF old[a] \in NotStarted /\ row[a] = old[a] THEN "CANCELLED" ELSE row[a]]
        /\ req' = [req EXCEPT ![r].pc = "undoing", ![r].undoes = undoes, ![r].act = act,
                              ![r].todo = todo, ![r].missed = missed]
    BY <1>3 DEF Mark, Wins
  <2>2. act \in [Actions -> ActionStatus] /\ todo \subseteq Actions /\ missed \subseteq Actions
    BY <1>1 DEF Effective, ActionStatus
  <2>3. \A a \in todo : a \in Actions /\ old[a] = "SUCCEEDED"
    BY DEF Effective, NotStarted
  <2> HIDE DEF act, todo, missed, old
  <2>4. /\ req'[r].pc = "undoing" /\ req'[r].todo = todo /\ req'[r].report = req[r].report
        /\ req'[r].again = req[r].again
        /\ \A s \in Requests \ {r} : req'[s] = req[s]
    BY <1>1, <2>1 DEF RequestState
  <2>5. TypeOK'
    <3>1. row' \in [Actions -> ActionStatus]
      BY <1>1, <2>1 DEF ActionStatus
    <3>2. req' \in [Requests -> RequestState]
      <4>1. req[r] \in RequestState
        BY <1>1
      <4>2. [req[r] EXCEPT !.pc = "undoing", !.undoes = undoes, !.act = act,
                           !.todo = todo, !.missed = missed] \in RequestState
        BY <2>2, <4>1 DEF RequestState
      <4>3. req' = [req EXCEPT ![r] =
                      [@ EXCEPT !.pc = "undoing", !.undoes = undoes, !.act = act, !.todo = todo, !.missed = missed]]
        BY <2>1
      <4> QED BY <1>1, <4>2, <4>3
    <3> QED BY <1>1, <2>1, <3>1, <3>2 DEF CancelInv, TypeOK, RequestState, counts
  <2>6. /\ \A a \in Actions : world[a].undos = 0
        /\ \A s \in Requests : ~Won(s)
        /\ req[r].report.compensated = {} /\ ~req[r].again
        /\ \A a \in todo : row[a] = "SUCCEEDED"
    BY <1>1, <2>1, <2>3 DEF CancelInv, WorldInv, WinnerInv, RequestInv, old
  <2>7. \A a \in Actions : /\ row[a] \notin NotStarted => row'[a] = row[a]
                           /\ row'[a] = row[a] \/ row'[a] = "CANCELLED"
    BY <2>1 DEF NotStarted
  <2>8. WorldInv' /\ HandInv'
    <3>1. WorldInv'
      BY <1>1, <2>7 DEF CancelInv, WorldInv, NotStarted, Kept, Redoable, counts
    <3>2. \A a \in Actions : \/ row'[a] = row[a]
                             \/ row[a] # "RUNNING" /\ (row'[a] \in Kept => row[a] \in Kept)
      BY <2>7 DEF NotStarted, Kept
    <3>3. HandInv'
      BY <1>1, <3>2, HandsApart DEF counts
    <3> QED BY <3>1, <3>3
  <2>9. \A s \in Requests : Won(s)' <=> s = r
    BY <2>4, <2>6 DEF Won
  <2>10. WinnerInv'
    <3>1. \A s \in Requests : req'[s].todo # {} => s = r
      BY <2>4, <2>6 DEF CancelInv, WinnerInv
    <3> QED BY <1>1, <2>1, <2>4, <2>6, <2>9, <3>1 DEF WinnerInv
  <2>11. RequestInv'
    <3>1. \A a \in todo : a \in Actions /\ row'[a] = "SUCCEEDED" /\ world'[a].undos = 0
      BY <1>1, <2>2, <2>6, <2>7 DEF NotStarted
    <3>2. \A b \in todo : \A a \in Deps[b] : a \in Actions
      BY <2>2, CancellationAssumption
    <3>3. \A s \in Requests \ {r} : req'[s].pc \notin {"undoing", "done"}
      BY <2>4, <2>6 DEF Won
    <3>4. \A s \in Requests \ {r} : req[s].pc = "marking" => req[s].report.compensated = {} /\ ~req[s].again
      BY DEF CancelInv, RequestInv
    <3> QED BY <1>1, <2>1, <2>4, <2>6, <3>1, <3>2, <3>3, <3>4 DEF RequestInv
  <2> QED BY <2>5, <2>8, <2>10, <2>11 DEF CancelInv
<1> QED BY SMTT(30), <1>2, <1>3

(* The winner's own steps: what else there is to know of a request stays.     *)
LEMMA WinnerTypes ==
    ASSUME CancelInv, NEW r \in Requests, req[r].pc = "undoing"
    PROVE  /\ req \in [Requests -> RequestState] /\ req[r] \in RequestState
           /\ row \in [Actions -> ActionStatus] /\ task = "CANCELLED"
           /\ world \in [Actions -> [effect : {"none", "done", "undone"}, undos : Nat]]
           /\ \A s \in Requests \ {r} : ~Won(s) /\ req[s].todo = {}
           /\ \A a \in Actions : world[a].undos = 1 <=> a \in req[r].report.compensated
<1>1. /\ req \in [Requests -> RequestState] /\ row \in [Actions -> ActionStatus]
      /\ world \in [Actions -> [effect : {"none", "done", "undone"}, undos : Nat]]
  BY DEF CancelInv, TypeOK, RequestState
<1>2. Won(r) /\ WinnerInv
  BY DEF Won, CancelInv
<1> QED BY <1>1, <1>2 DEF WinnerInv

LEMMA UndoneKeepsInv ==
    ASSUME CancelInv, NEW r \in Requests, NEW a \in NextToUndo(r), req[r].pc = "undoing",
           Undone(r, a), UNCHANGED <<task, tables, hand, step, counts>>
    PROVE  CancelInv'
<1>1. /\ req \in [Requests -> RequestState] /\ req[r] \in RequestState
      /\ row \in [Actions -> ActionStatus] /\ task = "CANCELLED"
      /\ world \in [Actions -> [effect : {"none", "done", "undone"}, undos : Nat]]
      /\ \A s \in Requests \ {r} : ~Won(s) /\ req[s].todo = {}
      /\ \A b \in Actions : world[b].undos = 1 <=> b \in req[r].report.compensated
  BY WinnerTypes
<1>2. /\ a \in req[r].todo /\ a \in Actions /\ \A b \in req[r].todo : a \notin Deps[b]
      /\ req[r].todo \subseteq Actions
  BY <1>1 DEF NextToUndo, RequestState
<1>3. row[a] = "SUCCEEDED" /\ world[a].undos = 0
  BY <1>2 DEF CancelInv, RequestInv, WorldInv
<1>4. world' = [world EXCEPT ![a] = [effect |-> "undone", undos |-> 1]]
  BY <1>3 DEF Undone
<1>5. /\ req'[r].todo = req[r].todo \ {a} /\ req'[r].pc = "undoing" /\ req'[r].again = req[r].again
      /\ req'[r].report.compensated = req[r].report.compensated \cup {a}
      /\ \A s \in Requests \ {r} : req'[s] = req[s]
      /\ req'[r] \in RequestState /\ req' \in [Requests -> RequestState]
  <2> DEFINE x == req[r]
             rolled == [x.act EXCEPT ![a] = "ROLLED_BACK"]
             told == [x.report EXCEPT !.compensated = @ \cup {a}]
             y == [x EXCEPT !.todo = @ \ {a}, !.act = rolled, !.report = told]
  <2>1. req' = [req EXCEPT ![r] = y]
    BY DEF Undone
  <2>2. rolled \in [Actions -> ActionStatus] /\ told \in Report
        /\ told.compensated = x.report.compensated \cup {a}
    BY <1>1, <1>2 DEF RequestState, Report, ActionStatus
  <2> HIDE DEF rolled, told
  <2>3. y \in RequestState /\ y.todo = x.todo \ {a} /\ y.pc = x.pc /\ y.again = x.again /\ y.report = told
    BY <1>1, <2>2 DEF RequestState
  <2> HIDE DEF y
  <2> QED BY <1>1, <2>1, <2>2, <2>3
<1>6. \A b \in Actions : b # a => world'[b] = world[b]
  BY <1>1, <1>4
<1>7. world'[a].undos = 1 /\ world'[a].effect = "undone"
  BY <1>1, <1>2, <1>4
<1>8. TypeOK'
  <2>1. world' \in [Actions -> [effect : {"none", "done", "undone"}, undos : Nat]]
    BY <1>1, <1>4
  <2> QED BY <1>5, <2>1 DEF CancelInv, TypeOK, RequestState, tables, counts
<1>9. WorldInv' /\ HandInv'
  <2>1. WorldInv'
    BY <1>3, <1>6, <1>7 DEF CancelInv, WorldInv, Kept, Redoable, tables, counts
  <2> QED BY <2>1, HandsApart DEF tables, counts
<1>10. \A s \in Requests : Won(s)' <=> s = r
  BY <1>1, <1>5 DEF Won
<1>11. WinnerInv'
  BY <1>1, <1>2, <1>5, <1>6, <1>7, <1>10 DEF WinnerInv
<1>12. RequestInv'
  <2>1. \A b \in req'[r].todo : b # a /\ b \in Actions /\ row[b] = "SUCCEEDED" /\ world'[b].undos = 0
    BY <1>2, <1>5, <1>6 DEF CancelInv, RequestInv
  <2>2. ~req[r].again => \A b \in req'[r].todo : \A d \in Deps[b] : world'[d].undos = 0
    <3> SUFFICES ASSUME ~req[r].again, NEW b \in req'[r].todo, NEW d \in Deps[b]
                 PROVE  world'[d].undos = 0
      OBVIOUS
    <3>1. b \in req[r].todo /\ d # a /\ d \in Actions
      BY <1>2, <1>5, CancellationAssumption
    <3>2. world[d].undos = 0
      BY <3>1 DEF CancelInv, RequestInv
    <3> QED BY <1>6, <3>1, <3>2
  <2>3. \A s \in Requests \ {r} : req'[s].pc \notin {"undoing", "done"}
    BY <1>1, <1>5 DEF Won
  <2>4. \A s \in Requests \ {r} : req[s].pc = "marking" => req[s].report.compensated = {} /\ ~req[s].again
    BY DEF CancelInv, RequestInv
  <2> QED BY <1>1, <1>5, <2>1, <2>2, <2>3, <2>4 DEF RequestInv, tables
<1> QED BY <1>8, <1>9, <1>11, <1>12 DEF CancelInv

(* A step of the winner that undoes nothing: it may shrink what is left to    *)
(* undo, or read it again, and move rows that it has undone.                  *)
LEMMA WinnerKeepsInv ==
    ASSUME CancelInv, NEW r \in Requests, req[r].pc = "undoing",
           UNCHANGED <<task, attempts, ledger, dead, world, hand, counts>>,
           row' \in [Actions -> ActionStatus], step' \in [Actions -> {"open", "skipped"}],
           \A a \in Actions :
               \/ row'[a] = row[a]
               \/ row[a] = "SUCCEEDED" /\ world[a].undos = 1 /\ row'[a] = "ROLLED_BACK",
           req' \in [Requests -> RequestState], \A s \in Requests \ {r} : req'[s] = req[s],
           Won(r)', req'[r].report.compensated = req[r].report.compensated,
           req'[r].todo \subseteq req[r].todo \/ req'[r].again,
           req'[r].again = req[r].again \/ req'[r].again,
           \A a \in req'[r].todo : row[a] = "SUCCEEDED" /\ world[a].undos = 0,
           req'[r].pc = "done" => \A a \in req[r].report.compensated : row'[a] = "ROLLED_BACK"
    PROVE  CancelInv'
<1>1. /\ req \in [Requests -> RequestState] /\ req[r] \in RequestState
      /\ row \in [Actions -> ActionStatus] /\ task = "CANCELLED"
      /\ world \in [Actions -> [effect : {"none", "done", "undone"}, undos : Nat]]
      /\ \A s \in Requests \ {r} : ~Won(s) /\ req[s].todo = {}
      /\ \A b \in Actions : world[b].undos = 1 <=> b \in req[r].report.compensated
  BY WinnerTypes
<1>2. TypeOK'
  BY DEF CancelInv, TypeOK, RequestState, counts
<1>3. WorldInv' /\ HandInv'
  <2>1. WorldInv'
    BY DEF CancelInv, WorldInv, Kept, Redoable, counts
  <2> QED BY <2>1, HandsApart DEF counts, Kept
<1>4. \A s \in Requests : Won(s)' <=> s = r
  BY <1>1 DEF Won
<1>5. WinnerInv'
  BY <1>1, <1>4 DEF WinnerInv
<1>6. RequestInv'
  <2>1. \A a \in req'[r].todo : a \in Actions /\ row'[a] = "SUCCEEDED" /\ world'[a].undos = 0
    <3>1. req'[r].todo \subseteq Actions
      BY DEF RequestState
    <3> QED BY <3>1
  <2>2. ~req'[r].again => \A b \in req'[r].todo : \A d \in Deps[b] : world'[d].undos = 0
    <3>1. ~req'[r].again => ~req[r].again /\ req'[r].todo \subseteq req[r].todo
      BY <1>1 DEF RequestState
    <3>2. ~req[r].again => \A b \in req[r].todo : \A d \in Deps[b] : world[d].undos = 0
      BY DEF CancelInv, RequestInv
    <3> QED BY <3>1, <3>2
  <2>3. \A s \in Requests \ {r} : req'[s].pc \notin {"undoing", "done"}
    BY <1>1, <1>4 DEF Won
  <2>4. req'[r].pc # "marking"
    BY DEF Won
  <2>5. \A s \in Requests \ {r} : req[s].pc = "marking" => req[s].report.compensated = {} /\ ~req[s].again
    BY DEF CancelInv, RequestInv
  <2> QED BY <1>1, <2>1, <2>2, <2>3, <2>4, <2>5 DEF RequestInv
<1> QED BY <1>2, <1>3, <1>5, <1>6 DEF CancelInv

LEMMA UndoKeepsInv ==
    ASSUME CancelInv, NEW r \in Requests, Undo(r)
    PROVE  CancelInv'
<1>1. req[r].pc = "undoing" /\ UNCHANGED <<task, tables, hand, step, counts>>
  BY DEF Undo
<1>2. PICK a \in NextToUndo(r) : Undone(r, a) \/ NotUndone(r, a, "failed") \/ NotUndone(r, a, "irreversible")
  BY DEF Undo
<1>3. CASE Undone(r, a)
  BY <1>1, <1>3, UndoneKeepsInv
<1>4. ASSUME NEW list \in {"failed", "irreversible"}, NotUndone(r, a, list) PROVE CancelInv'
  <2>1. /\ req \in [Requests -> RequestState] /\ req[r] \in RequestState /\ row \in [Actions -> ActionStatus]
        /\ a \in req[r].todo /\ a \in Actions
    BY <1>1, WinnerTypes DEF NextToUndo, RequestState
  <2> DEFINE x == req[r]
             told == [x.report EXCEPT !.failed = IF list = "failed" THEN @ \cup {a} ELSE @,
                                      !.irreversible = IF list = "irreversible" THEN @ \cup {a} ELSE @]
             y == [x EXCEPT !.todo = @ \ {a}, !.report = told]
  <2>2. req' = [req EXCEPT ![r] = y] /\ world' = world
    <3>1. CASE list = "failed"
      BY <1>4, <3>1 DEF NotUndone
    <3>2. CASE list # "failed"
      BY <1>4, <3>2 DEF NotUndone
    <3> QED BY <3>1, <3>2
  <2>3. told \in Report /\ told.compensated = x.report.compensated
    BY <2>1 DEF RequestState, Report
  <2> HIDE DEF told
  <2>4. y \in RequestState /\ y.todo = x.todo \ {a} /\ y.pc = x.pc /\ y.again = x.again /\ y.report = told
    BY <2>1, <2>3 DEF RequestState
  <2> HIDE DEF y
  <2>5. /\ req' \in [Requests -> RequestState] /\ req'[r] = y
        /\ \A s \in Requests \ {r} : req'[s] = req[s]
    BY <2>1, <2>2, <2>4
  <2>6. \A b \in req'[r].todo : row[b] = "SUCCEEDED" /\ world[b].undos = 0
    BY <1>1, <2>4, <2>5 DEF CancelInv, RequestInv
  <2>7. step' \in [Actions -> {"open", "skipped"}]
    BY <1>1 DEF CancelInv, TypeOK
  <2>8. Won(r)' /\ req'[r].pc # "done" /\ UNCHANGED <<attempts, ledger, dead, row>>
    BY <1>1, <2>4, <2>5 DEF Won, tables
  <2> QED BY <1>1, <2>1, <2>2, <2>3, <2>4, <2>5, <2>6, <2>7, <2>8, WinnerKeepsInv
<1> QED BY <1>2, <1>3, <1>4

LEMMA RefreshKeepsInv ==
    ASSUME CancelInv, NEW r \in Requests, Refresh(r)
    PROVE  CancelInv'
<1> DEFINE x == req[r]
           act == [a \in Actions |-> IF a \in x.report.compensated THEN "ROLLED_BACK" ELSE row[a]]
           y == [x EXCEPT !.act = act, !.again = TRUE, !.todo = SecondPass(r, act)]
<1>1. /\ x.pc = "undoing" /\ req' = [req EXCEPT ![r] = y] /\ UNCHANGED <<task, tables, world, hand, step, counts>>
  BY DEF Refresh
<1>2. /\ req \in [Requests -> RequestState] /\ x \in RequestState /\ row \in [Actions -> ActionStatus]
      /\ world \in [Actions -> [effect : {"none", "done", "undone"}, undos : Nat]]
      /\ \A b \in Actions : world[b].undos = 1 <=> b \in x.report.compensated
  BY <1>1, WinnerTypes
<1>3. /\ act \in [Actions -> ActionStatus] /\ SecondPass(r, act) \subseteq Actions
      /\ \A a \in SecondPass(r, act) : row[a] = "SUCCEEDED" /\ world[a].undos # 1
  BY <1>2 DEF SecondPass, Effective, ActionStatus
<1> HIDE DEF act
<1>4. \A a \in SecondPass(r, act) : row[a] = "SUCCEEDED" /\ world[a].undos = 0
  BY <1>2, <1>3 DEF CancelInv, WorldInv
<1>5. y \in RequestState /\ y.todo = SecondPass(r, act) /\ y.pc = x.pc /\ y.again /\ y.report = x.report
  BY <1>2, <1>3 DEF RequestState
<1> HIDE DEF y
<1>6. /\ req' \in [Requests -> RequestState] /\ req'[r] = y
      /\ \A s \in Requests \ {r} : req'[s] = req[s]
  BY <1>1, <1>2, <1>5
<1>7. step' \in [Actions -> {"open", "skipped"}]
  BY <1>1 DEF CancelInv, TypeOK
<1>8. Won(r)' /\ req'[r].pc # "done" /\ UNCHANGED <<attempts, ledger, dead, row>>
  BY <1>1, <1>5, <1>6 DEF Won, tables
<1> QED BY <1>1, <1>2, <1>4, <1>5, <1>6, <1>7, <1>8, WinnerKeepsInv

LEMMA FinishKeepsInv ==
    ASSUME CancelInv, NEW r \in Requests, Finish(r)
    PROVE  CancelInv'
<1> DEFINE x == req[r]
           told == [x.report EXCEPT !.running = Running(r)]
           y == [x EXCEPT !.pc = "done", !.report = told]
<1>1. /\ x.pc = "undoing" /\ x.todo = {} /\ req' = [req EXCEPT ![r] = y]
      /\ row' = [a \in Actions |-> IF a \in x.report.compensated /\ row[a] = "SUCCEEDED"
                                   THEN "ROLLED_BACK" ELSE row[a]]
      /\ step' = [a \in Actions |-> IF x.act[a] \in {"CANCELLED", "ROLLED_BACK"} THEN "skipped" ELSE step[a]]
      /\ UNCHANGED <<task, attempts, ledger, dead, world, hand, counts>>
  BY DEF Finish
<1>2. /\ req \in [Requests -> RequestState] /\ x \in RequestState /\ row \in [Actions -> ActionStatus]
      /\ \A b \in Actions : world[b].undos = 1 <=> b \in x.report.compensated
  BY <1>1, WinnerTypes
<1>3. told \in Report /\ told.compensated = x.report.compensated
  BY <1>2 DEF RequestState, Report, Running
<1> HIDE DEF told
<1>4. y \in RequestState /\ y.todo = {} /\ y.pc = "done" /\ y.again = x.again /\ y.report = told
  BY <1>1, <1>2, <1>3 DEF RequestState
<1> HIDE DEF y
<1>5. /\ req' \in [Requests -> RequestState] /\ req'[r] = y
      /\ \A s \in Requests \ {r} : req'[s] = req[s]
  BY <1>1, <1>2, <1>4
<1>6. /\ row' \in [Actions -> ActionStatus]
      /\ \A a \in Actions :
             \/ row'[a] = row[a]
             \/ row[a] = "SUCCEEDED" /\ world[a].undos = 1 /\ row'[a] = "ROLLED_BACK"
  BY <1>1, <1>2 DEF ActionStatus
<1>7. step' \in [Actions -> {"open", "skipped"}]
  BY <1>1 DEF CancelInv, TypeOK
<1>8. Won(r)'
  BY <1>4, <1>5 DEF Won
<1>9. \A a \in x.report.compensated : row'[a] = "ROLLED_BACK"
  <2>1. x.report.compensated \subseteq Actions
    BY <1>2 DEF RequestState, Report
  <2>2. \A a \in x.report.compensated : row[a] \in Kept
    BY <1>2, <2>1 DEF CancelInv, WorldInv
  <2> QED BY <1>1, <2>1, <2>2 DEF Kept
<1> QED BY <1>1, <1>3, <1>4, <1>5, <1>6, <1>7, <1>8, <1>9, WinnerKeepsInv

LEMMA DeathKeepsInv ==
    ASSUME CancelInv, NEW r \in Requests, RequestDies(r)
    PROVE  CancelInv'
<1> DEFINE x == req[r]
           y == [Waiting EXCEPT !.pc = "dead", !.report = x.report]
<1>1. /\ x.pc = "undoing" /\ req' = [req EXCEPT ![r] = y] /\ faults < MaxFaults /\ faults' = faults + 1
      /\ UNCHANGED <<task, tables, world, hand, step, overrun>>
  BY DEF RequestDies
<1>2. /\ req \in [Requests -> RequestState] /\ x \in RequestState /\ row \in [Actions -> ActionStatus]
      /\ \A s \in Requests \ {r} : ~Won(s)
  BY <1>1, WinnerTypes
<1>3. y \in RequestState /\ y.todo = {} /\ y.pc = "dead" /\ y.report = x.report
  BY <1>2 DEF RequestState, Waiting, ActionStatus
<1> HIDE DEF y
<1>4. /\ req' \in [Requests -> RequestState] /\ req'[r] = y
      /\ \A s \in Requests \ {r} : req'[s] = req[s]
  BY <1>1, <1>2, <1>3
<1>5. \A s \in Requests : Won(s)' <=> Won(s)
  BY <1>1, <1>3, <1>4 DEF Won
<1>6. TypeOK'
  <2>1. faults' \in 0..MaxFaults
    BY <1>1, CancellationAssumption DEF CancelInv, TypeOK
  <2> QED BY <1>1, <1>4, <2>1 DEF CancelInv, TypeOK, RequestState, tables
<1>7. WorldInv' /\ HandInv'
  BY <1>1 DEF CancelInv, WorldInv, Redoable, HandInv, Runs, tables
<1>8. WinnerInv'
  BY <1>1, <1>3, <1>4, <1>5 DEF CancelInv, WinnerInv
<1>9. RequestInv'
  BY <1>1, <1>3, <1>4 DEF CancelInv, RequestInv, tables
<1> QED BY <1>6, <1>7, <1>8, <1>9 DEF CancelInv

LEMMA CancelInvStep == CancelInv /\ [Next]_vars => CancelInv'
<1> SUFFICES ASSUME CancelInv, [Next]_vars PROVE CancelInv'
  OBVIOUS
<1>1. CASE UNCHANGED vars
  BY <1>1
  DEF vars, CancelInv, TypeOK, HandInv, Runs, WorldInv, Redoable, WinnerInv, RequestInv, Won
<1>2. ASSUME NEW r \in Requests, RequestStep(r) PROVE CancelInv'
  BY <1>2, BeginKeepsInv, MarkKeepsInv, UndoKeepsInv, RefreshKeepsInv, FinishKeepsInv, DeathKeepsInv
  DEF RequestStep
<1> QED BY <1>1, <1>2, EngineSteps DEF Next

LEMMA CancelInvHolds == Spec => []CancelInv
BY CancelInvInit, CancelInvStep, PTL DEF Spec

------------------------------------------------------------------------------
(* However many requests cancel a task at once, whatever its workers are      *)
(* doing, whichever of them outlive their leases and whoever dies, no effect  *)
(* is undone twice, nothing is undone but a recorded success, and a row says  *)
(* ROLLED_BACK only over an effect that was undone.  What was undone stays    *)
(* so, with no worker at it, unless the tool is idempotent and a worker of it *)
(* outlived its lease (Canceller.cancel, cancel.py:16-20).                    *)
THEOREM CancellationIsSound == Spec => []CancellationSound
<1>1. CancelInv => CancellationSound
  <2> SUFFICES ASSUME CancelInv PROVE CancellationSound
    OBVIOUS
  <2>1. \A a \in Actions :
          /\ world[a].undos \in {0, 1}
          /\ row[a] = "ROLLED_BACK" => world[a].undos = 1
          /\ world[a].undos = 1 => row[a] \in Kept
          /\ world[a].undos = 1 /\ a \notin Redoable => world[a].effect = "undone"
    BY DEF CancelInv, WorldInv
  <2>2. UndoneOnce
    BY <2>1 DEF UndoneOnce
  <2>3. ASSUME NEW a \in Actions, world[a].undos = 1, a \notin Redoable, NEW w \in Workers
        PROVE  ~(hand[w].act = a /\ hand[w].pc \in Executing)
    BY <2>1, <2>3, KeptIsQuiet DEF Runs
  <2>4. RollbacksAreReal
    <3>1. \A a \in Actions : world[a].undos > 0 => world[a].undos = 1
      BY <2>1
    <3>2. \A a \in Actions : world[a].undos = 1 => world[a].undos > 0
      BY <2>1
    <3> QED BY <2>1, <2>3, <3>1, <3>2 DEF RollbacksAreReal, Kept
  <2> QED BY <2>2, <2>4 DEF CancelInv, CancellationSound
<1> QED BY <1>1, CancelInvHolds, PTL

(* The pass over what had succeeded when the task was cancelled undoes every  *)
(* effect before any effect it was built on (reverse_topo,                    *)
(* _compensate_succeeded).                                                    *)
THEOREM FoundationsLast == Spec => UndoneBeforeFoundation
<1>1. ASSUME CancelInv, [Next]_vars,
             NEW r \in Requests, NEW b \in req[r].todo, ~req[r].again, world[b].undos # world'[b].undos,
             NEW a \in Deps[b]
      PROVE  world[a].undos = 0
  <2>1. b \in Actions /\ Won(r)
    BY SMTT(30), <1>1 DEF CancelInv, TypeOK, WinnerInv
  <2>2. world[b].undos = world'[b].undos \/ \E s \in Requests : Undo(s)
    <3>1. CASE UNCHANGED vars
      BY <3>1 DEF vars
    <3>2. CASE EngineStep
      BY <1>1, <2>1, <3>2, EngineSteps DEF EngineFrame
    <3>3. ASSUME NEW s \in Requests, RequestStep(s) PROVE Undo(s) \/ world' = world
      BY <3>3 DEF RequestStep, Begin, Mark, Refresh, Finish, RequestDies
    <3> QED BY <1>1, <3>1, <3>2, <3>3 DEF Next
  <2>3. PICK s \in Requests : Undo(s)
    BY <1>1, <2>2
  <2>4. Won(s) /\ req[s].pc = "undoing"
    BY <2>3 DEF Undo, Won
  <2>5. r = s
    BY <1>1, <2>1, <2>4 DEF CancelInv, WinnerInv
  <2> QED BY <1>1, <2>4, <2>5 DEF CancelInv, RequestInv
<1>2. CancelInv /\ [Next]_vars =>
        [\A r \in Requests : \A b \in req[r].todo :
            ~req[r].again /\ world[b].undos # world'[b].undos =>
                \A a \in Deps[b] : world[a].undos = 0]_vars
  BY <1>1
<1> QED BY <1>2, CancelInvHolds, PTL DEF Spec, UndoneBeforeFoundation

------------------------------------------------------------------------------
(* What the report accounts for.  An effect is at risk of being left when it  *)
(* is recorded as a success, or when a worker may still record it as one; the *)
(* winner has it among what it still has to undo, among what it has listed,   *)
(* among the rows it has seen RUNNING, or has missed it.                      *)
AtRisk(a) ==
    \/ row[a] = "SUCCEEDED" /\ world[a].undos = 0
    \/ row[a] \notin Ended /\ \E w \in Workers : hand[w].act = a /\ hand[w].pc \in {"loaded"} \cup Executing
Owed(r) == IF req[r].pc = "undoing" THEN Running(r) ELSE req[r].report.running
Accounted(r, a) ==
    \/ a \in req[r].todo \cup req[r].report.irreversible \cup req[r].report.failed \cup Owed(r)
    \/ a \in req[r].missed /\ ~req[r].again
    \/ overrun[a] > 0 /\ req[r].act[a] \in NotStarted

Accounts(r) ==
    /\ req[r].pc = "marking" /\ task = "RUNNING" =>
         \A a \in Actions :
             req[r].act[a] \in {"FAILED", "CANCELLED", "ROLLED_BACK", "UNVERIFIED"} => row[a] = req[r].act[a]
    /\ req[r].pc \in {"undoing", "done"} /\ req[r].undoes =>
         \A a \in Actions : AtRisk(a) => Accounted(r, a)
    /\ req[r].pc = "done" => req[r].todo = {}
AccountInv == \A r \in Requests : Accounts(r)

(* Under a cancelled task no worker begins what it has not loaded, and no row *)
(* that has ended comes back.                                                 *)
NoNewRisk == \A a \in Actions :
    /\ overrun[a] > 0 => overrun'[a] > 0
    /\ task = "CANCELLED" /\ AtRisk(a)' => AtRisk(a)

LEMMA WorkersRiskNothingNew ==
    ASSUME CancelInv, NEW w \in Workers, WorkerStep(w)
    PROVE  NoNewRisk
<1>1. /\ hand \in [Workers -> HandState] /\ row \in [Actions -> ActionStatus]
      /\ EngineFrame /\ overrun' = overrun
  <2>1. EngineStep
    BY DEF EngineStep
  <2>2. overrun' = overrun
    BY DEF WorkerStep, Claim, Load, Execute, Perform, Signal, Return, Record, Refuse, RollBack,
           WorkerDies, counts
  <2> QED BY <2>1, <2>2, EngineSteps DEF CancelInv, TypeOK, HandState
<1>2. \A v \in Workers : v # w => hand'[v] = hand[v]
  BY <1>1 DEF WorkerStep, Claim, Load, Execute, Perform, Signal, Return, Record, Refuse, RollBack,
              WorkerDies
<1>3. task = "CANCELLED" /\ hand'[w].pc \in {"loaded"} \cup Executing =>
        hand'[w].act = hand[w].act /\ hand[w].pc \in {"loaded"} \cup Executing
  <2>1. ASSUME hand'[w] = Away PROVE hand'[w].pc \notin {"loaded"} \cup Executing
    BY <2>1 DEF Away, Executing
  <2>2. CASE \E a \in Actions : Claim(w, a)
    BY <1>1, <2>2 DEF Claim, Away, Executing
  <2>3. CASE Load(w)
    BY <1>1, <2>1, <2>3 DEF Load
  <2>4. CASE Execute(w) \/ Signal(w)
    BY <1>1, <2>4 DEF Execute, Signal, HandState, Executing
  <2>5. CASE Perform(w)
    BY <2>5 DEF Perform
  <2>6. CASE Return(w) \/ Refuse(w) \/ RollBack(w) \/ WorkerDies(w)
    BY <1>1, <2>1, <2>6 DEF Return, Refuse, RollBack, WorkerDies, Record
  <2> QED BY <2>2, <2>3, <2>4, <2>5, <2>6 DEF WorkerStep
<1>4. ASSUME NEW a \in Actions, row'[a] = "SUCCEEDED", row[a] # "SUCCEEDED"
      PROVE  row[a] \notin Ended /\ hand[w].act = a /\ hand[w].pc \in {"loaded"} \cup Executing
  <2>1. row'[a] # row[a] /\ row[a] \notin Ended
    BY <1>1, <1>4 DEF EngineFrame
  <2>2. CASE \E b \in Actions : Claim(w, b)
    BY <1>1, <1>4, <2>2 DEF Claim
  <2>3. CASE Load(w)
    BY <1>1, <1>4, <2>3 DEF Load
  <2>4. CASE Execute(w) \/ Signal(w) \/ Perform(w) \/ RollBack(w) \/ WorkerDies(w)
    BY <2>1, <2>4 DEF Execute, Signal, Perform, RollBack, WorkerDies, tables
  <2>5. CASE Return(w) \/ Refuse(w)
    BY <1>1, <2>1, <2>5 DEF Return, Refuse, Record
  <2> QED BY <2>1, <2>2, <2>3, <2>4, <2>5 DEF WorkerStep
<1>5. ASSUME NEW a \in Actions, task = "CANCELLED", AtRisk(a)' PROVE AtRisk(a)
  <2>1. world'[a].undos = world[a].undos /\ (row'[a] = row[a] \/ row[a] \notin Ended)
    BY <1>1 DEF EngineFrame
  <2>2. CASE row'[a] = "SUCCEEDED" /\ world'[a].undos = 0
    BY <1>4, <2>1, <2>2 DEF AtRisk
  <2>3. ASSUME row'[a] \notin Ended, NEW v \in Workers, hand'[v].act = a,
               hand'[v].pc \in {"loaded"} \cup Executing
        PROVE  AtRisk(a)
    <3>1. hand[v].act = a /\ hand[v].pc \in {"loaded"} \cup Executing
      BY <1>2, <1>3, <1>5, <2>3
    <3> QED BY <2>1, <2>3, <3>1 DEF AtRisk
  <2> QED BY <1>5, <2>2, <2>3 DEF AtRisk
<1> QED BY <1>1, <1>5 DEF NoNewRisk

LEMMA EngineAccounts ==
    ASSUME CancelInv, AccountInv, EngineStep
    PROVE  AccountInv'
<1>1. EngineFrame
  BY EngineSteps
<1>2. NoNewRisk
  <2>1. CASE Complete
    BY <2>1 DEF Complete, tables, counts, NoNewRisk, AtRisk
  <2>2. ASSUME NEW a \in Actions, Dispatch(a) \/ Reap(a) PROVE NoNewRisk
    <3>1. /\ hand' = hand /\ \A b \in Actions : overrun[b] > 0 => overrun'[b] > 0
          /\ \A b \in Actions : row'[b] = "SUCCEEDED" => row[b] = "SUCCEEDED"
      <4>1. overrun \in [Actions -> Nat] /\ row \in [Actions -> ActionStatus]
        BY DEF CancelInv, TypeOK
      <4> QED BY <2>2, <4>1 DEF Dispatch, Reap, counts
    <3>2. \A b \in Actions : /\ world'[b].undos = world[b].undos
                             /\ row'[b] = row[b] \/ row[b] \notin Ended
      BY <1>1 DEF EngineFrame
    <3> QED BY <3>1, <3>2 DEF NoNewRisk, AtRisk
  <2> QED BY <2>1, <2>2, WorkersRiskNothingNew DEF EngineStep
<1>3. \A r \in Requests : req[r].pc \in {"undoing", "done"} => task = "CANCELLED"
  BY DEF CancelInv, WinnerInv, Won
<1>4. \A r \in Requests : \A a \in Actions : Accounted(r, a) => Accounted(r, a)'
  BY <1>1, <1>2 DEF EngineFrame, NoNewRisk, Accounted, Owed, Running
<1>5. \A a \in Actions : row[a] \in {"FAILED", "CANCELLED", "ROLLED_BACK", "UNVERIFIED"} => row'[a] = row[a]
  BY <1>1 DEF EngineFrame, Ended, NotStarted, ActionStatus
<1>6. req' = req /\ (task' = "RUNNING" => task = "RUNNING")
  BY <1>1 DEF EngineFrame
<1>7. \A a \in Actions : task = "CANCELLED" /\ AtRisk(a)' => AtRisk(a)
  BY <1>2 DEF NoNewRisk
<1> QED BY <1>3, <1>4, <1>5, <1>6, <1>7 DEF AccountInv, Accounts

LEMMA RequestAccounts ==
    ASSUME CancelInv, AccountInv, NEW r \in Requests, Accounts(r)',
           \A s \in Requests \ {r} : req'[s] = req[s],
           \/ UNCHANGED <<task, row, world, hand, overrun>>
           \/ task' = "CANCELLED" /\ \A s \in Requests \ {r} : ~Won(s)
    PROVE  AccountInv'
<1> SUFFICES ASSUME NEW s \in Requests \ {r} PROVE Accounts(s)'
  BY DEF AccountInv
<1>1. req'[s] = req[s]
  OBVIOUS
<1>2. CASE UNCHANGED <<task, row, world, hand, overrun>>
  BY <1>1, <1>2 DEF AccountInv, Accounts, Accounted, Owed, Running, AtRisk
<1>3. CASE task' = "CANCELLED" /\ ~Won(s)
  BY <1>1, <1>3 DEF Accounts, Won
<1> QED BY <1>2, <1>3

LEMMA BeginAccounts ==
    ASSUME CancelInv, AccountInv, NEW r \in Requests, Begin(r)
    PROVE  AccountInv'
<1> DEFINE next == CASE task = "CANCELLED" -> [Waiting EXCEPT !.pc = "reported"]
                     [] task \in {"SUCCEEDED", "FAILED"} -> [Waiting EXCEPT !.pc = "refused"]
                     [] task = "RUNNING" -> [Waiting EXCEPT !.pc = "marking", !.act = row]
<1>1. /\ req' = [req EXCEPT ![r] = next] /\ UNCHANGED <<task, row, world, hand, overrun>>
      /\ task \in {"RUNNING", "SUCCEEDED", "FAILED", "CANCELLED"} /\ DOMAIN req = Requests
  BY DEF Begin, CancelInv, TypeOK, tables, counts
<1>2. next.pc \in {"reported", "refused", "marking"} /\ (next.pc = "marking" => next.act = row)
  <2>1. CASE task = "CANCELLED"
    BY <2>1 DEF Waiting
  <2>2. CASE task \in {"SUCCEEDED", "FAILED"}
    BY <2>2 DEF Waiting
  <2>3. CASE task = "RUNNING"
    BY <2>3 DEF Waiting
  <2> QED BY <1>1, <2>1, <2>2, <2>3
<1> HIDE DEF next
<1>3. req'[r] = next /\ \A s \in Requests \ {r} : req'[s] = req[s]
  BY <1>1
<1>4. Accounts(r)'
  BY <1>1, <1>2, <1>3 DEF Accounts
<1> QED BY <1>1, <1>3, <1>4, RequestAccounts

LEMMA MarkAccounts ==
    ASSUME CancelInv, AccountInv, NEW r \in Requests, NEW undoes \in BOOLEAN, Mark(r, undoes)
    PROVE  AccountInv'
<1> DEFINE old == req[r].act
           act == [a \in Actions |-> IF old[a] \in NotStarted THEN "CANCELLED" ELSE old[a]]
           loser == [Waiting EXCEPT !.pc = "reported"]
           todo == Effective(act)
           missed == {a \in Actions : old[a] \in NotStarted /\ row[a] # old[a]}
<1>1. /\ req[r].pc = "marking" /\ UNCHANGED <<world, hand, overrun>>
      /\ req \in [Requests -> RequestState] /\ req[r] \in RequestState
      /\ row \in [Actions -> ActionStatus] /\ old \in [Actions -> ActionStatus]
  BY DEF Mark, CancelInv, TypeOK, RequestState, counts
<1>2. CASE ~Wins(r)
  <2>1. req' = [req EXCEPT ![r] = loser] /\ task' = task /\ row' = row
    BY <1>2 DEF Mark
  <2>2. loser.pc = "reported"
    BY DEF Waiting
  <2> HIDE DEF loser
  <2>3. req'[r] = loser /\ \A s \in Requests \ {r} : req'[s] = req[s]
    BY <1>1, <2>1
  <2>4. Accounts(r)'
    BY <2>2, <2>3 DEF Accounts
  <2> QED BY SMTT(30), <1>1, <2>1, <2>3, <2>4, RequestAccounts
<1>3. CASE Wins(r)
  <2>1. /\ task = "RUNNING" /\ task' = "CANCELLED"
        /\ row' = [a \in Actions |->
                     IF old[a] \in NotStarted /\ row[a] = old[a] THEN "CANCELLED" ELSE row[a]]
        /\ req' = [req EXCEPT ![r].pc = "undoing", ![r].undoes = undoes, ![r].act = act,
                              ![r].todo = todo, ![r].missed = missed]
    BY <1>3 DEF Mark, Wins
  <2>2. /\ \A a \in Actions : act[a] = "SUCCEEDED" => a \in todo
        /\ \A a \in Actions : act[a] = IF old[a] \in NotStarted THEN "CANCELLED" ELSE old[a]
        /\ \A a \in Actions : old[a] \in NotStarted /\ row[a] # old[a] => a \in missed
    BY DEF Effective
  <2> HIDE DEF act, todo, missed
  <2>3. /\ req'[r].pc = "undoing" /\ req'[r].todo = todo /\ req'[r].missed = missed
        /\ req'[r].act = act /\ req'[r].again = req[r].again /\ ~req[r].again
        /\ \A s \in Requests \ {r} : req'[s] = req[s]
    <3>1. req' = [req EXCEPT ![r] = [@ EXCEPT !.pc = "undoing", !.undoes = undoes, !.act = act,
                                              !.todo = todo, !.missed = missed]]
      BY <2>1
    <3>2. ~req[r].again
      BY <1>1 DEF CancelInv, RequestInv
    <3> HIDE DEF old
    <3> QED BY <1>1, <3>1, <3>2 DEF RequestState
  <2>4. ASSUME NEW a \in Actions, AtRisk(a)'
        PROVE  act[a] = "RUNNING" \/ a \in todo \/ a \in missed
    <3>1. row'[a] = row[a] /\ row[a] \in {"SUCCEEDED", "RUNNING"} \cup NotStarted
      <4>1. row'[a] = row[a] \/ row'[a] = "CANCELLED"
        BY <2>1
      <4>2. row'[a] = "SUCCEEDED" \/ row'[a] \notin Ended
        BY <2>4 DEF AtRisk
      <4> QED BY <1>1, <4>1, <4>2 DEF Ended, NotStarted, ActionStatus
    <3>2. old[a] \in ActionStatus /\ old[a] \notin {"FAILED", "CANCELLED", "ROLLED_BACK", "UNVERIFIED"}
      BY <1>1, <2>1, <3>1 DEF AccountInv, Accounts, NotStarted
    <3>3. old[a] \in NotStarted => row[a] # old[a]
      BY <2>1, <3>1 DEF NotStarted
    <3> HIDE DEF old
    <3> QED BY <2>2, <3>2, <3>3 DEF NotStarted, ActionStatus
  <2>5. Accounts(r)'
    <3>1. \A a \in Actions : AtRisk(a)' => Accounted(r, a)'
      BY <2>3, <2>4 DEF Accounted, Owed, Running
    <3> QED BY <2>3, <3>1 DEF Accounts
  <2>6. \A s \in Requests \ {r} : ~Won(s)
    BY <2>1 DEF CancelInv, WinnerInv
  <2> QED BY <2>1, <2>3, <2>5, <2>6, RequestAccounts
<1> QED BY SMTT(30), <1>2, <1>3

LEMMA UndoAccounts ==
    ASSUME CancelInv, AccountInv, NEW r \in Requests, Undo(r)
    PROVE  AccountInv'
<1>1. req[r].pc = "undoing" /\ UNCHANGED <<task, row, hand, overrun>>
  BY DEF Undo, tables, counts
<1>2. /\ req \in [Requests -> RequestState] /\ req[r] \in RequestState
      /\ row \in [Actions -> ActionStatus] /\ task = "CANCELLED"
      /\ world \in [Actions -> [effect : {"none", "done", "undone"}, undos : Nat]]
      /\ \A s \in Requests \ {r} : ~Won(s)
  BY <1>1, WinnerTypes
<1>3. PICK a \in NextToUndo(r) : Undone(r, a) \/ NotUndone(r, a, "failed") \/ NotUndone(r, a, "irreversible")
  BY DEF Undo
<1>4. a \in req[r].todo /\ a \in Actions /\ row[a] = "SUCCEEDED" /\ world[a].undos = 0
  <2>1. a \in req[r].todo /\ a \in Actions
    BY <1>2 DEF NextToUndo, RequestState
  <2> QED BY <1>1, <2>1 DEF CancelInv, RequestInv
<1> DEFINE x == req[r]
<1>5. /\ \A s \in Requests \ {r} : req'[s] = req[s]
      /\ req'[r].pc = x.pc /\ req'[r].undoes = x.undoes /\ req'[r].again = x.again
      /\ req'[r].missed = x.missed
      /\ \A b \in Actions : b # a => req'[r].act[b] = x.act[b] /\ world'[b] = world[b]
      /\ \A b \in Actions : b # a /\ b \in x.todo => b \in req'[r].todo
      /\ x.report.failed \subseteq req'[r].report.failed
      /\ x.report.irreversible \subseteq req'[r].report.irreversible
      /\ \/ world'[a].undos = 1
         \/ a \in req'[r].report.failed \cup req'[r].report.irreversible
  <2>1. CASE Undone(r, a)
    <3> DEFINE rolled == [x.act EXCEPT ![a] = "ROLLED_BACK"]
               told == [x.report EXCEPT !.compensated = @ \cup {a}]
               y == [x EXCEPT !.todo = @ \ {a}, !.act = rolled, !.report = told]
    <3>1. req' = [req EXCEPT ![r] = y]
      BY <2>1 DEF Undone
    <3>2. /\ told.failed = x.report.failed /\ told.irreversible = x.report.irreversible
          /\ \A b \in Actions : b # a => rolled[b] = x.act[b]
      BY <1>2 DEF RequestState, Report
    <3> HIDE DEF rolled, told
    <3>3. /\ y.pc = x.pc /\ y.undoes = x.undoes /\ y.again = x.again /\ y.missed = x.missed
          /\ y.todo = x.todo \ {a} /\ y.report = told /\ y.act = rolled
      BY <1>2 DEF RequestState
    <3> HIDE DEF y
    <3>4. world'[a].undos = 1 /\ \A b \in Actions : b # a => world'[b] = world[b]
      BY <1>2, <1>4, <2>1 DEF Undone
    <3> QED BY <1>2, <3>1, <3>2, <3>3, <3>4
  <2>2. ASSUME NEW list \in {"failed", "irreversible"}, NotUndone(r, a, list)
        PROVE  /\ \A s \in Requests \ {r} : req'[s] = req[s]
               /\ req'[r].pc = x.pc /\ req'[r].undoes = x.undoes /\ req'[r].again = x.again
               /\ req'[r].missed = x.missed
               /\ \A b \in Actions : b # a => req'[r].act[b] = x.act[b] /\ world'[b] = world[b]
               /\ \A b \in Actions : b # a /\ b \in x.todo => b \in req'[r].todo
               /\ x.report.failed \subseteq req'[r].report.failed
               /\ x.report.irreversible \subseteq req'[r].report.irreversible
               /\ \/ world'[a].undos = 1
                  \/ a \in req'[r].report.failed \cup req'[r].report.irreversible
    <3> DEFINE told == [x.report EXCEPT !.failed = IF list = "failed" THEN @ \cup {a} ELSE @,
                                        !.irreversible = IF list = "irreversible" THEN @ \cup {a} ELSE @]
               y == [x EXCEPT !.todo = @ \ {a}, !.report = told]
    <3>1. req' = [req EXCEPT ![r] = y] /\ world' = world
      <4>1. CASE list = "failed"
        BY <2>2, <4>1 DEF NotUndone
      <4>2. CASE list # "failed"
        BY <2>2, <4>2 DEF NotUndone
      <4> QED BY <4>1, <4>2
    <3>2. /\ x.report.failed \subseteq told.failed /\ x.report.irreversible \subseteq told.irreversible
          /\ a \in told.failed \cup told.irreversible
      BY <1>2 DEF RequestState, Report
    <3> HIDE DEF told
    <3>3. /\ y.pc = x.pc /\ y.undoes = x.undoes /\ y.again = x.again /\ y.missed = x.missed
          /\ y.todo = x.todo \ {a} /\ y.report = told /\ y.act = x.act
      BY <1>2 DEF RequestState
    <3> HIDE DEF y
    <3> QED BY <1>2, <3>1, <3>2, <3>3
  <2> QED BY <1>3, <2>1, <2>2
<1> HIDE DEF x
<1>6. ASSUME NEW b \in Actions, AtRisk(b)', x.undoes
      PROVE  Accounted(r, b)'
  <2>1. CASE b = a
    <3>1. world'[a].undos = 0
      BY <1>1, <1>4, <1>6, <2>1 DEF AtRisk, Ended, NotStarted, ActionStatus
    <3> QED BY <1>5, <2>1, <3>1 DEF Accounted
  <2>2. CASE b # a
    <3>1. AtRisk(b)
      BY <1>1, <1>5, <1>6, <2>2 DEF AtRisk
    <3>2. Accounted(r, b)
      BY <1>1, <1>6, <3>1 DEF AccountInv, Accounts, x
    <3> QED BY <1>1, <1>5, <2>2, <3>2 DEF Accounted, Owed, Running, x
  <2> QED BY <2>1, <2>2
<1>7. Accounts(r)'
  BY <1>1, <1>5, <1>6 DEF Accounts, x
<1> QED BY <1>1, <1>2, <1>5, <1>7, RequestAccounts

LEMMA RefreshAccounts ==
    ASSUME CancelInv, AccountInv, NEW r \in Requests, Refresh(r)
    PROVE  AccountInv'
<1> DEFINE x == req[r]
           act == [a \in Actions |-> IF a \in x.report.compensated THEN "ROLLED_BACK" ELSE row[a]]
           y == [x EXCEPT !.act = act, !.again = TRUE, !.todo = SecondPass(r, act)]
<1>1. /\ x.pc = "undoing" /\ req' = [req EXCEPT ![r] = y] /\ UNCHANGED <<task, row, world, hand, overrun>>
  BY DEF Refresh, tables, counts
<1>2. /\ req \in [Requests -> RequestState] /\ x \in RequestState /\ row \in [Actions -> ActionStatus]
      /\ \A b \in Actions : world[b].undos = 1 <=> b \in x.report.compensated
  BY <1>1, WinnerTypes
<1>3. /\ \A a \in Actions : a \notin x.report.compensated => act[a] = row[a]
      /\ x.undoes => \A a \in Actions : act[a] = "SUCCEEDED" => a \in SecondPass(r, act)
  BY DEF SecondPass, Effective
<1> HIDE DEF act
<1>4. y.todo = SecondPass(r, act) /\ y.pc = x.pc /\ y.undoes = x.undoes /\ y.act = act
  BY <1>2 DEF RequestState
<1> HIDE DEF y
<1>5. req'[r] = y /\ \A s \in Requests \ {r} : req'[s] = req[s]
  BY <1>1, <1>2
<1>6. ASSUME NEW a \in Actions, AtRisk(a)', x.undoes
      PROVE  Accounted(r, a)'
  <2>1. CASE row[a] = "SUCCEEDED" /\ world[a].undos = 0
    BY <1>2, <1>3, <1>4, <1>5, <1>6, <2>1 DEF Accounted
  <2>2. ASSUME row[a] \notin Ended, NEW w \in Workers, hand[w].act = a PROVE Accounted(r, a)'
    <3>1. world[a].undos # 1
      BY <2>2 DEF CancelInv, WorldInv, Kept, Ended, NotStarted, ActionStatus
    <3>2. act[a] = row[a]
      BY <1>2, <1>3, <3>1
    <3>3. CASE row[a] = "RUNNING"
      BY <1>1, <1>4, <1>5, <3>2, <3>3 DEF Accounted, Owed, Running
    <3>4. CASE row[a] # "RUNNING"
      <4>1. overrun[a] \in Nat /\ overrun[a] # 0
        BY <2>2, <3>4 DEF CancelInv, HandInv, TypeOK
      <4>2. row[a] \in NotStarted
        BY <1>2, <2>2, <3>4 DEF Ended
      <4> QED BY <1>1, <1>4, <1>5, <3>2, <4>1, <4>2 DEF Accounted
    <3> QED BY <3>3, <3>4
  <2> QED BY <1>1, <1>6, <2>1, <2>2 DEF AtRisk
<1>7. Accounts(r)'
  BY <1>1, <1>4, <1>5, <1>6 DEF Accounts
<1> QED BY <1>1, <1>5, <1>7, RequestAccounts

LEMMA FinishAccounts ==
    ASSUME CancelInv, AccountInv, NEW r \in Requests, Finish(r)
    PROVE  AccountInv'
<1> DEFINE x == req[r]
           told == [x.report EXCEPT !.running = Running(r)]
           y == [x EXCEPT !.pc = "done", !.report = told]
<1>1. /\ x.pc = "undoing" /\ x.todo = {} /\ req' = [req EXCEPT ![r] = y]
      /\ row' = [a \in Actions |-> IF a \in x.report.compensated /\ row[a] = "SUCCEEDED"
                                   THEN "ROLLED_BACK" ELSE row[a]]
      /\ UNCHANGED <<task, world, hand, overrun>>
  BY DEF Finish, counts
<1>2. /\ req \in [Requests -> RequestState] /\ x \in RequestState /\ task = "CANCELLED"
      /\ \A s \in Requests \ {r} : ~Won(s)
  BY <1>1, WinnerTypes
<1>3. told.running = Running(r) /\ told.irreversible = x.report.irreversible /\ told.failed = x.report.failed
  BY <1>2 DEF RequestState, Report
<1> HIDE DEF told
<1>4. /\ y.todo = {} /\ y.pc = "done" /\ y.again = x.again /\ y.report = told
      /\ y.undoes = x.undoes /\ y.missed = x.missed /\ y.act = x.act
  BY <1>1, <1>2 DEF RequestState
<1> HIDE DEF y
<1>5. req'[r] = y /\ \A s \in Requests \ {r} : req'[s] = req[s]
  BY <1>1, <1>2
<1>6. ASSUME NEW a \in Actions, AtRisk(a)', x.undoes
      PROVE  Accounted(r, a)'
  <2>1. AtRisk(a)
    BY <1>1, <1>6 DEF AtRisk, Ended, NotStarted, ActionStatus
  <2>2. Accounted(r, a)
    BY <1>1, <1>6, <2>1 DEF AccountInv, Accounts
  <2> QED BY <1>1, <1>3, <1>4, <1>5, <2>2 DEF Accounted, Owed
<1>7. Accounts(r)'
  BY <1>4, <1>5, <1>6 DEF Accounts
<1> QED BY <1>1, <1>2, <1>5, <1>7, RequestAccounts

LEMMA AccountInvHolds == Spec => [](CancelInv /\ AccountInv)
<1>1. Init => AccountInv
  BY DEF Init, AccountInv, Accounts, Waiting
<1>2. ASSUME CancelInv, AccountInv, [Next]_vars PROVE AccountInv'
  <2>1. CASE UNCHANGED vars
    BY <1>2, <2>1 DEF vars, AccountInv, Accounts, Accounted, Owed, Running, AtRisk
  <2>2. ASSUME NEW r \in Requests, RequestDies(r) PROVE AccountInv'
    <3>1. req[r].pc = "undoing" /\ UNCHANGED <<task, row, world, hand, overrun>>
      BY <2>2 DEF RequestDies, tables
    <3>2. /\ req' = [req EXCEPT ![r] = [Waiting EXCEPT !.pc = "dead", !.report = req[r].report]]
          /\ req \in [Requests -> RequestState]
      BY <1>2, <2>2 DEF RequestDies, CancelInv, TypeOK, RequestState
    <3>3. req'[r].pc = "dead" /\ \A s \in Requests \ {r} : req'[s] = req[s]
      BY <3>2 DEF Waiting
    <3>4. Accounts(r)'
      BY <3>3 DEF Accounts
    <3> QED BY <1>2, <3>1, <3>3, <3>4, RequestAccounts
  <2>3. ASSUME NEW r \in Requests, RequestStep(r) PROVE AccountInv'
    BY <1>2, <2>2, <2>3, BeginAccounts, MarkAccounts, UndoAccounts, RefreshAccounts, FinishAccounts
    DEF RequestStep
  <2> QED BY <1>2, <2>1, <2>3, EngineAccounts DEF Next
<1>3. CancelInv /\ AccountInv /\ [Next]_vars => AccountInv'
  BY <1>2
<1> QED BY <1>1, <1>3, CancelInvHolds, PTL DEF Spec

(* Whatever plan is cancelled, by however many requests, and whoever dies or  *)
(* outlives its lease: the report of the request that cancelled the task      *)
(* accounts for every recorded success that is left in the world, but for one *)
(* that moved between the request's read and its write when nothing else was  *)
(* seen running, and one that a worker without a lease records after the      *)
(* request found its row READY (Canceller.cancel, _compensate_succeeded).     *)
THEOREM ReportIsComplete == Spec => []ReportAccounts
<1>1. CancelInv /\ AccountInv => ReportAccounts
  <2> SUFFICES ASSUME CancelInv, AccountInv, NEW r \in Requests, req[r].pc = "done", req[r].undoes,
                      NEW a \in Actions, row[a] = "SUCCEEDED"
               PROVE  \/ a \in req[r].report.irreversible \cup req[r].report.failed \cup req[r].report.running
                      \/ a \in req[r].missed /\ ~req[r].again
                      \/ overrun[a] > 0 /\ req[r].act[a] \in NotStarted
    BY DEF ReportAccounts
  <2>1. world[a].undos \in {0, 1}
    BY DEF CancelInv, WorldInv
  <2>2. world[a].undos # 1
    <3>1. Won(r)
      BY DEF Won
    <3> QED BY <3>1 DEF CancelInv, WinnerInv, RequestInv
  <2> QED BY <2>1, <2>2 DEF AccountInv, Accounts, Accounted, Owed, AtRisk
<1> QED BY <1>1, AccountInvHolds, PTL

==============================================================================
