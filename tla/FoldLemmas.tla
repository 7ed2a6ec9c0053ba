----------------------------- MODULE FoldLemmas -----------------------------
(***************************************************************************)
(* What the proofs about several components rest on: induction along a     *)
(* sequence of numbers, the size of finite sets, sorting by rank, running  *)
(* sums, and folds: what FoldLeft of the community modules computes, place *)
(* by place.                                                               *)
(***************************************************************************)
EXTENDS Integers, FiniteSets, FiniteSetsExt, TLAPS, FiniteSetTheorems, WellFoundedInduction

-----------------------------------------------------------------------------
(* Induction.                                                              *)
LEMMA NatHasLeast ==
  ASSUME NEW T \in SUBSET Nat, T # {}
  PROVE  \E n \in T : \A m \in T : n <= m
<1>1. IsWellFoundedOn(OpToRel(<, Nat), Nat)
  BY NatLessThanWellFounded
<1>2. PICK n \in T : \A m \in T : <<m, n>> \notin OpToRel(<, Nat)
  BY <1>1, WFMin
<1>3. \A m \in T : ~(m < n)
  BY <1>2 DEF OpToRel
<1> QED
  BY <1>3

(* Induction up to n, on a set.                                            *)
LEMMA Climb ==
  ASSUME NEW n \in Nat, NEW P, 0 \in P, \A k \in 1 .. n : k - 1 \in P => k \in P
  PROVE  \A k \in 0 .. n : k \in P
<1> DEFINE bad == {k \in 0 .. n : k \notin P}
<1>1. ASSUME bad # {} PROVE FALSE
  <2>1. bad \in SUBSET Nat
    OBVIOUS
  <2>2. PICK k \in bad : \A m \in bad : k <= m
    BY <1>1, <2>1, NatHasLeast
  <2>3. k \in 1 .. n /\ k - 1 \in 0 .. n /\ ~(k <= k - 1)
    BY <2>2
  <2>4. k - 1 \in P
    BY <2>2, <2>3
  <2> QED
    BY <2>2, <2>3, <2>4
<1> QED
  BY <1>1

-----------------------------------------------------------------------------
(* Sizes.                                                                  *)
LEMMA SameSize ==
  ASSUME NEW S, NEW T, IsFiniteSet(S), NEW f \in [S -> T],
         \A a, b \in S : f[a] = f[b] => a = b, \A c \in T : \E a \in S : f[a] = c
  PROVE  Cardinality(S) = Cardinality(T)
<1>1. f \in Injection(S, T)
  BY DEF Injection, IsInjective
<1>2. f \in Surjection(S, T)
  BY DEF Surjection
<1>3. ExistsBijection(S, T)
  BY <1>1, <1>2 DEF ExistsBijection, Bijection
<1> QED
  BY <1>3, FS_Bijection

LEMMA PlacesAreFinite ==
  ASSUME NEW n \in Nat, NEW S \in SUBSET (1 .. n)
  PROVE  IsFiniteSet(S) /\ Cardinality(S) \in Nat /\ Cardinality(S) <= n
<1>1. IsFiniteSet(1 .. n) /\ Cardinality(1 .. n) = n
  BY FS_Interval
<1>2. IsFiniteSet(S) /\ Cardinality(S) <= n
  BY <1>1, FS_Subset
<1> QED
  BY <1>2, FS_CardinalityType

-----------------------------------------------------------------------------
(* Sorting by rank: in a strict total order (a set of pairs), the element  *)
(* with k - 1 before it comes k-th.                                        *)
Prior(order, n, i) == {j \in 1 .. n : <<j, i>> \in order}

Orders(order, n) ==
    \A i, j, k \in 1 .. n :
        /\ <<i, i>> \notin order
        /\ i # j => <<i, j>> \in order \/ <<j, i>> \in order
        /\ <<i, j>> \in order /\ <<j, k>> \in order => <<i, k>> \in order

Sorts(place, order, n) ==
    /\ place \in [1 .. n -> 1 .. n]
    /\ \A i \in 1 .. n : \E k \in 1 .. n : place[k] = i
    /\ \A k, l \in 1 .. n : k < l => <<place[k], place[l]>> \in order

(* Every place is that of one element.                                     *)
LEMMA RanksAreDistinct ==
  ASSUME NEW n \in Nat, NEW order, Orders(order, n)
  PROVE  /\ \A i \in 1 .. n : Cardinality(Prior(order, n, i)) \in 0 .. n - 1
         /\ \A i, j \in 1 .. n :
                <<i, j>> \in order
                    <=> Cardinality(Prior(order, n, i)) < Cardinality(Prior(order, n, j))
         /\ \A k \in 1 .. n : \E i \in 1 .. n : Cardinality(Prior(order, n, i)) = k - 1
<1> DEFINE rank == [i \in 1 .. n |-> Cardinality(Prior(order, n, i)) + 1]
<1>1. IsFiniteSet(1 .. n) /\ Cardinality(1 .. n) = n
  BY FS_Interval
<1>2. ASSUME NEW i \in 1 .. n
      PROVE  /\ IsFiniteSet(Prior(order, n, i)) /\ Cardinality(Prior(order, n, i)) \in Nat
             /\ Cardinality(Prior(order, n, i)) < n
  <2>1. Prior(order, n, i) \subseteq 1 .. n /\ i \notin Prior(order, n, i)
    BY DEF Prior, Orders
  <2>2. Prior(order, n, i) # 1 .. n
    BY <2>1
  <2> QED
    BY <1>1, <2>1, <2>2, FS_Subset, FS_CardinalityType
<1>3. ASSUME NEW i \in 1 .. n, NEW j \in 1 .. n, <<i, j>> \in order
      PROVE  Cardinality(Prior(order, n, i)) < Cardinality(Prior(order, n, j))
  <2>1. Prior(order, n, i) \subseteq Prior(order, n, j)
    BY <1>3 DEF Prior, Orders
  <2>2. i \in Prior(order, n, j) /\ i \notin Prior(order, n, i)
    BY <1>3 DEF Prior, Orders
  <2>3. Prior(order, n, i) # Prior(order, n, j)
    BY <2>2
  <2> QED
    BY <1>2, <2>1, <2>3, FS_Subset
<1>4. \A i, j \in 1 .. n : i # j => rank[i] # rank[j]
  <2> SUFFICES ASSUME NEW i \in 1 .. n, NEW j \in 1 .. n, i # j PROVE rank[i] # rank[j]
    OBVIOUS
  <2>1. <<i, j>> \in order \/ <<j, i>> \in order
    BY DEF Orders
  <2> QED
    BY <1>2, <1>3, <2>1
<1>5. rank \in [1 .. n -> 1 .. n]
  BY <1>2
<1>6. \A i \in 1 .. n : rank[i] = Cardinality(Prior(order, n, i)) + 1
  OBVIOUS
<1> HIDE DEF rank
<1>7. rank \in Injection(1 .. n, 1 .. n)
  BY <1>4, <1>5 DEF Injection, IsInjective
<1>8. rank \in Surjection(1 .. n, 1 .. n)
  BY <1>1, <1>7, FS_Injection
<1>9. ASSUME NEW k \in 1 .. n PROVE \E i \in 1 .. n : Cardinality(Prior(order, n, i)) = k - 1
  <2>1. PICK i \in 1 .. n : rank[i] = k
    BY <1>8 DEF Surjection
  <2>2. rank[i] = Cardinality(Prior(order, n, i)) + 1 /\ Cardinality(Prior(order, n, i)) \in Nat
    BY <1>2, <1>6
  <2> QED
    BY <2>1, <2>2
<1>10. ASSUME NEW i \in 1 .. n, NEW j \in 1 .. n,
              Cardinality(Prior(order, n, i)) < Cardinality(Prior(order, n, j))
       PROVE  <<i, j>> \in order
  <2>1. Cardinality(Prior(order, n, i)) \in Nat /\ Cardinality(Prior(order, n, j)) \in Nat
    BY <1>2
  <2>2. <<j, i>> \in order => Cardinality(Prior(order, n, j)) < Cardinality(Prior(order, n, i))
    BY <1>3
  <2>3. i # j /\ <<j, i>> \notin order
    BY <1>10, <2>1, <2>2
  <2> QED
    BY <2>3 DEF Orders
<1>11. \A i \in 1 .. n : Cardinality(Prior(order, n, i)) \in 0 .. n - 1
  BY <1>2
<1> QED
  BY <1>3, <1>9, <1>10, <1>11

LEMMA RanksSort ==
  ASSUME NEW n \in Nat, NEW order, Orders(order, n),
         NEW place,
         place = [k \in 1 .. n |-> CHOOSE i \in 1 .. n : Cardinality(Prior(order, n, i)) = k - 1]
  PROVE  Sorts(place, order, n)
<1> DEFINE Rank(i) == Cardinality(Prior(order, n, i))
<1>1. /\ \A i \in 1 .. n : Rank(i) \in 0 .. n - 1
      /\ \A i, j \in 1 .. n : <<i, j>> \in order <=> Rank(i) < Rank(j)
      /\ \A k \in 1 .. n : \E i \in 1 .. n : Rank(i) = k - 1
  BY RanksAreDistinct, Zenon
<1>2. place = [k \in 1 .. n |-> CHOOSE i \in 1 .. n : Rank(i) = k - 1]
  OBVIOUS
<1> HIDE DEF Rank
<1>3. \A k \in 1 .. n : place[k] \in 1 .. n /\ Rank(place[k]) = k - 1
  BY <1>1, <1>2
<1>4. place \in [1 .. n -> 1 .. n]
  BY <1>2, <1>3
<1>5. ASSUME NEW i \in 1 .. n PROVE \E k \in 1 .. n : place[k] = i
  <2>1. PICK k \in 1 .. n : k = Rank(i) + 1
    BY <1>1
  <2>2. PICK j \in 1 .. n : j = place[k]
    BY <1>4
  <2>3. Rank(j) = k - 1 /\ Rank(i) \in Nat
    BY <1>1, <1>3, <2>2
  <2>r. Rank(j) = Rank(i)
    BY <2>1, <2>3
  <2>4. <<i, j>> \notin order /\ <<j, i>> \notin order
    BY <1>1, <2>3, <2>r
  <2>5. i = j
    BY <2>4 DEF Orders
  <2> QED
    BY <2>2, <2>5
<1>6. ASSUME NEW k \in 1 .. n, NEW l \in 1 .. n, k < l PROVE <<place[k], place[l]>> \in order
  <2>1. PICK i, j \in 1 .. n : i = place[k] /\ j = place[l]
    BY <1>4
  <2>2. Rank(i) = k - 1 /\ Rank(j) = l - 1
    BY <1>3, <2>1
  <2>3. Rank(i) < Rank(j)
    BY <1>6, <2>2
  <2> QED
    BY <1>1, <2>1, <2>3
<1> QED
  BY <1>4, <1>5, <1>6 DEF Sorts

-----------------------------------------------------------------------------
(* Sums: what sums up the first n of the numbers of w.                     *)
SumsUp(sum, w, n) ==
    /\ sum \in [0 .. n -> Nat]
    /\ sum[0] = 0
    /\ \A i \in 1 .. n : sum[i] = sum[i - 1] + w[i]

LEMMA SumExtends ==
  ASSUME NEW m \in Nat, NEW w, w[m + 1] \in Nat, NEW sum, SumsUp(sum, w, m)
  PROVE  \E next : SumsUp(next, w, m + 1)
<1> DEFINE next == [i \in 0 .. m + 1 |-> IF i = m + 1 THEN sum[m] + w[m + 1] ELSE sum[i]]
<1>1. /\ \A i \in 0 .. m : sum[i] \in Nat
      /\ sum[0] = 0
      /\ \A i \in 1 .. m : sum[i] = sum[i - 1] + w[i]
  BY DEF SumsUp
<1>2. next \in [0 .. m + 1 -> Nat]
  <2>1. ASSUME NEW i \in 0 .. m + 1, i # m + 1 PROVE i \in 0 .. m
    BY <2>1
  <2>2. sum[m] + w[m + 1] \in Nat
    BY <1>1
  <2> QED
    BY <1>1, <2>1, <2>2
<1>3. next[0] = 0
  BY <1>1
<1>4. ASSUME NEW i \in 1 .. m + 1 PROVE next[i] = next[i - 1] + w[i]
  <2>1. i \in 0 .. m + 1 /\ i - 1 \in 0 .. m + 1 /\ i - 1 # m + 1
    OBVIOUS
  <2>2. next[i - 1] = sum[i - 1]
    BY <2>1
  <2>3. CASE i = m + 1
    BY <2>1, <2>2, <2>3
  <2>4. CASE i # m + 1
    <3>1. i \in 1 .. m /\ next[i] = sum[i]
      BY <2>1, <2>4
    <3> QED
      BY <1>1, <2>2, <3>1
  <2> QED
    BY <2>3, <2>4
<1> HIDE DEF next
<1> QED
  BY <1>2, <1>3, <1>4 DEF SumsUp

(* The loop over the places ends: there is such a sum.                     *)
LEMMA SumExists ==
  ASSUME NEW n \in Nat, NEW w, \A i \in 1 .. n : w[i] \in Nat
  PROVE  \E sum : SumsUp(sum, w, n)
<1> DEFINE P == {m \in 0 .. n : \E sum : SumsUp(sum, w, m)}
<1>1. 0 \in P
  <2>1. SumsUp([i \in 0 .. 0 |-> 0], w, 0)
    BY DEF SumsUp
  <2> QED
    BY <2>1
<1>2. ASSUME NEW k \in 1 .. n, k - 1 \in P PROVE k \in P
  <2>1. PICK m \in Nat : m = k - 1
    OBVIOUS
  <2>2. PICK sum : SumsUp(sum, w, m)
    BY <1>2, <2>1
  <2>3. m + 1 = k /\ w[m + 1] \in Nat
    BY <2>1
  <2>4. \E next : SumsUp(next, w, m + 1)
    BY <2>2, <2>3, SumExtends
  <2> QED
    BY <2>3, <2>4
<1> HIDE DEF P
<1>3. \A k \in 0 .. n : k \in P
  BY <1>1, <1>2, Climb
<1>4. n \in P
  BY <1>3
<1> QED
  BY <1>4 DEF P

(* Two rows of numbers that differ in one place.                           *)
LEMMA SumsDiffer ==
  ASSUME NEW n \in Nat, NEW w, NEW v, NEW p \in 1 .. n,
         \A i \in 1 .. n : w[i] \in Nat /\ v[i] \in Nat,
         \A i \in 1 .. n : i # p => w[i] = v[i],
         NEW a, NEW b, SumsUp(a, w, n), SumsUp(b, v, n)
  PROVE  a[n] + v[p] = b[n] + w[p]
<1>1. /\ a[0] = 0 /\ \A i \in 1 .. n : a[i] = a[i - 1] + w[i]
      /\ b[0] = 0 /\ \A i \in 1 .. n : b[i] = b[i - 1] + v[i]
      /\ \A i \in 0 .. n : a[i] \in Nat /\ b[i] \in Nat
  BY DEF SumsUp
<1> DEFINE P == {k \in 0 .. n : IF k < p THEN a[k] = b[k] ELSE a[k] + v[p] = b[k] + w[p]}
<1>2. 0 \in P
  BY <1>1
<1>3. ASSUME NEW k \in 1 .. n, k - 1 \in P PROVE k \in P
  <2>1. /\ a[k] = a[k - 1] + w[k] /\ b[k] = b[k - 1] + v[k]
        /\ {w[k], v[k], w[p], v[p]} \subseteq Nat
        /\ k - 1 \in 0 .. n /\ {a[k - 1], b[k - 1]} \subseteq Nat
    BY <1>1
  <2>2. k # p => w[k] = v[k]
    OBVIOUS
  <2>3. IF k - 1 < p THEN a[k - 1] = b[k - 1] ELSE a[k - 1] + v[p] = b[k - 1] + w[p]
    BY <1>3
  <2> QED
    BY <2>1, <2>2, <2>3
<1> HIDE DEF P
<1>4. \A k \in 0 .. n : k \in P
  BY <1>2, <1>3, Climb
<1>5. n \in P
  BY <1>4
<1> QED
  BY <1>5 DEF P

LEMMA SumOfNothing ==
  ASSUME NEW n \in Nat, NEW w, \A i \in 1 .. n : w[i] = 0, NEW sum, SumsUp(sum, w, n)
  PROVE  sum[n] = 0
<1>1. sum[0] = 0 /\ \A i \in 1 .. n : sum[i] = sum[i - 1] + w[i]
  BY DEF SumsUp
<1> DEFINE P == {k \in 0 .. n : sum[k] = 0}
<1>2. 0 \in P /\ \A k \in 1 .. n : k - 1 \in P => k \in P
  BY <1>1
<1> HIDE DEF P
<1>3. \A k \in 0 .. n : k \in P
  BY <1>2, Climb
<1>4. n \in P
  BY <1>3
<1> QED
  BY <1>4 DEF P

(* One number alone makes up the sum.                                      *)
LEMMA SumOfOne ==
  ASSUME NEW n \in Nat, NEW w, NEW p \in 1 .. n, w[p] \in Nat,
         \A i \in 1 .. n : i # p => w[i] = 0, NEW sum, SumsUp(sum, w, n)
  PROVE  sum[n] = w[p]
<1>1. sum[0] = 0 /\ \A i \in 1 .. n : sum[i] = sum[i - 1] + w[i]
  BY DEF SumsUp
<1> DEFINE P == {k \in 0 .. n : sum[k] = IF k < p THEN 0 ELSE w[p]}
<1>2. 0 \in P
  BY <1>1
<1>3. ASSUME NEW k \in 1 .. n, k - 1 \in P PROVE k \in P
  <2>1. sum[k - 1] = IF k - 1 < p THEN 0 ELSE w[p]
    BY <1>3
  <2>2. sum[k] = sum[k - 1] + w[k]
    BY <1>1
  <2>3. CASE k = p
    BY <2>1, <2>2, <2>3
  <2>4. CASE k # p
    <3>1. w[k] = 0
      BY <2>4
    <3> QED
      BY <2>1, <2>2, <2>4, <3>1
  <2> QED
    BY <2>3, <2>4
<1> HIDE DEF P
<1>4. \A k \in 0 .. n : k \in P
  BY <1>2, <1>3, Climb
<1>5. n \in P
  BY <1>4
<1> QED
  BY <1>5 DEF P

(* The running sums of weights never step back.                            *)
LEMMA SumsGrow ==
  ASSUME NEW n \in Nat, NEW w, \A i \in 1 .. n : w[i] \in Nat,
         NEW sum, SumsUp(sum, w, n),
         NEW i \in 0 .. n, NEW j \in 0 .. n, i <= j
  PROVE  sum[i] <= sum[j]
<1> DEFINE bad == {m \in i .. n : sum[m] < sum[i]}
<1>0. \A m \in 0 .. n : sum[m] \in Nat
  BY DEF SumsUp
<1>1. ASSUME bad # {} PROVE FALSE
  <2>1. bad \in SUBSET Nat
    OBVIOUS
  <2>2. \A m \in bad : m \in i .. n /\ sum[m] < sum[i]
    OBVIOUS
  <2>3. \A m \in i .. n : m \notin bad => ~(sum[m] < sum[i])
    OBVIOUS
  <2> HIDE DEF bad
  <2>4. PICK m \in bad : \A k \in bad : m <= k
    BY <1>1, <2>1, NatHasLeast
  <2>5. m \in i .. n /\ sum[m] < sum[i]
    BY <2>2, <2>4
  <2>6. m # i
    BY <1>0, <2>5
  <2>7. PICK l : l = m - 1
    OBVIOUS
  <2>8. l \in i .. n /\ l \in 0 .. n /\ m \in 1 .. n /\ ~(m <= l)
    BY <2>5, <2>6, <2>7
  <2>9. ~(sum[l] < sum[i])
    BY <2>3, <2>4, <2>8
  <2>10. sum[m] = sum[l] + w[m] /\ w[m] \in Nat
    BY <2>7, <2>8 DEF SumsUp
  <2> QED
    BY <1>0, <2>5, <2>8, <2>9, <2>10
<1>2. j \in i .. n /\ j \notin bad
  BY <1>1
<1>3. ~(sum[j] < sum[i])
  BY <1>2
<1> QED
  BY <1>0, <1>3

-----------------------------------------------------------------------------
(* Folds.                                                                  *)
LEMMA MaxOfInterval ==
  ASSUME NEW n \in Nat, NEW s \in SUBSET (1 .. n), n \in s
  PROVE  Max(s) = n
<1>1. \A m \in s : n >= m
  OBVIOUS
<1>2. ASSUME NEW m \in s, \A k \in s : m >= k PROVE m = n
  BY <1>2
<1> QED
  BY <1>1, <1>2 DEF Max

(* What the recursion of a fold over n places asks of its function.        *)
FoldsOver(g, n, base, step) ==
    \A s \in SUBSET (1 .. n) :
        g[s] = IF s = {} THEN base ELSE step[Max(s)][g[s \ {Max(s)}]]

LEMMA FoldExtends ==
  ASSUME NEW m \in Nat, NEW D, NEW base \in D, NEW step, step[m + 1] \in [D -> D],
         NEW g \in [SUBSET (1 .. m) -> D], FoldsOver(g, m, base, step)
  PROVE  \E h \in [SUBSET (1 .. m + 1) -> D] : FoldsOver(h, m + 1, base, step)
<1> DEFINE h == [s \in SUBSET (1 .. m + 1) |->
                    IF m + 1 \in s THEN step[m + 1][g[s \ {m + 1}]] ELSE g[s]]
<1>1. ASSUME NEW s \in SUBSET (1 .. m + 1)
      PROVE  /\ m + 1 \notin s => s \in SUBSET (1 .. m)
             /\ s \ {m + 1} \in SUBSET (1 .. m) /\ s \ {m + 1} \in SUBSET (1 .. m + 1)
             /\ m + 1 \notin s \ {m + 1}
  OBVIOUS
<1>2. \A s \in SUBSET (1 .. m + 1) :
          h[s] = IF m + 1 \in s THEN step[m + 1][g[s \ {m + 1}]] ELSE g[s]
  OBVIOUS
<1>3. h \in [SUBSET (1 .. m + 1) -> D]
  <2>1. ASSUME NEW s \in SUBSET (1 .. m + 1)
        PROVE  (IF m + 1 \in s THEN step[m + 1][g[s \ {m + 1}]] ELSE g[s]) \in D
    BY <1>1
  <2> QED
    BY <2>1
<1> HIDE DEF h
<1>4. ASSUME NEW s \in SUBSET (1 .. m + 1)
      PROVE  h[s] = IF s = {} THEN base ELSE step[Max(s)][h[s \ {Max(s)}]]
  <2>1. CASE m + 1 \in s
    <3>1. Max(s) = m + 1 /\ s # {}
      BY <2>1, MaxOfInterval
    <3>2. h[s \ {m + 1}] = g[s \ {m + 1}]
      BY <1>1, <1>2
    <3> QED
      BY <1>2, <2>1, <3>1, <3>2
  <2>2. CASE m + 1 \notin s
    <3>1. s \in SUBSET (1 .. m) /\ h[s] = g[s]
      BY <1>1, <1>2, <2>2
    <3>2. /\ s \ {Max(s)} \in SUBSET (1 .. m + 1) /\ m + 1 \notin s \ {Max(s)}
      BY <2>2
    <3>3. h[s \ {Max(s)}] = g[s \ {Max(s)}]
      BY <1>2, <3>2
    <3> QED
      BY <3>1, <3>3 DEF FoldsOver
  <2> QED
    BY <2>1, <2>2
<1> QED
  BY <1>3, <1>4 DEF FoldsOver

LEMMA MaxIsIn ==
  ASSUME NEW n \in Nat, NEW s \in SUBSET (1 .. n), s # {}
  PROVE  Max(s) \in s /\ \A m \in s : Max(s) >= m
<1> DEFINE below == {j \in Nat : n - j \in s}
<1>1. below \in SUBSET Nat /\ below # {}
  <2>1. PICK m \in s : TRUE
    OBVIOUS
  <2>2. n - m \in below
    BY <2>1
  <2> QED
    BY <2>2
<1>2. PICK j \in below : \A k \in below : j <= k
  BY <1>1, NatHasLeast
<1>3. ASSUME NEW m \in s PROVE n - j >= m
  <2>1. n - m \in below
    OBVIOUS
  <2> QED
    BY <1>2, <2>1
<1>4. \E m \in s : \A k \in s : m >= k
  BY <1>2, <1>3
<1> QED
  BY <1>4 DEF Max

(* A fold over a sequence has a result.                                    *)
LEMMA FoldExists ==
  ASSUME NEW n \in Nat, NEW D, NEW base \in D, NEW step \in [1 .. n -> [D -> D]]
  PROVE  \E g \in [SUBSET (1 .. n) -> D] : FoldsOver(g, n, base, step)
<1> DEFINE Done(m) == \E g \in [SUBSET (1 .. m) -> D] : FoldsOver(g, m, base, step)
           P == {m \in 0 .. n : Done(m)}
<1>1. Done(0)
  <2>1. PICK g : g = [s \in SUBSET (1 .. 0) |-> base]
    OBVIOUS
  <2>2. g \in [SUBSET (1 .. 0) -> D]
    BY <2>1
  <2>3. \A s \in SUBSET (1 .. 0) : s = {} /\ g[s] = base
    BY <2>1
  <2> QED
    BY <2>2, <2>3 DEF FoldsOver
<1>2. ASSUME NEW m \in Nat, m + 1 \in 1 .. n, Done(m) PROVE Done(m + 1)
  <2>1. PICK g \in [SUBSET (1 .. m) -> D] : FoldsOver(g, m, base, step)
    BY <1>2
  <2>2. step[m + 1] \in [D -> D]
    BY <1>2
  <2> QED
    BY <2>1, <2>2, FoldExtends
<1> HIDE DEF Done
<1>3. 0 \in P
  BY <1>1
<1>4. ASSUME NEW k \in 1 .. n, k - 1 \in P PROVE k \in P
  <2>1. PICK m \in Nat : m = k - 1
    OBVIOUS
  <2>2. m + 1 = k
    BY <2>1
  <2>3. Done(m + 1)
    BY <1>2, <1>4, <2>1, <2>2
  <2> QED
    BY <2>2, <2>3
<1>5. \A k \in P : Done(k)
  OBVIOUS
<1> HIDE DEF P
<1>6. \A k \in 0 .. n : k \in P
  BY <1>3, <1>4, Climb
<1>7. Done(n)
  BY <1>5, <1>6
<1> QED
  BY <1>7 DEF Done

Follows(run, n, base, step) ==
    run[0] = base /\ \A i \in 1 .. n : run[i] = step[i][run[i - 1]]

Runs(f, n, D, base, step) ==
    \E run \in [0 .. n -> D] : Follows(run, n, base, step) /\ run[n] = f[1 .. n]

(* A function that solves the recursion is a run from place to place.      *)
Solves(f, n, D, base, step) ==
    /\ n \in Nat /\ base \in D /\ step \in [1 .. n -> [D -> D]]
    /\ f[{}] = base
    /\ \A t \in SUBSET (1 .. n) :
          t # {} /\ f[t \ {Max(t)}] \in D => f[t] = step[Max(t)][f[t \ {Max(t)}]]

LEMMA FoldRuns ==
  ASSUME NEW n, NEW D, NEW base, NEW step, NEW f, Solves(f, n, D, base, step)
  PROVE  Runs(f, n, D, base, step)
<1>s. n \in Nat /\ base \in D /\ step \in [1 .. n -> [D -> D]]
  BY DEF Solves
<1> DEFINE P == {k \in 0 .. n : f[1 .. k] \in D}
<1>1. f[1 .. 0] = base
  <2>1. 1 .. 0 = {}
    OBVIOUS
  <2> QED
    BY <1>s, <2>1 DEF Solves
<1>2. ASSUME NEW k \in 1 .. n
      PROVE  f[1 .. k - 1] \in D => f[1 .. k] = step[k][f[1 .. k - 1]]
  <2>0. PICK m \in Nat : m = n
    BY <1>s
  <2>1. 1 .. k \in SUBSET (1 .. n) /\ 1 .. k # {} /\ k \in Nat /\ k \in 1 .. k
    BY <2>0
  <2>2. Max(1 .. k) = k
    BY <2>1, MaxOfInterval
  <2>3. (1 .. k) \ {k} = 1 .. k - 1
    BY <1>s
  <2> QED
    BY <2>1, <2>2, <2>3 DEF Solves
<1>3. \A k \in P : f[1 .. k] \in D
  OBVIOUS
<1>4. 0 \in P
  BY <1>s, <1>1
<1>5. ASSUME NEW k \in 1 .. n, k - 1 \in P PROVE k \in P
  <2>1. f[1 .. k - 1] \in D /\ k \in 0 .. n
    BY <1>5
  <2>2. step[k][f[1 .. k - 1]] \in D
    BY <1>s, <2>1
  <2>3. f[1 .. k] \in D
    BY <1>2, <2>1, <2>2
  <2> QED
    BY <2>1, <2>3
<1> HIDE DEF P
<1>6. \A k \in 0 .. n : k \in P
  BY <1>s, <1>4, <1>5, Climb
<1> DEFINE run == [k \in 0 .. n |-> f[1 .. k]]
<1>7. run \in [0 .. n -> D]
  BY <1>3, <1>6
<1>8. run[0] = base /\ run[n] = f[1 .. n]
  BY <1>s, <1>1
<1>9. ASSUME NEW i \in 1 .. n PROVE run[i] = step[i][run[i - 1]]
  <2>1. i \in 0 .. n /\ i - 1 \in 0 .. n
    BY <1>s
  <2>2. f[1 .. i - 1] \in D
    BY <1>3, <1>6, <2>1
  <2> QED
    BY <1>2, <2>1, <2>2
<1> HIDE DEF run
<1> QED
  BY <1>7, <1>8, <1>9 DEF Follows, Runs
=============================================================================
