-------------------------- MODULE CaptureSync_proofs --------------------------
(***************************************************************************)
(* Proofs about CaptureSync, for any rules, captures, capacity and number  *)
(* of restarts, whatever overlaps and whichever saves fail.  They rest on  *)
(* where a capture may be: with its handler, pending, in a batch, in the   *)
(* store; it is in one of these places at a time.  Pages are about a       *)
(* buffer of whatever captures: sorted, cut and filtered.                  *)
(***************************************************************************)
EXTENDS CaptureSync, FoldLemmas, SequenceTheorems

-----------------------------------------------------------------------------
(* The invariant, of the buffer b and the rest of the state.               *)
Batch(t) == ToSet(flush[t].reqs)
Elsewhere == capturing \union Batch("run") \union Batch("close")
                       \union store \union ToSet(hydration.page)
Known(b) == Elsewhere \union Entries(b)

Waiting(b) == Ids(ToSet(b.pending))
Stored == Ids(store) \union Ids(ToSet(hydration.page))

(* An id names one capture, and was drawn for it.                          *)
Named(b) ==
    /\ \A x, y \in Known(b) : x.id = y.id => x = y
    /\ \A x \in Known(b) : x.id <= lastId
    /\ \A p \in ToSet(b.pending) :
          p.id <= lastId /\ \A x \in Known(b) : x.id = p.id => p = Ref(x)
    /\ \A r \in Rules : \A e \in ToSet(b.byRule[r]) : e.rule = r

(* It is with its handler, pending, in a batch or in the store.            *)
Apart(b) ==
    /\ \A x \in capturing : x.id \notin Waiting(b) \union Ids(Entries(b)) \union Stored
    /\ \A t \in Flushers : \A x \in Batch(t) :
          x.id \notin Waiting(b) \union Ids(capturing) \union Stored
    /\ \A x \in Batch("run") : x.id \notin Ids(Batch("close"))
    /\ Waiting(b) \intersect Stored = {}

(* The places of a list that hold this id.                                 *)
At(s, id) == {i \in DOMAIN s : s[i].id = id}
Single(s, id) == \A i, j \in At(s, id) : i = j

(* What is pending is held once, and with its body.                        *)
Tracked(b) ==
    /\ \A p \in ToSet(b.pending) : Single(b.byRule[p.rule], p.id)
    /\ \A e \in Entries(b) :
          e.id \in Waiting(b) /\ e.body => e.id \in b.bodies \intersect b.pendingBodies

(* What is held is pending, or was saved, or could not be.                 *)
Remembered(b) ==
    \A e \in Entries(b) :
        \/ e.id \in Waiting(b) \/ InBatch(e.id) \/ e \in store
        \/ e.id \in failed \/ Expired(e, now)

Owned(b) ==
    /\ b.bodies \subseteq Ids({e \in Entries(b) : e.body})
    /\ b.bodies \subseteq b.bodyTTL

(* A batch is taken with its bodies, and the store has what it was given.  *)
Delivered ==
    /\ \A t \in Flushers :
          /\ flush[t].at # "save" => flush[t].reqs = << >>
          /\ \A e \in Batch(t) : e.body => e.id \in flush[t].bodies
    /\ ~closed => flush["close"].at = "idle"
    /\ IsFiniteSet(store)
    /\ \A e \in store : e.body => e.id \in storeBodies \union failed
    /\ \A e \in ToSet(hydration.page) : e \in store \/ Expired(e, now)

(* The rules' lists and the order tell the same story.                     *)
Refs(s) == [i \in DOMAIN s |-> Ref(s[i])]
OfRule(r) == [rule : {r}, id : Id]
Mirrors(b) == \A r \in Rules : Refs(b.byRule[r]) = Only(b.order, OfRule(r))

Kept(b) == Named(b) /\ Apart(b) /\ Tracked(b) /\ Remembered(b) /\ Owned(b)

IInv == TypeOK /\ Kept(buf) /\ Delivered /\ Mirrors(buf) /\ Len(buf.order) <= BufferCap

-----------------------------------------------------------------------------
(* Only, as a run along the sequence.                                      *)
Keeps(run, s, n, K) ==
    /\ run[0] = << >>
    /\ \A i \in 1 .. n :
          run[i] = IF s[i] \in K THEN Append(run[i - 1], s[i]) ELSE run[i - 1]

OnlyIsRun(S, s, K) ==
    \E n \in Nat : \E run \in [0 .. n -> Seq(S)] :
        n = Len(s) /\ Keeps(run, s, n, K) /\ run[n] = Only(s, K)

LEMMA OnlyRuns ==
  ASSUME NEW S, NEW s \in Seq(S), NEW K
  PROVE  OnlyIsRun(S, s, K)
<1> DEFINE n == Len(s)
           step == [i \in 1 .. n |->
                      [q \in Seq(S) |-> IF s[i] \in K THEN Append(q, s[i]) ELSE q]]
           Fix(f) == f = [t \in SUBSET (1 .. n) |->
                            IF t = {} THEN << >>
                            ELSE IF s[Max(t)] \in K THEN Append(f[t \ {Max(t)}], s[Max(t)])
                                 ELSE f[t \ {Max(t)}]]
           f == CHOOSE f : Fix(f)
<1>1. n \in Nat /\ DOMAIN s = 1 .. n /\ \A i \in 1 .. n : s[i] \in S
  OBVIOUS
<1>2. Only(s, K) = f[1 .. n]
  BY <1>1 DEF Only, FoldLeft, MapThenFoldSet
<1>3. step \in [1 .. n -> [Seq(S) -> Seq(S)]]
  BY <1>1
<1>4. \A i \in 1 .. n, q \in Seq(S) : step[i][q] = IF s[i] \in K THEN Append(q, s[i]) ELSE q
  OBVIOUS
<1> HIDE DEF n, step
<1>5. PICK g \in [SUBSET (1 .. n) -> Seq(S)] : FoldsOver(g, n, << >>, step)
  BY <1>1, <1>3, FoldExists, EmptySeq
<1>6. Fix(g)
  <2>1. ASSUME NEW t \in SUBSET (1 .. n), t # {}
        PROVE  g[t] = IF s[Max(t)] \in K THEN Append(g[t \ {Max(t)}], s[Max(t)])
                      ELSE g[t \ {Max(t)}]
    <3>1. Max(t) \in 1 .. n
      BY <1>1, <2>1, MaxIsIn
    <3>2. t \ {Max(t)} \in SUBSET (1 .. n) /\ g[t \ {Max(t)}] \in Seq(S)
      BY <1>5
    <3> QED
      BY <1>4, <1>5, <2>1, <3>1, <3>2 DEF FoldsOver
  <2>2. \A t \in SUBSET (1 .. n) : t = {} => g[t] = << >>
    BY <1>5 DEF FoldsOver
  <2> QED
    BY <1>5, <2>1, <2>2
<1>7. Fix(f)
  <2> HIDE DEF Fix
  <2> QED
    BY <1>6
<1> HIDE DEF f
<1>8. f[{}] = << >>
  BY <1>7
<1>9. ASSUME NEW t \in SUBSET (1 .. n), t # {}, f[t \ {Max(t)}] \in Seq(S)
      PROVE  f[t] = step[Max(t)][f[t \ {Max(t)}]]
  <2>1. Max(t) \in 1 .. n
    BY <1>1, <1>9, MaxIsIn
  <2> QED
    BY <1>4, <1>7, <1>9, <2>1
<1> HIDE DEF Fix
<1>10. Solves(f, n, Seq(S), << >>, step)
  BY <1>1, <1>3, <1>8, <1>9, EmptySeq DEF Solves
<1>r. PICK run \in [0 .. n -> Seq(S)] : Follows(run, n, << >>, step) /\ run[n] = f[1 .. n]
  BY <1>10, FoldRuns DEF Runs
<1>11. ASSUME NEW i \in 1 .. n
       PROVE  run[i] = IF s[i] \in K THEN Append(run[i - 1], s[i]) ELSE run[i - 1]
  <2>1. run[i - 1] \in Seq(S)
    BY <1>1, <1>r
  <2> QED
    BY <1>4, <1>r, <2>1 DEF Follows
<1> QED
  BY <1>1, <1>2, <1>r, <1>11 DEF Keeps, Follows, OnlyIsRun, n

LEMMA OnlyEmpty == ASSUME NEW K PROVE Only(<< >>, K) = << >>
<1>1. << >> \in Seq(Nat) /\ Len(<< >>) = 0
  OBVIOUS
<1>2. OnlyIsRun(Nat, << >>, K)
  BY <1>1, OnlyRuns
<1> QED
  BY <1>1, <1>2 DEF Keeps, OnlyIsRun

LEMMA OnlyAppend ==
  ASSUME NEW S, NEW s \in Seq(S), NEW x \in S, NEW K
  PROVE  Only(Append(s, x), K) = IF x \in K THEN Append(Only(s, K), x) ELSE Only(s, K)
<1>0. PICK t : t = Append(s, x)
  OBVIOUS
<1>t. t \in Seq(S)
  BY <1>0
<1>o. OnlyIsRun(S, s, K) /\ OnlyIsRun(S, t, K)
  BY <1>t, OnlyRuns
<1>2. PICK n \in Nat : \E run \in [0 .. n -> Seq(S)] :
          n = Len(s) /\ Keeps(run, s, n, K) /\ run[n] = Only(s, K)
  BY <1>o DEF OnlyIsRun
<1>r. PICK run \in [0 .. n -> Seq(S)] : Keeps(run, s, n, K) /\ run[n] = Only(s, K)
  BY <1>2
<1>3. PICK m \in Nat : \E more \in [0 .. m -> Seq(S)] :
          m = Len(t) /\ Keeps(more, t, m, K) /\ more[m] = Only(t, K)
  BY <1>o DEF OnlyIsRun
<1>m. PICK more \in [0 .. m -> Seq(S)] : Keeps(more, t, m, K) /\ more[m] = Only(t, K)
  BY <1>3
<1>1. m = n + 1 /\ t[m] = x /\ \A i \in 1 .. n : t[i] = s[i]
  <2>1. n = Len(s) /\ m = Len(t)
    BY <1>2, <1>3
  <2> QED
    BY <1>0, <2>1
<1> DEFINE P == {k \in 0 .. n : more[k] = run[k]}
<1>4. 0 \in P
  BY <1>1, <1>r, <1>m DEF Keeps
<1>5. ASSUME NEW k \in 1 .. n, k - 1 \in P PROVE k \in P
  <2>1. more[k - 1] = run[k - 1] /\ k \in 1 .. m /\ t[k] = s[k]
    <3>1. m = n + 1 /\ t[k] = s[k]
      BY <1>1
    <3> QED
      BY <1>5, <3>1
  <2>2. more[k] = run[k]
    BY <1>1, <1>r, <1>m, <2>1 DEF Keeps
  <2> QED
    BY <2>2
<1>6. \A k \in P : more[k] = run[k]
  OBVIOUS
<1> HIDE DEF P
<1>7. \A k \in 0 .. n : k \in P
  BY <1>1, <1>4, <1>5, Climb
<1>8. more[n] = run[n]
  <2>1. n \in P
    BY <1>7
  <2> QED
    BY <1>6, <2>1
<1>9. more[m] = IF t[m] \in K THEN Append(more[m - 1], t[m]) ELSE more[m - 1]
  <2>1. m \in 1 .. m
    BY <1>1
  <2> QED
    BY <1>m, <2>1 DEF Keeps
<1>10. m - 1 = n
  BY <1>1
<1> QED
  BY <1>0, <1>1, <1>r, <1>m, <1>8, <1>9, <1>10

(* Induction on sequences, on a set.                                       *)
LEMMA SeqClimb ==
  ASSUME NEW S, NEW P, << >> \in P, \A q \in Seq(S), x \in S : q \in P => Append(q, x) \in P
  PROVE  \A s \in Seq(S) : s \in P
<1> SUFFICES ASSUME NEW s \in Seq(S) PROVE s \in P
  OBVIOUS
<1>1. PICK n \in Nat : n = Len(s)
  OBVIOUS
<1>2. SubSeq(s, 1, 0) = << >> /\ SubSeq(s, 1, n) = s
  <2>1. \A i \in 1 .. n : SubSeq(s, 1, n)[i] = s[i]
    BY <1>1
  <2>2. SubSeq(s, 1, n) \in Seq(S) /\ Len(SubSeq(s, 1, n)) = n
    BY <1>1
  <2> QED
    BY <1>1, <2>1, <2>2, SeqEqual
<1> DEFINE Q == {k \in 0 .. n : SubSeq(s, 1, k) \in P}
<1>3. 0 \in Q
  <2>1. 0 \in 0 .. n
    OBVIOUS
  <2> QED
    BY <1>2, <2>1
<1>4. ASSUME NEW k \in 1 .. n, k - 1 \in Q PROVE k \in Q
  <2>1. SubSeq(s, 1, k - 1) \in P /\ SubSeq(s, 1, k - 1) \in Seq(S) /\ s[k] \in S
    BY <1>1, <1>4
  <2>2. SubSeq(s, 1, k) = Append(SubSeq(s, 1, k - 1), s[k])
    BY <1>1
  <2>3. SubSeq(s, 1, k) \in P
    <3>1. PICK q \in Seq(S) : q = SubSeq(s, 1, k - 1)
      BY <2>1
    <3> QED
      BY <2>1, <2>2, <3>1
  <2>4. k \in 0 .. n
    OBVIOUS
  <2> QED
    BY <2>3, <2>4
<1>5. \A k \in Q : SubSeq(s, 1, k) \in P
  OBVIOUS
<1> HIDE DEF Q
<1>6. \A k \in 0 .. n : k \in Q
  BY <1>3, <1>4, Climb
<1>7. n \in Q
  BY <1>6
<1> QED
  BY <1>2, <1>5, <1>7

LEMMA AppendFacts ==
  ASSUME NEW S, NEW s \in Seq(S), NEW x \in S
  PROVE  /\ Append(s, x) \in Seq(S) /\ Len(Append(s, x)) = Len(s) + 1 /\ Len(s) \in Nat
         /\ DOMAIN Append(s, x) = 1 .. Len(s) + 1 /\ DOMAIN s = 1 .. Len(s)
         /\ Append(s, x)[Len(s) + 1] = x /\ \A i \in 1 .. Len(s) : Append(s, x)[i] = s[i]
         /\ ToSet(Append(s, x)) = ToSet(s) \union {x}
<1>1. /\ Append(s, x) \in Seq(S) /\ Len(Append(s, x)) = Len(s) + 1 /\ Len(s) \in Nat
      /\ DOMAIN Append(s, x) = 1 .. Len(s) + 1 /\ DOMAIN s = 1 .. Len(s)
      /\ Append(s, x)[Len(s) + 1] = x /\ \A i \in 1 .. Len(s) : Append(s, x)[i] = s[i]
  OBVIOUS
<1> DEFINE t == Append(s, x)
           n == Len(s)
<1> HIDE DEF t, n
<1>2. ToSet(t) = ToSet(s) \union {x}
  <2>1. 1 .. n + 1 = (1 .. n) \union {n + 1}
    BY <1>1 DEF n
  <2> QED
    BY <1>1, <2>1 DEF ToSet, t, n
<1> QED
  BY <1>1, <1>2 DEF t

LEMMA OnlyType ==
  ASSUME NEW S, NEW s \in Seq(S), NEW K
  PROVE  /\ Only(s, K) \in Seq(S) /\ Len(Only(s, K)) <= Len(s) 
         /\ ToSet(Only(s, K)) = ToSet(s) \intersect K
<1> DEFINE Good(q) == /\ Only(q, K) \in Seq(S) /\ Len(Only(q, K)) <= Len(q)
                      /\ ToSet(Only(q, K)) = ToSet(q) \intersect K
           P == {q \in Seq(S) : Good(q)}
<1>1. Good(<< >>)
  <2>1. PICK e : e = << >>
    OBVIOUS
  <2>2. Only(e, K) = e /\ ToSet(e) = {} /\ e \in Seq(S) /\ Len(e) = 0
    BY <2>1, OnlyEmpty DEF ToSet
  <2>3. Good(e)
    BY <2>2
  <2> QED
    BY <2>1, <2>3
<1>2. ASSUME NEW q \in Seq(S), NEW x \in S, Good(q) PROVE Good(Append(q, x))
  <2>1. PICK o \in Seq(S) : o = Only(q, K)
    BY <1>2
  <2>2. Only(Append(q, x), K) = IF x \in K THEN Append(o, x) ELSE o
    BY <2>1, OnlyAppend
  <2>3. ToSet(Append(q, x)) = ToSet(q) \union {x} /\ ToSet(Append(o, x)) = ToSet(o) \union {x}
    BY AppendFacts
  <2>4. /\ Append(o, x) \in Seq(S) /\ Len(Append(o, x)) = Len(o) + 1 /\ Len(o) \in Nat
        /\ Len(Append(q, x)) = Len(q) + 1 /\ Len(q) \in Nat
    BY AppendFacts
  <2>5. Len(o) <= Len(q) /\ ToSet(o) = ToSet(q) \intersect K
    BY <1>2, <2>1
  <2> QED
    BY <2>2, <2>3, <2>4, <2>5
<1> HIDE DEF Good
<1>3. << >> \in P /\ \A q \in Seq(S), x \in S : q \in P => Append(q, x) \in P
  BY <1>1, <1>2, AppendFacts, EmptySeq
<1>4. \A q \in P : Good(q)
  OBVIOUS
<1> HIDE DEF P
<1>5. s \in P
  BY <1>3, SeqClimb
<1> QED
  BY <1>4, <1>5 DEF Good

(* Only looks at nothing but membership.                                   *)
LEMMA OnlySame ==
  ASSUME NEW S, NEW s \in Seq(S), NEW K, NEW L, \A x \in ToSet(s) : x \in K <=> x \in L
  PROVE  Only(s, K) = Only(s, L)
<1> DEFINE Good(q) == (\A x \in ToSet(q) : x \in K <=> x \in L) => Only(q, K) = Only(q, L)
           P == {q \in Seq(S) : Good(q)}
<1>1. Good(<< >>)
  BY OnlyEmpty
<1>2. ASSUME NEW q \in Seq(S), NEW x \in S, Good(q) PROVE Good(Append(q, x))
  <2> SUFFICES ASSUME \A y \in ToSet(Append(q, x)) : y \in K <=> y \in L
               PROVE  Only(Append(q, x), K) = Only(Append(q, x), L)
    OBVIOUS
  <2>1. ToSet(Append(q, x)) = ToSet(q) \union {x}
    BY AppendFacts
  <2>2. Only(q, K) = Only(q, L) /\ (x \in K <=> x \in L)
    BY <1>2, <2>1
  <2>3. Only(Append(q, x), K) = IF x \in K THEN Append(Only(q, K), x) ELSE Only(q, K)
    BY OnlyAppend
  <2>4. Only(Append(q, x), L) = IF x \in L THEN Append(Only(q, L), x) ELSE Only(q, L)
    BY OnlyAppend
  <2> QED
    BY <2>2, <2>3, <2>4
<1> HIDE DEF Good
<1>3. << >> \in P /\ \A q \in Seq(S), x \in S : q \in P => Append(q, x) \in P
  BY <1>1, <1>2, AppendFacts, EmptySeq
<1>4. \A q \in P : Good(q)
  OBVIOUS
<1> HIDE DEF P
<1>5. s \in P
  BY <1>3, SeqClimb
<1> QED
  BY <1>4, <1>5 DEF Good

LEMMA OnlyAll ==
  ASSUME NEW S, NEW s \in Seq(S), NEW K, ToSet(s) \subseteq K
  PROVE  Only(s, K) = s
<1> DEFINE Good(q) == ToSet(q) \subseteq K => Only(q, K) = q
           P == {q \in Seq(S) : Good(q)}
<1>1. Good(<< >>)
  BY OnlyEmpty
<1>2. ASSUME NEW q \in Seq(S), NEW x \in S, Good(q) PROVE Good(Append(q, x))
  BY <1>2, OnlyAppend, AppendFacts
<1> HIDE DEF Good
<1>3. << >> \in P /\ \A q \in Seq(S), x \in S : q \in P => Append(q, x) \in P
  BY <1>1, <1>2, AppendFacts, EmptySeq
<1>4. \A q \in P : Good(q)
  OBVIOUS
<1> HIDE DEF P
<1>5. s \in P
  BY <1>3, SeqClimb
<1> QED
  BY <1>4, <1>5 DEF Good

LEMMA OnlyNone ==
  ASSUME NEW S, NEW s \in Seq(S), NEW K, ToSet(s) \intersect K = {}
  PROVE  Only(s, K) = << >>
<1>1. PICK o \in Seq(S) : o = Only(s, K) /\ ToSet(o) = {}
  BY OnlyType
<1>2. o = << >>
  <2>1. Len(o) \in Nat /\ DOMAIN o = 1 .. Len(o)
    OBVIOUS
  <2>2. ~(1 \in DOMAIN o)
    BY <1>1 DEF ToSet
  <2> QED
    BY <2>1, <2>2
<1> QED
  BY <1>1, <1>2

LEMMA OnlyOnly ==
  ASSUME NEW S, NEW s \in Seq(S), NEW K, NEW L
  PROVE  Only(Only(s, K), L) = Only(s, K \intersect L)
<1> DEFINE Good(q) == Only(Only(q, K), L) = Only(q, K \intersect L)
           P == {q \in Seq(S) : Good(q)}
<1>1. Good(<< >>)
  BY OnlyEmpty
<1>2. ASSUME NEW q \in Seq(S), NEW x \in S, Good(q) PROVE Good(Append(q, x))
  <2>1. PICK o \in Seq(S) : o = Only(q, K)
    BY OnlyType
  <2>2. Only(Append(q, x), K) = IF x \in K THEN Append(o, x) ELSE o
    BY <2>1, OnlyAppend
  <2>3. Only(Append(o, x), L) = IF x \in L THEN Append(Only(o, L), x) ELSE Only(o, L)
    BY OnlyAppend
  <2>4. Only(Append(q, x), K \intersect L) =
            IF x \in K \intersect L THEN Append(Only(q, K \intersect L), x)
            ELSE Only(q, K \intersect L)
    BY OnlyAppend
  <2> QED
    BY <1>2, <2>1, <2>2, <2>3, <2>4
<1> HIDE DEF Good
<1>3. << >> \in P /\ \A q \in Seq(S), x \in S : q \in P => Append(q, x) \in P
  BY <1>1, <1>2, AppendFacts, EmptySeq
<1>4. \A q \in P : Good(q)
  OBVIOUS
<1> HIDE DEF P
<1>5. s \in P
  BY <1>3, SeqClimb
<1> QED
  BY <1>4, <1>5 DEF Good

(* A sequence without the element at a place.                              *)
LEMMA RemoveAtFacts ==
  ASSUME NEW S, NEW s \in Seq(S), NEW i \in 1 .. Len(s)
  PROVE  /\ RemoveAt(s, i) \in Seq(S) /\ Len(RemoveAt(s, i)) = Len(s) - 1
         /\ \A j \in 1 .. Len(s) - 1 : RemoveAt(s, i)[j] = IF j < i THEN s[j] ELSE s[j + 1]
<1>1. PICK n \in Nat : n = Len(s)
  OBVIOUS
<1>2. PICK a, b : a = SubSeq(s, 1, i - 1) /\ b = SubSeq(s, i + 1, n)
  OBVIOUS
<1>3. a \in Seq(S) /\ Len(a) = i - 1 /\ \A j \in 1 .. i - 1 : a[j] = s[j]
  BY <1>1, <1>2
<1>4. b \in Seq(S) /\ Len(b) = n - i /\ \A j \in 1 .. n - i : b[j] = s[i + j]
  BY <1>1, <1>2
<1>5. /\ a \o b \in Seq(S) /\ Len(a \o b) = n - 1
      /\ \A j \in 1 .. n - 1 : (a \o b)[j] = IF j <= i - 1 THEN a[j] ELSE b[j - (i - 1)]
  BY <1>1, <1>3, <1>4, ConcatProperties
<1>6. RemoveAt(s, i) = a \o b
  BY <1>1, <1>2 DEF RemoveAt
<1>7. ASSUME NEW j \in 1 .. n - 1 PROVE (a \o b)[j] = IF j < i THEN s[j] ELSE s[j + 1]
  <2>1. CASE j < i
    BY <1>1, <1>3, <1>5, <2>1
  <2>2. CASE ~(j < i)
    <3>1. j - (i - 1) \in 1 .. n - i /\ i + (j - (i - 1)) = j + 1 /\ ~(j <= i - 1)
      BY <1>1, <2>2
    <3> QED
      BY <1>4, <1>5, <2>2, <3>1
  <2> QED
    BY <2>1, <2>2
<1> QED
  BY <1>1, <1>5, <1>6, <1>7

LEMMA RemoveAtAppend ==
  ASSUME NEW S, NEW q \in Seq(S), NEW x \in S
  PROVE  /\ RemoveAt(Append(q, x), Len(q) + 1) = q
         /\ \A i \in 1 .. Len(q) : RemoveAt(Append(q, x), i) = Append(RemoveAt(q, i), x)
<1>1. PICK n \in Nat : n = Len(q)
  OBVIOUS
<1>2. PICK t : t = Append(q, x)
  OBVIOUS
<1>3. t \in Seq(S) /\ Len(t) = n + 1 /\ t[n + 1] = x /\ \A i \in 1 .. n : t[i] = q[i]
  BY <1>1, <1>2
<1>4. RemoveAt(t, n + 1) = q
  <2>1. n + 1 \in 1 .. Len(t)
    BY <1>3
  <2>2. PICK u \in Seq(S) : u = RemoveAt(t, n + 1)
    BY <1>3, <2>1, RemoveAtFacts
  <2>3. Len(u) = n /\ \A j \in 1 .. n : u[j] = IF j < n + 1 THEN t[j] ELSE t[j + 1]
    <3>1. /\ Len(u) = Len(t) - 1
          /\ \A j \in 1 .. Len(t) - 1 : u[j] = IF j < n + 1 THEN t[j] ELSE t[j + 1]
      BY <1>3, <2>1, <2>2, RemoveAtFacts
    <3>2. Len(t) - 1 = n
      BY <1>3
    <3> QED
      BY <3>1, <3>2
  <2>4. \A j \in 1 .. n : u[j] = q[j]
    BY <1>3, <2>3
  <2> QED
    BY <1>1, <2>2, <2>3, <2>4, SeqEqual
<1>5. ASSUME NEW i \in 1 .. n PROVE RemoveAt(t, i) = Append(RemoveAt(q, i), x)
  <2>1. i \in 1 .. Len(t) /\ i \in 1 .. Len(q)
    BY <1>1, <1>3
  <2>2. PICK u \in Seq(S) : u = RemoveAt(t, i)
    BY <1>3, <2>1, RemoveAtFacts
  <2>3. Len(u) = n /\ \A j \in 1 .. n : u[j] = IF j < i THEN t[j] ELSE t[j + 1]
    <3>1. /\ Len(u) = Len(t) - 1
          /\ \A j \in 1 .. Len(t) - 1 : u[j] = IF j < i THEN t[j] ELSE t[j + 1]
      BY <1>3, <2>1, <2>2, RemoveAtFacts
    <3>2. Len(t) - 1 = n
      BY <1>3
    <3> QED
      BY <3>1, <3>2
  <2>4. PICK v \in Seq(S) : v = RemoveAt(q, i)
    BY <1>3, <2>1, RemoveAtFacts
  <2>5. Len(v) = n - 1 /\ \A j \in 1 .. n - 1 : v[j] = IF j < i THEN q[j] ELSE q[j + 1]
    BY <1>1, <2>1, <2>4, RemoveAtFacts
  <2>6. PICK w : w = Append(v, x)
    OBVIOUS
  <2>7. w \in Seq(S) /\ Len(w) = n /\ w[n] = x /\ \A j \in 1 .. n - 1 : w[j] = v[j]
    BY <2>4, <2>5, <2>6
  <2>8. ASSUME NEW j \in 1 .. n PROVE u[j] = w[j]
    <3>1. CASE j = n
      BY <1>3, <2>3, <2>7, <3>1
    <3>2. CASE j # n
      <4>1. j \in 1 .. n - 1 /\ j + 1 \in 1 .. n
        BY <3>2
      <4> QED
        BY <1>3, <2>3, <2>5, <2>7, <4>1
    <3> QED
      BY <3>1, <3>2
  <2>9. u = w
    BY <2>2, <2>3, <2>7, <2>8, SeqEqual
  <2> QED
    BY <2>2, <2>4, <2>6, <2>9
<1> QED
  BY <1>1, <1>2, <1>4, <1>5

(* Without an element outside K, Only sees no difference; without the      *)
(* first one in K, it loses its head.                                      *)
LEMMA OnlyRemove ==
  ASSUME NEW S, NEW s \in Seq(S), NEW K, NEW i \in 1 .. Len(s)
  PROVE  /\ s[i] \notin K => Only(RemoveAt(s, i), K) = Only(s, K)
         /\ s[i] \in K /\ (\A j \in 1 .. i - 1 : s[j] \notin K) =>
                /\ Only(s, K) # << >> /\ Head(Only(s, K)) = s[i]
                /\ Only(RemoveAt(s, i), K) = Tail(Only(s, K))
<1> DEFINE Skips(q, k) == q[k] \notin K => Only(RemoveAt(q, k), K) = Only(q, K)
           First(q, k) == q[k] \in K /\ \A j \in 1 .. k - 1 : q[j] \notin K
           Loses(q, k) == First(q, k) => /\ Only(q, K) # << >> /\ Head(Only(q, K)) = q[k]
                                         /\ Only(RemoveAt(q, k), K) = Tail(Only(q, K))
           Good(q) == \A k \in 1 .. Len(q) : Skips(q, k) /\ Loses(q, k)
           P == {q \in Seq(S) : Good(q)}
<1>1. Good(<< >>)
  OBVIOUS
<1>2. ASSUME NEW q \in Seq(S), NEW x \in S, Good(q) PROVE Good(Append(q, x))
  <2> DEFINE t == Append(q, x)
             n == Len(q)
  <2>1. n \in Nat /\ Len(t) = n + 1 /\ t[n + 1] = x /\ \A k \in 1 .. n : t[k] = q[k]
    BY AppendFacts
  <2>2. /\ RemoveAt(t, n + 1) = q
        /\ \A k \in 1 .. n : RemoveAt(t, k) = Append(RemoveAt(q, k), x)
    BY RemoveAtAppend
  <2>3. Only(t, K) = IF x \in K THEN Append(Only(q, K), x) ELSE Only(q, K)
    BY OnlyAppend
  <2>4. \A k \in 1 .. n : Only(Append(RemoveAt(q, k), x), K) =
            IF x \in K THEN Append(Only(RemoveAt(q, k), K), x) ELSE Only(RemoveAt(q, k), K)
    BY RemoveAtFacts, OnlyAppend
  <2>5. PICK o \in Seq(S) : o = Only(q, K)
    BY OnlyType
  <2> HIDE DEF t, n
  <2>6. Skips(t, n + 1) /\ Loses(t, n + 1)
    <3>1. Skips(t, n + 1)
      BY <2>1, <2>2, <2>3
    <3>2. ASSUME First(t, n + 1)
          PROVE  /\ Only(t, K) # << >> /\ Head(Only(t, K)) = t[n + 1]
                 /\ Only(RemoveAt(t, n + 1), K) = Tail(Only(t, K))
      <4>1. x \in K /\ \A j \in 1 .. n : q[j] \notin K
        BY <2>1, <3>2
      <4>2. ToSet(q) \intersect K = {}
        BY <4>1 DEF ToSet, n
      <4>3. Only(q, K) = << >>
        BY <4>2, OnlyNone
      <4>4. Only(t, K) = << x >>
        BY <2>3, <4>1, <4>3
      <4> QED
        BY <2>1, <2>2, <4>3, <4>4
    <3> QED
      BY <3>1, <3>2
  <2>7. ASSUME NEW k \in 1 .. n PROVE Skips(t, k) /\ Loses(t, k)
    <3>1. Skips(q, k) /\ Loses(q, k)
      BY <1>2 DEF n
    <3>2. Skips(t, k)
      BY <2>1, <2>2, <2>3, <2>4, <3>1
    <3>3. ASSUME First(t, k)
          PROVE  /\ Only(t, K) # << >> /\ Head(Only(t, K)) = t[k]
                 /\ Only(RemoveAt(t, k), K) = Tail(Only(t, K))
      <4>1. First(q, k)
        <5>1. \A j \in 1 .. k - 1 : t[j] = q[j]
          BY <2>1
        <5> QED
          BY <2>1, <3>3, <5>1
      <4>2. o # << >> /\ Head(o) = q[k] /\ Only(RemoveAt(q, k), K) = Tail(o)
        BY <2>5, <3>1, <4>1
      <4>3. Append(o, x) # << >> /\ Head(Append(o, x)) = q[k] /\ Tail(Append(o, x)) = Append(Tail(o), x)
        <5>1. Len(o) \in Nat \ {0} /\ Head(o) = o[1]
          BY <4>2
        <5>2. PICK u : u = Append(o, x)
          OBVIOUS
        <5>3. u \in Seq(S) /\ Len(u) = Len(o) + 1 /\ \A j \in 1 .. Len(o) : u[j] = o[j]
          BY <5>2, AppendFacts
        <5>4. u # << >> /\ Head(u) = o[1]
          BY <5>1, <5>3
        <5>5. Tail(Append(o, x)) = Append(Tail(o), x)
          BY <5>1
        <5> QED
          BY <4>2, <5>1, <5>2, <5>4, <5>5
      <4> QED
        BY <2>1, <2>2, <2>3, <2>4, <2>5, <4>2, <4>3
    <3> QED
      BY <3>2, <3>3
  <2>8. \A k \in 1 .. n + 1 : k = n + 1 \/ k \in 1 .. n
    BY <2>1
  <2>9. \A k \in 1 .. n + 1 : Skips(t, k) /\ Loses(t, k)
    BY <2>6, <2>7, <2>8
  <2>10. Good(t)
    BY <2>1, <2>9
  <2> QED
    BY <2>10 DEF t
<1>3. \A q \in P : Good(q)
  OBVIOUS
<1>4. << >> \in P /\ \A q \in Seq(S), x \in S : q \in P => Append(q, x) \in P
  <2> HIDE DEF Good
  <2> QED
    BY <1>1, <1>2, AppendFacts, EmptySeq
<1> HIDE DEF P
<1>5. s \in P
  BY <1>4, SeqClimb
<1>6. Skips(s, i) /\ Loses(s, i)
  BY <1>3, <1>5
<1> QED
  BY <1>6

-----------------------------------------------------------------------------
(* Captures leaving the buffer.                                            *)
FirstAt(s, id) == SelectInSeq(s, LAMBDA e : e.id = id)
Without(s, id) == RemoveFirstMatch(s, LAMBDA e : e.id = id)

LEMMA FirstFacts ==
  ASSUME NEW S, NEW s \in Seq(S), NEW id, \E i \in 1 .. Len(s) : s[i].id = id
  PROVE  /\ FirstAt(s, id) \in 1 .. Len(s) /\ s[FirstAt(s, id)].id = id
         /\ \A j \in 1 .. FirstAt(s, id) - 1 : s[j].id # id
         /\ Without(s, id) = RemoveAt(s, FirstAt(s, id))
<1> DEFINE T == {i \in 1 .. Len(s) : s[i].id = id}
<1>1. T \in SUBSET Nat /\ T # {}
  OBVIOUS
<1>2. PICK n \in T : \A m \in T : n <= m
  BY <1>1, NatHasLeast
<1>3. ASSUME NEW m \in T, \A k \in T : m <= k PROVE m = n
  BY <1>2, <1>3
<1>4. FirstAt(s, id) = n
  BY <1>1, <1>2, <1>3 DEF FirstAt, SelectInSeq, Min
<1>5. Without(s, id) = RemoveAt(s, FirstAt(s, id))
  BY DEF Without, RemoveFirstMatch, FirstAt
<1> QED
  BY <1>2, <1>4, <1>5

(* What is left of a sequence that lost one place.                         *)
LEMMA RemoveAtSet ==
  ASSUME NEW S, NEW s \in Seq(S), NEW i \in 1 .. Len(s)
  PROVE  /\ ToSet(RemoveAt(s, i)) = {s[j] : j \in (1 .. Len(s)) \ {i}}
         /\ ToSet(s) = ToSet(RemoveAt(s, i)) \union {s[i]}
         /\ DOMAIN RemoveAt(s, i) = 1 .. Len(s) - 1
<1>1. PICK n \in Nat : n = Len(s)
  OBVIOUS
<1>2. PICK t \in Seq(S) : t = RemoveAt(s, i)
  BY RemoveAtFacts
<1>3. Len(t) = n - 1 /\ \A j \in 1 .. n - 1 : t[j] = IF j < i THEN s[j] ELSE s[j + 1]
  BY <1>1, <1>2, RemoveAtFacts
<1>4. DOMAIN t = 1 .. n - 1 /\ DOMAIN s = 1 .. n
  BY <1>1, <1>3
<1>5. ToSet(t) = {s[j] : j \in (1 .. n) \ {i}}
  <2>1. ASSUME NEW k \in 1 .. n - 1 PROVE \E j \in (1 .. n) \ {i} : t[k] = s[j]
    <3>1. CASE k < i
      <4>1. k \in (1 .. n) \ {i}
        BY <1>1, <3>1
      <4> QED
        BY <1>3, <3>1, <4>1
    <3>2. CASE ~(k < i)
      <4>1. k + 1 \in (1 .. n) \ {i}
        BY <1>1, <3>2
      <4> QED
        BY <1>3, <3>2, <4>1
    <3> QED
      BY <3>1, <3>2
  <2>2. ASSUME NEW j \in (1 .. n) \ {i} PROVE \E k \in 1 .. n - 1 : t[k] = s[j]
    <3>1. CASE j < i
      <4>1. j \in 1 .. n - 1
        BY <1>1, <3>1
      <4> QED
        BY <1>3, <3>1, <4>1
    <3>2. CASE ~(j < i)
      <4>1. j - 1 \in 1 .. n - 1 /\ ~(j - 1 < i) /\ (j - 1) + 1 = j
        BY <1>1, <3>2
      <4> QED
        BY <1>3, <4>1
    <3> QED
      BY <3>1, <3>2
  <2> QED
    BY <1>4, <2>1, <2>2 DEF ToSet
<1>6. ToSet(s) = ToSet(t) \union {s[i]}
  BY <1>1, <1>4, <1>5 DEF ToSet
<1> QED
  BY <1>1, <1>2, <1>4, <1>5, <1>6

LEMMA RemoveFirstFacts ==
  ASSUME NEW S, NEW s \in Seq(S), NEW x
  PROVE  /\ RemoveFirst(s, x) \in Seq(S)
         /\ ToSet(RemoveFirst(s, x)) \subseteq ToSet(s)
         /\ ToSet(s) \subseteq ToSet(RemoveFirst(s, x)) \union {x}
<1>1. CASE \E i \in 1 .. Len(s) : s[i] = x
  <2> DEFINE T == {i \in 1 .. Len(s) : s[i] = x}
  <2>1. T \in SUBSET Nat /\ T # {}
    BY <1>1
  <2>2. PICK n \in T : \A m \in T : n <= m
    BY <2>1, NatHasLeast
  <2>3. ASSUME NEW m \in T, \A k \in T : m <= k PROVE m = n
    BY <2>2, <2>3
  <2>4. RemoveFirst(s, x) = RemoveAt(s, n)
    BY <1>1, <2>1, <2>2, <2>3 DEF RemoveFirst, SelectInSeq, Min
  <2> QED
    BY <2>2, <2>4, RemoveAtFacts, RemoveAtSet
<1>2. CASE ~\E i \in 1 .. Len(s) : s[i] = x
  <2>1. RemoveFirst(s, x) = s
    BY <1>2 DEF RemoveFirst
  <2> QED
    BY <2>1
<1> QED
  BY <1>1, <1>2

LEMMA WithoutFacts ==
  ASSUME NEW S, NEW s \in Seq(S), NEW id
  PROVE  /\ Without(s, id) \in Seq(S)
         /\ ToSet(Without(s, id)) \subseteq ToSet(s)
         /\ \A e \in ToSet(s) : e.id # id => e \in ToSet(Without(s, id))
         /\ Single(s, id) => \A e \in ToSet(Without(s, id)) : e.id # id
         /\ \A other : Single(s, other) => Single(Without(s, id), other)
<1>0. PICK n \in Nat : n = Len(s) /\ DOMAIN s = 1 .. n
  OBVIOUS
<1>1. CASE \E i \in 1 .. n : s[i].id = id
  <2>1. PICK f \in 1 .. n : s[f].id = id /\ Without(s, id) = RemoveAt(s, f)
    BY <1>0, <1>1, FirstFacts
  <2>2. PICK t \in Seq(S) : t = RemoveAt(s, f)
    BY <1>0, RemoveAtFacts
  <2>3. /\ Len(t) = n - 1 /\ DOMAIN t = 1 .. n - 1
        /\ \A j \in 1 .. n - 1 : t[j] = IF j < f THEN s[j] ELSE s[j + 1]
    <3>1. f \in 1 .. Len(s) /\ Len(s) - 1 = n - 1
      BY <1>0
    <3>2. DOMAIN t = 1 .. n - 1
      BY <2>2, <3>1, RemoveAtSet
    <3>3. /\ Len(t) = Len(s) - 1
          /\ \A j \in 1 .. Len(s) - 1 : t[j] = IF j < f THEN s[j] ELSE s[j + 1]
      BY <2>2, <3>1, RemoveAtFacts
    <3> QED
      BY <3>1, <3>2, <3>3
  <2>4. ToSet(t) = {s[j] : j \in (1 .. n) \ {f}} /\ ToSet(s) = ToSet(t) \union {s[f]}
    BY <1>0, <2>2, RemoveAtSet
  <2>5. Single(s, id) => \A e \in ToSet(t) : e.id # id
    BY <1>0, <2>1, <2>4 DEF Single, At
  <2>6. ASSUME NEW other, Single(s, other), NEW i \in 1 .. n - 1, NEW j \in 1 .. n - 1,
               t[i].id = other, t[j].id = other
        PROVE  i = j
    <3>1. PICK k \in 1 .. n : t[i] = s[k] /\ k = IF i < f THEN i ELSE i + 1
      BY <1>0, <2>3
    <3>2. PICK l \in 1 .. n : t[j] = s[l] /\ l = IF j < f THEN j ELSE j + 1
      BY <1>0, <2>3
    <3>3. k = l
      BY <1>0, <2>6, <3>1, <3>2 DEF Single, At
    <3> QED
      BY <1>0, <3>1, <3>2, <3>3
  <2>7. \A other : Single(s, other) => Single(t, other)
    BY <2>3, <2>6 DEF Single, At
  <2> QED
    BY <2>1, <2>2, <2>4, <2>5, <2>7
<1>2. CASE ~\E i \in 1 .. n : s[i].id = id
  <2>1. Without(s, id) = s
    BY <1>0, <1>2 DEF Without, RemoveFirstMatch
  <2>2. \A e \in ToSet(s) : e.id # id
    BY <1>0, <1>2 DEF ToSet
  <2> QED
    BY <2>1, <2>2
<1> QED
  BY <1>1, <1>2

(* A buffer in which an id names one capture, in the list of its rule, and *)
(* every body is owned.                                                    *)
Proper(b) ==
    /\ b \in Buffers
    /\ \A x, y \in Entries(b) : x.id = y.id => x = y
    /\ \A r \in Rules : \A e \in ToSet(b.byRule[r]) : e.rule = r
    /\ \A p \in ToSet(b.pending) : \A x \in Entries(b) : x.id = p.id => p = Ref(x)
    /\ Owned(b)

(* c is b without some of its captures: what it still holds is as pending   *)
(* and has as much of a body as in b, and a body it still holds has its    *)
(* capture.                                                                *)
Fewer(c, b) ==
    /\ c \in Buffers
    /\ \A r \in Rules : ToSet(c.byRule[r]) \subseteq ToSet(b.byRule[r])
    /\ \A r \in Rules, id \in Id : Single(b.byRule[r], id) => Single(c.byRule[r], id)
    /\ ToSet(c.pending) \subseteq ToSet(b.pending)
    /\ c.pendingBodies = b.pendingBodies
    /\ \A e \in Entries(c) :
          Single(b.byRule[e.rule], e.id) =>
              /\ e.id \in Waiting(b) => e.id \in Waiting(c)
              /\ e.id \in b.bodies => e.id \in c.bodies
    /\ c.bodies \subseteq b.bodies /\ c.bodies \subseteq c.bodyTTL
    /\ \A e \in Entries(b) : e.id \in c.bodies => e \in Entries(c)

LEMMA BufferParts ==
  ASSUME NEW b \in Buffers
  PROVE  /\ \A r \in Rules : b.byRule[r] \in Seq(Entry) /\ ToSet(b.byRule[r]) \subseteq Entry
         /\ Entries(b) \subseteq Entry
         /\ ToSet(b.pending) \subseteq [rule : Rules, id : Id]
         /\ ToSet(b.order) \subseteq [rule : Rules, id : Id]
         /\ \A r \in Rules : ToSet(b.byRule[r]) \subseteq Entries(b)
         /\ \A e \in Entries(b) : \E r \in Rules : e \in ToSet(b.byRule[r])
<1>1. \A S : \A s \in Seq(S) : ToSet(s) \subseteq S
  BY DEF ToSet
<1>2. \A r \in Rules : b.byRule[r] \in Seq(Entry)
  BY DEF Buffers
<1>3. b.pending \in Seq([rule : Rules, id : Id]) /\ b.order \in Seq([rule : Rules, id : Id])
  BY DEF Buffers
<1>4. \A r \in Rules : ToSet(b.byRule[r]) \subseteq Entry
  BY <1>1, <1>2
<1> QED
  BY <1>1, <1>2, <1>3, <1>4 DEF Entries

LEMMA FewerEntries ==
  ASSUME NEW b, NEW c, Fewer(c, b)
  PROVE  Entries(c) \subseteq Entries(b)
  BY DEF Fewer, Entries

LEMMA FewerProper ==
  ASSUME NEW b, NEW c, Proper(b), Fewer(c, b)
  PROVE  Proper(c)
<1>1. Entries(c) \subseteq Entries(b)
  BY FewerEntries
<1>2. c.bodies \subseteq Ids({e \in Entries(c) : e.body})
  <2>1. ASSUME NEW id \in c.bodies PROVE id \in Ids({e \in Entries(c) : e.body})
    <3>1. PICK e \in Entries(b) : e.body /\ e.id = id
      BY <2>1 DEF Fewer, Proper, Owned, Ids
    <3>2. e \in Entries(c)
      BY <2>1, <3>1 DEF Fewer
    <3> QED
      BY <3>1, <3>2 DEF Ids
  <2> QED
    BY <2>1
<1> QED
  BY <1>1, <1>2 DEF Proper, Fewer, Owned

LEMMA FewerSelf ==
  ASSUME NEW b, Proper(b)
  PROVE  Fewer(b, b)
  BY DEF Fewer, Proper, Owned

LEMMA FewerAgain ==
  ASSUME NEW b, NEW c, NEW d, Proper(b), Fewer(c, b), Fewer(d, c)
  PROVE  Fewer(d, b)
<1>1. Entries(c) \subseteq Entries(b) /\ Entries(d) \subseteq Entries(c)
  BY FewerEntries
<1>2. Entries(b) \subseteq Entry
  BY BufferParts DEF Proper
<1>3. ASSUME NEW e \in Entries(d), Single(b.byRule[e.rule], e.id)
      PROVE  /\ e.id \in Waiting(b) => e.id \in Waiting(d)
             /\ e.id \in b.bodies => e.id \in d.bodies
  <2>1. e \in Entries(c) /\ e.rule \in Rules /\ e.id \in Id
    BY <1>1, <1>2 DEF Entry
  <2>2. Single(c.byRule[e.rule], e.id)
    BY <1>3, <2>1 DEF Fewer
  <2> QED
    BY <1>3, <2>1, <2>2 DEF Fewer
<1> QED
  BY <1>1, <1>3 DEF Fewer

(* c is b without the first capture of ref; ref alone may leave the        *)
(* pending ones.                                                           *)
Taken(c, b, ref) ==
    /\ c \in Buffers
    /\ c.byRule = [b.byRule EXCEPT ![ref.rule] = Without(@, ref.id)]
    /\ c.bodies = b.bodies \ (IF Holds(b, ref) THEN {ref.id} ELSE {})
    /\ c.bodyTTL = b.bodyTTL \ (IF Holds(b, ref) THEN {ref.id} ELSE {})
    /\ ToSet(c.pending) \subseteq ToSet(b.pending)
    /\ ToSet(b.pending) \subseteq ToSet(c.pending) \union {ref}
    /\ c.pendingBodies = b.pendingBodies

LEMMA TakenIsFewer ==
  ASSUME NEW b, NEW c, NEW ref \in [rule : Rules, id : Id], Proper(b), Taken(c, b, ref)
  PROVE  Fewer(c, b)
<1> DEFINE r0 == ref.rule
<1>0. r0 \in Rules /\ ref.id \in Id /\ b.byRule[r0] \in Seq(Entry)
  BY BufferParts DEF Proper
<1>1. /\ c.byRule[r0] = Without(b.byRule[r0], ref.id)
      /\ \A r \in Rules : r # r0 => c.byRule[r] = b.byRule[r]
  <2>1. b.byRule \in [Rules -> Seq(Entry)]
    BY DEF Proper, Buffers
  <2> QED
    BY <1>0, <2>1 DEF Taken
<1>2. /\ ToSet(c.byRule[r0]) \subseteq ToSet(b.byRule[r0])
      /\ \A e \in ToSet(b.byRule[r0]) : e.id # ref.id => e \in ToSet(c.byRule[r0])
      /\ Single(b.byRule[r0], ref.id) => \A e \in ToSet(c.byRule[r0]) : e.id # ref.id
      /\ \A id : Single(b.byRule[r0], id) => Single(c.byRule[r0], id)
  BY <1>0, <1>1, WithoutFacts
<1>3. /\ \A r \in Rules : ToSet(c.byRule[r]) \subseteq ToSet(b.byRule[r])
      /\ \A r \in Rules, id \in Id : Single(b.byRule[r], id) => Single(c.byRule[r], id)
  BY <1>1, <1>2
<1>4. Entries(c) \subseteq Entries(b)
  BY <1>3 DEF Entries
<1>5. ASSUME NEW e \in Entries(c), Single(b.byRule[e.rule], e.id)
      PROVE  ~(e.rule = r0 /\ e.id = ref.id)
  <2> SUFFICES ASSUME e.rule = r0, e.id = ref.id PROVE FALSE
    OBVIOUS
  <2>1. PICK r \in Rules : e \in ToSet(c.byRule[r])
    BY DEF Entries
  <2>2. r = e.rule
    BY <1>3, <2>1 DEF Proper
  <2> QED
    BY <1>2, <1>5, <2>1, <2>2
<1>6. ASSUME NEW e \in Entries(c), Single(b.byRule[e.rule], e.id)
      PROVE  /\ e.id \in Waiting(b) => e.id \in Waiting(c)
             /\ e.id \in b.bodies => e.id \in c.bodies
  <2>1. e \in Entries(b)
    BY <1>4
  <2>2. ASSUME e.id \in Waiting(b) PROVE e.id \in Waiting(c)
    <3>1. PICK p \in ToSet(b.pending) : p.id = e.id
      BY <2>2 DEF Waiting, Ids
    <3>2. p = Ref(e)
      BY <2>1, <3>1 DEF Proper
    <3>3. p # ref
      BY <1>5, <1>6, <3>2 DEF Ref
    <3>4. p \in ToSet(c.pending)
      BY <3>1, <3>3 DEF Taken
    <3> QED
      BY <3>1, <3>4 DEF Waiting, Ids
  <2>3. ASSUME e.id \in b.bodies, e.id \notin c.bodies PROVE FALSE
    <3>1. e.id = ref.id /\ Holds(b, ref)
      BY <2>3 DEF Taken
    <3>2. PICK d \in ToSet(b.byRule[r0]) : d.id = ref.id
      BY <3>1 DEF Holds
    <3>3. d \in Entries(b) /\ d.rule = r0
      BY <1>0, <3>2 DEF Entries, Proper
    <3>4. d = e
      BY <2>1, <3>1, <3>2, <3>3 DEF Proper
    <3> QED
      BY <1>5, <1>6, <3>1, <3>3, <3>4
  <2> QED
    BY <2>2, <2>3
<1>7. ASSUME NEW e \in Entries(b), e.id \in c.bodies PROVE e \in Entries(c)
  <2>1. PICK r \in Rules : e \in ToSet(b.byRule[r])
    BY DEF Entries
  <2>2. CASE r # r0
    BY <1>1, <2>1, <2>2 DEF Entries
  <2>3. CASE r = r0
    <3>1. e.id # ref.id
      <4>1. e.id = ref.id => Holds(b, ref)
        BY <2>1, <2>3 DEF Holds
      <4> QED
        BY <1>7, <4>1 DEF Taken
    <3>2. e \in ToSet(c.byRule[r0])
      BY <1>2, <2>1, <2>3, <3>1
    <3> QED
      BY <1>0, <3>2 DEF Entries
  <2> QED
    BY <2>2, <2>3
<1>8. c.bodies \subseteq b.bodies /\ c.bodies \subseteq c.bodyTTL
  BY DEF Taken, Proper, Owned
<1> QED
  BY <1>3, <1>6, <1>7, <1>8 DEF Fewer, Taken

LEMMA HeadTailFacts ==
  ASSUME NEW S, NEW s \in Seq(S), s # << >>
  PROVE  /\ Head(s) \in S /\ Tail(s) \in Seq(S) /\ Len(Tail(s)) = Len(s) - 1
         /\ 1 \in 1 .. Len(s) /\ Head(s) = s[1] /\ Tail(s) = RemoveAt(s, 1)
<1>1. PICK n \in Nat : n = Len(s) /\ n # 0
  OBVIOUS
<1>2. 1 \in 1 .. n /\ Head(s) = s[1] /\ s[1] \in S
  BY <1>1
<1>3. PICK t : t = Tail(s)
  OBVIOUS
<1>4. t \in Seq(S) /\ Len(t) = n - 1 /\ \A j \in 1 .. n - 1 : t[j] = s[j + 1]
  BY <1>1, <1>3
<1>5. PICK u \in Seq(S) : u = RemoveAt(s, 1)
  BY <1>1, <1>2, RemoveAtFacts
<1>6. Len(u) = n - 1 /\ \A j \in 1 .. n - 1 : u[j] = s[j + 1]
  <2>1. /\ Len(u) = Len(s) - 1
        /\ \A j \in 1 .. Len(s) - 1 : u[j] = IF j < 1 THEN s[j] ELSE s[j + 1]
    BY <1>1, <1>2, <1>5, RemoveAtFacts
  <2> QED
    BY <1>1, <2>1
<1>7. t = u
  BY <1>4, <1>5, <1>6, SeqEqual
<1> QED
  BY <1>1, <1>2, <1>3, <1>4, <1>5, <1>7

LEMMA RemoveEntryTakes ==
  ASSUME NEW b \in Buffers, NEW ref \in [rule : Rules, id : Id]
  PROVE  /\ RemoveEntry(b, ref) \in Buffers /\ Taken(RemoveEntry(b, ref), b, ref)
         /\ RemoveEntry(b, ref).order = b.order
<1> DEFINE c == RemoveEntry(b, ref)
           gone == IF Holds(b, ref) THEN {ref.id} ELSE {}
<1>1. c = [b EXCEPT !.byRule[ref.rule] = Without(@, ref.id),
                    !.bodies = @ \ gone, !.bodyTTL = @ \ gone]
  BY DEF RemoveEntry, Without
<1>2. b = [byRule |-> b.byRule, order |-> b.order, bodies |-> b.bodies, bodyTTL |-> b.bodyTTL,
           pending |-> b.pending, pendingBodies |-> b.pendingBodies]
      /\ b.byRule \in [Rules -> Seq(Entry)] /\ b.bodies \in SUBSET Id /\ b.bodyTTL \in SUBSET Id
  BY DEF Buffers
<1> HIDE DEF c, gone
<1>3. /\ c.byRule = [b.byRule EXCEPT ![ref.rule] = Without(@, ref.id)]
      /\ c.bodies = b.bodies \ gone /\ c.bodyTTL = b.bodyTTL \ gone
      /\ c.order = b.order /\ c.pending = b.pending /\ c.pendingBodies = b.pendingBodies
      /\ c = [byRule |-> c.byRule, order |-> c.order, bodies |-> c.bodies, bodyTTL |-> c.bodyTTL,
              pending |-> c.pending, pendingBodies |-> c.pendingBodies]
  BY <1>1, <1>2
<1>4. Without(b.byRule[ref.rule], ref.id) \in Seq(Entry)
  <2>1. b.byRule[ref.rule] \in Seq(Entry)
    BY <1>2
  <2> QED
    BY <2>1, WithoutFacts
<1>5. c.byRule \in [Rules -> Seq(Entry)] /\ c.bodies \in SUBSET Id /\ c.bodyTTL \in SUBSET Id
  BY <1>2, <1>3, <1>4
<1>6. c \in Buffers
  BY <1>3, <1>5 DEF Buffers
<1> QED
  BY <1>3, <1>6 DEF Taken, c, gone

LEMMA EvictOldestTakes ==
  ASSUME NEW b \in Buffers, b.order # << >>
  PROVE  /\ Head(b.order) \in [rule : Rules, id : Id]
         /\ EvictOldest(b) \in Buffers /\ Taken(EvictOldest(b), b, Head(b.order))
         /\ EvictOldest(b).order = Tail(b.order)
<1> DEFINE old == Head(b.order)
           d == [b EXCEPT !.order = Tail(@), !.pending = RemoveFirst(@, old)]
<1>1. b.order \in Seq([rule : Rules, id : Id]) /\ b.pending \in Seq([rule : Rules, id : Id])
  BY DEF Buffers
<1>2. old \in [rule : Rules, id : Id] /\ Tail(b.order) \in Seq([rule : Rules, id : Id])
  BY <1>1, HeadTailFacts
<1>3. /\ RemoveFirst(b.pending, old) \in Seq([rule : Rules, id : Id])
      /\ ToSet(RemoveFirst(b.pending, old)) \subseteq ToSet(b.pending)
      /\ ToSet(b.pending) \subseteq ToSet(RemoveFirst(b.pending, old)) \union {old}
  BY <1>1, RemoveFirstFacts
<1>4. EvictOldest(b) = RemoveEntry(d, old)
  BY DEF EvictOldest
<1> HIDE DEF old
<1>5. /\ d \in Buffers /\ d.byRule = b.byRule /\ d.bodies = b.bodies /\ d.bodyTTL = b.bodyTTL
      /\ d.order = Tail(b.order) /\ d.pending = RemoveFirst(b.pending, old)
      /\ d.pendingBodies = b.pendingBodies
  BY <1>2, <1>3 DEF Buffers
<1> HIDE DEF d
<1>6. /\ RemoveEntry(d, old) \in Buffers /\ Taken(RemoveEntry(d, old), d, old)
      /\ RemoveEntry(d, old).order = d.order
  BY <1>2, <1>5, RemoveEntryTakes
<1>7. Holds(d, old) = Holds(b, old)
  BY <1>5 DEF Holds
<1>8. Taken(RemoveEntry(d, old), b, old)
  BY <1>3, <1>5, <1>6, <1>7 DEF Taken
<1> QED
  BY <1>2, <1>4, <1>5, <1>6, <1>8 DEF old

LEMMA ClearedRuleFewer ==
  ASSUME NEW b, NEW rule \in Rules, Proper(b)
  PROVE  /\ Fewer(ClearedRule(b, rule), b)
         /\ ClearedRule(b, rule).byRule = [b.byRule EXCEPT ![rule] = << >>]
         /\ ClearedRule(b, rule).order =
                Only(b.order, {o \in ToSet(b.order) : o.rule # rule})
<1> DEFINE c == ClearedRule(b, rule)
           gone == Ids(ToSet(b.byRule[rule]))
           left == Only(b.order, {o \in ToSet(b.order) : o.rule # rule})
<1>1. /\ b.byRule \in [Rules -> Seq(Entry)] /\ b.bodies \in SUBSET Id /\ b.bodyTTL \in SUBSET Id
      /\ b.order \in Seq([rule : Rules, id : Id])
  BY DEF Proper, Buffers
<1>2. left \in Seq([rule : Rules, id : Id])
  BY <1>1, OnlyType
<1>3. c = [b EXCEPT !.byRule[rule] = << >>, !.order = left,
                    !.bodies = @ \ gone, !.bodyTTL = @ \ gone]
  BY DEF ClearedRule
<1>4. << >> \in Seq(Entry) /\ ToSet(<< >>) = {}
  BY DEF ToSet
<1> HIDE DEF c, gone, left
<1>5. /\ c \in Buffers /\ c.byRule = [b.byRule EXCEPT ![rule] = << >>] /\ c.order = left
      /\ c.bodies = b.bodies \ gone /\ c.bodyTTL = b.bodyTTL \ gone
      /\ c.pending = b.pending /\ c.pendingBodies = b.pendingBodies
  BY <1>1, <1>2, <1>3, <1>4 DEF Proper, Buffers
<1>6. c.byRule[rule] = << >> /\ \A r \in Rules : r # rule => c.byRule[r] = b.byRule[r]
  BY <1>1, <1>5
<1>7. /\ \A r \in Rules : ToSet(c.byRule[r]) \subseteq ToSet(b.byRule[r])
      /\ \A r \in Rules, id \in Id : Single(b.byRule[r], id) => Single(c.byRule[r], id)
  <2>1. \A id \in Id : Single(<< >>, id)
    BY DEF Single, At
  <2> QED
    BY <1>4, <1>6, <2>1
<1>8. ASSUME NEW e \in Entries(c), e.id \in b.bodies PROVE e.id \in c.bodies
  <2>1. PICK r \in Rules : e \in ToSet(c.byRule[r])
    BY DEF Entries
  <2>2. r # rule /\ e \in ToSet(b.byRule[r]) /\ e.rule = r
    BY <1>4, <1>6, <2>1 DEF Proper
  <2>3. ASSUME e.id \in gone PROVE FALSE
    <3>1. PICK d \in ToSet(b.byRule[rule]) : d.id = e.id
      BY <2>3 DEF gone, Ids
    <3>2. d = e /\ d.rule = rule
      BY <2>2, <3>1 DEF Proper, Entries
    <3> QED
      BY <2>2, <3>2
  <2> QED
    BY <1>5, <1>8, <2>3
<1>9. ASSUME NEW e \in Entries(b), e.id \in c.bodies PROVE e \in Entries(c)
  <2>1. PICK r \in Rules : e \in ToSet(b.byRule[r])
    BY DEF Entries
  <2>2. r # rule
    BY <1>5, <1>9, <2>1 DEF gone, Ids
  <2> QED
    BY <1>6, <2>1, <2>2 DEF Entries
<1>10. c.bodies \subseteq b.bodies /\ c.bodies \subseteq c.bodyTTL
  BY <1>5 DEF Proper, Owned
<1>11. Fewer(c, b)
  BY <1>5, <1>7, <1>8, <1>9, <1>10 DEF Fewer, Waiting
<1> QED
  BY <1>5, <1>11 DEF c, left

LEMMA ClearedAllFewer ==
  ASSUME NEW b, Proper(b)
  PROVE  /\ Fewer(ClearedAll(b), b)
         /\ ClearedAll(b).byRule = [r \in Rules |-> << >>]
         /\ ClearedAll(b).order = << >>
<1> DEFINE c == ClearedAll(b)
<1>1. c = [b EXCEPT !.byRule = [r \in Rules |-> << >>], !.order = << >>, !.bodies = {}]
  BY DEF ClearedAll, EmptyBuffer
<1>2. /\ << >> \in Seq(Entry) /\ << >> \in Seq([rule : Rules, id : Id]) /\ ToSet(<< >>) = {}
      /\ \A id \in Id : Single(<< >>, id)
  BY DEF ToSet, Single, At
<1> HIDE DEF c
<1>3. /\ c \in Buffers /\ c.byRule = [r \in Rules |-> << >>] /\ c.order = << >>
      /\ c.bodies = {} /\ c.bodyTTL = b.bodyTTL
      /\ c.pending = b.pending /\ c.pendingBodies = b.pendingBodies
  BY <1>1, <1>2 DEF Proper, Buffers
<1>4. Entries(c) = {}
  BY <1>2, <1>3 DEF Entries
<1>5. /\ \A r \in Rules : ToSet(c.byRule[r]) \subseteq ToSet(b.byRule[r])
      /\ \A r \in Rules, id \in Id : Single(b.byRule[r], id) => Single(c.byRule[r], id)
  BY <1>2, <1>3
<1>6. Fewer(c, b)
  BY <1>3, <1>4, <1>5 DEF Fewer
<1> QED
  BY <1>3, <1>6 DEF c

-----------------------------------------------------------------------------
(* The order and the lists lose the same captures.                         *)
Refers == [rule : Rules, id : Id]

LEMMA RefsFacts ==
  ASSUME NEW s \in Seq(Entry)
  PROVE  /\ Refs(s) \in Seq(Refers) /\ Len(Refs(s)) = Len(s)
         /\ \A i \in 1 .. Len(s) : Refs(s)[i] = [rule |-> s[i].rule, id |-> s[i].id]
         /\ \A i \in 1 .. Len(s) : Refs(RemoveAt(s, i)) = RemoveAt(Refs(s), i)
<1>1. PICK n \in Nat : n = Len(s) /\ DOMAIN s = 1 .. n /\ \A i \in 1 .. n : s[i] \in Entry
  OBVIOUS
<1>2. Refs(s) = [i \in 1 .. n |-> [rule |-> s[i].rule, id |-> s[i].id]]
  BY <1>1 DEF Refs, Ref
<1>3. PICK t : t = Refs(s)
  OBVIOUS
<1>4. t \in Seq(Refers) /\ Len(t) = n /\ \A i \in 1 .. n : t[i] = [rule |-> s[i].rule, id |-> s[i].id]
  <2>1. \A i \in 1 .. n : [rule |-> s[i].rule, id |-> s[i].id] \in Refers
    BY <1>1 DEF Entry, Refers
  <2>2. t \in [1 .. n -> Refers]
    BY <1>2, <1>3, <2>1
  <2>3. t \in Seq(Refers) /\ Len(t) = n
    BY <1>1, <2>2
  <2>4. \A i \in 1 .. n : t[i] = [rule |-> s[i].rule, id |-> s[i].id]
    BY <1>2, <1>3
  <2> QED
    BY <2>3, <2>4
<1>5. ASSUME NEW i \in 1 .. n PROVE Refs(RemoveAt(s, i)) = RemoveAt(t, i)
  <2>1. PICK u \in Seq(Entry) : u = RemoveAt(s, i)
    BY <1>1, RemoveAtFacts
  <2>2. Len(u) = n - 1 /\ DOMAIN u = 1 .. n - 1
        /\ \A j \in 1 .. n - 1 : u[j] = IF j < i THEN s[j] ELSE s[j + 1]
    <3>1. /\ Len(u) = Len(s) - 1
          /\ \A j \in 1 .. Len(s) - 1 : u[j] = IF j < i THEN s[j] ELSE s[j + 1]
      BY <1>1, <2>1, RemoveAtFacts
    <3> QED
      BY <1>1, <3>1
  <2>3. PICK w \in Seq(Refers) : w = RemoveAt(t, i)
    BY <1>4, RemoveAtFacts
  <2>4. Len(w) = n - 1
        /\ \A j \in 1 .. n - 1 : w[j] = IF j < i THEN t[j] ELSE t[j + 1]
    <3>1. /\ Len(w) = Len(t) - 1
          /\ \A j \in 1 .. Len(t) - 1 : w[j] = IF j < i THEN t[j] ELSE t[j + 1]
      BY <1>4, <2>3, RemoveAtFacts
    <3> QED
      BY <1>1, <1>4, <3>1
  <2>5. PICK v : v = Refs(u)
    OBVIOUS
  <2>6. v = [j \in 1 .. n - 1 |-> [rule |-> u[j].rule, id |-> u[j].id]]
    BY <2>2, <2>5 DEF Refs, Ref
  <2>7. ASSUME NEW j \in 1 .. n - 1 PROVE v[j] = w[j]
    <3>1. j \in 1 .. n /\ j + 1 \in 1 .. n
      BY <1>1
    <3> QED
      BY <1>4, <2>2, <2>4, <2>6, <3>1
  <2>8. v \in Seq(Refers) /\ Len(v) = n - 1
    <3>1. \A j \in 1 .. n - 1 : v[j] \in Refers
      <4>1. \A j \in 1 .. n - 1 : w[j] \in Refers
        BY <2>3, <2>4
      <4> QED
        BY <2>7, <4>1
    <3>2. v \in [1 .. n - 1 -> Refers]
      BY <2>6, <3>1
    <3>3. n - 1 \in Nat
      BY <1>1
    <3> QED
      BY <2>6, <3>2, <3>3
  <2>9. v = w
    BY <2>3, <2>4, <2>7, <2>8, SeqEqual
  <2> QED
    BY <2>1, <2>3, <2>5, <2>9
<1> QED
  BY <1>1, <1>3, <1>4, <1>5

LEMMA EvictOldestMirrors ==
  ASSUME NEW b, Proper(b), Mirrors(b), b.order # << >>
  PROVE  Mirrors(EvictOldest(b))
<1>0. b \in Buffers
  BY DEF Proper
<1>1. PICK c, old : c = EvictOldest(b) /\ old = Head(b.order)
  OBVIOUS
<1>2. old \in Refers /\ Taken(c, b, old) /\ c.order = Tail(b.order)
  BY <1>0, <1>1, EvictOldestTakes DEF Refers
<1>3. b.order \in Seq(Refers) /\ b.byRule \in [Rules -> Seq(Entry)]
  BY <1>0 DEF Buffers, Refers
<1>4. 1 \in 1 .. Len(b.order) /\ old = b.order[1] /\ c.order = RemoveAt(b.order, 1)
  BY <1>1, <1>2, <1>3, HeadTailFacts
<1>5. ASSUME NEW r \in Rules, r # old.rule PROVE Refs(c.byRule[r]) = Only(c.order, OfRule(r))
  <2>1. old \notin OfRule(r)
    BY <1>5 DEF OfRule
  <2>2. Only(c.order, OfRule(r)) = Only(b.order, OfRule(r))
    BY <1>3, <1>4, <2>1, OnlyRemove
  <2>3. c.byRule[r] = b.byRule[r]
    BY <1>2, <1>3, <1>5 DEF Taken
  <2> QED
    BY <2>2, <2>3 DEF Mirrors
<1>6. PICK r \in Rules : r = old.rule
  BY <1>2 DEF Refers
<1>7. Refs(c.byRule[r]) = Only(c.order, OfRule(r))
  <2>1. PICK v \in Seq(Entry) : v = b.byRule[r]
    BY <1>3
  <2>2. Refs(v) = Only(b.order, OfRule(r))
    BY <2>1 DEF Mirrors
  <2>3. old \in OfRule(r) /\ \A j \in 1 .. 1 - 1 : b.order[j] \notin OfRule(r)
    BY <1>2, <1>6 DEF OfRule, Refers
  <2>4. /\ Refs(v) # << >> /\ Head(Refs(v)) = old
        /\ Only(c.order, OfRule(r)) = Tail(Refs(v))
    BY <1>3, <1>4, <2>2, <2>3, OnlyRemove
  <2>5. Refs(v) \in Seq(Refers) /\ Len(Refs(v)) = Len(v)
    BY RefsFacts
  <2>6. 1 \in 1 .. Len(v) /\ old = Refs(v)[1] /\ Tail(Refs(v)) = RemoveAt(Refs(v), 1)
    BY <2>4, <2>5, HeadTailFacts
  <2>7. v[1].id = old.id
    <3>1. Refs(v)[1] = [rule |-> v[1].rule, id |-> v[1].id]
      BY <2>6, RefsFacts
    <3> QED
      BY <2>6, <3>1
  <2>8. /\ FirstAt(v, old.id) \in 1 .. Len(v) /\ Without(v, old.id) = RemoveAt(v, FirstAt(v, old.id))
        /\ \A j \in 1 .. FirstAt(v, old.id) - 1 : v[j].id # old.id
    BY <2>6, <2>7, FirstFacts
  <2>9. FirstAt(v, old.id) = 1
    BY <2>6, <2>7, <2>8
  <2>10. c.byRule[r] = Without(v, old.id)
    BY <1>2, <1>3, <1>6, <2>1 DEF Taken
  <2>11. Refs(RemoveAt(v, 1)) = RemoveAt(Refs(v), 1)
    BY <2>6, RefsFacts
  <2> QED
    BY <2>4, <2>6, <2>8, <2>9, <2>10, <2>11
<1> QED
  BY <1>1, <1>5, <1>6, <1>7 DEF Mirrors

LEMMA ClearedRuleMirrors ==
  ASSUME NEW b, NEW rule \in Rules, Proper(b), Mirrors(b)
  PROVE  Mirrors(ClearedRule(b, rule)) /\ Len(ClearedRule(b, rule).order) <= Len(b.order)
<1> DEFINE keep == {o \in ToSet(b.order) : o.rule # rule}
<1>1. PICK c : c = ClearedRule(b, rule)
  OBVIOUS
<1>2. c.byRule = [b.byRule EXCEPT ![rule] = << >>] /\ c.order = Only(b.order, keep)
  BY <1>1, ClearedRuleFewer
<1>3. b.order \in Seq(Refers) /\ b.byRule \in [Rules -> Seq(Entry)]
  BY DEF Proper, Buffers, Refers
<1> HIDE DEF keep
<1>4. ASSUME NEW r \in Rules PROVE Refs(c.byRule[r]) = Only(c.order, OfRule(r))
  <2>1. Only(c.order, OfRule(r)) = Only(b.order, keep \intersect OfRule(r))
    BY <1>2, <1>3, OnlyOnly
  <2>2. CASE r = rule
    <3>1. ToSet(b.order) \intersect (keep \intersect OfRule(r)) = {}
      BY <2>2 DEF keep, OfRule
    <3>2. Only(b.order, keep \intersect OfRule(r)) = << >>
      BY <1>3, <3>1, OnlyNone
    <3>3. c.byRule[r] = << >> /\ Refs(<< >>) = << >>
      BY <1>2, <1>3, <2>2 DEF Refs
    <3> QED
      BY <2>1, <3>2, <3>3
  <2>3. CASE r # rule
    <3>1. \A o \in ToSet(b.order) : o \in keep \intersect OfRule(r) <=> o \in OfRule(r)
      BY <2>3 DEF keep, OfRule
    <3>2. Only(b.order, keep \intersect OfRule(r)) = Only(b.order, OfRule(r))
      BY <1>3, <3>1, OnlySame
    <3>3. c.byRule[r] = b.byRule[r]
      BY <1>2, <1>3, <2>3
    <3> QED
      BY <2>1, <3>2, <3>3 DEF Mirrors
  <2> QED
    BY <2>2, <2>3
<1>5. Len(c.order) <= Len(b.order)
  BY <1>2, <1>3, OnlyType
<1> QED
  BY <1>1, <1>4, <1>5 DEF Mirrors

LEMMA ClearedAllMirrors ==
  ASSUME NEW b, Proper(b)
  PROVE  Mirrors(ClearedAll(b)) /\ Len(ClearedAll(b).order) = 0
<1>1. PICK c : c = ClearedAll(b)
  OBVIOUS
<1>2. c.byRule = [r \in Rules |-> << >>] /\ c.order = << >>
  BY <1>1, ClearedAllFewer
<1>3. \A r \in Rules : Only(<< >>, OfRule(r)) = << >> /\ Refs(<< >>) = << >>
  BY OnlyEmpty DEF Refs
<1> QED
  BY <1>1, <1>2, <1>3 DEF Mirrors

-----------------------------------------------------------------------------
(* Eviction, turn by turn.                                                 *)
EvictTurn(c) == IF Len(c.order) > BufferCap THEN EvictOldest(c) ELSE c

EvictedByTurns(b) ==
    \E n \in Nat : \E run \in [0 .. n -> Buffers] :
        /\ n = Len(b.order) /\ run[0] = b /\ run[n] = Evicted(b)
        /\ \A i \in 1 .. n : run[i] = EvictTurn(run[i - 1])

LEMMA EvictTurnType ==
  ASSUME NEW b \in Buffers
  PROVE  EvictTurn(b) \in Buffers
<1>1. ASSUME Len(b.order) > BufferCap PROVE b.order # << >>
  BY <1>1, BufferAssumption
<1> QED
  BY <1>1, EvictOldestTakes DEF EvictTurn

LEMMA EvictedRuns ==
  ASSUME NEW b \in Buffers
  PROVE  EvictedByTurns(b)
<1> DEFINE n == Len(b.order)
           step == [i \in 1 .. n |-> [c \in Buffers |-> EvictTurn(c)]]
           Fix(f) == f = [t \in SUBSET (1 .. n) |->
                            IF t = {} THEN b
                            ELSE IF Len(f[t \ {Max(t)}].order) > BufferCap
                                 THEN EvictOldest(f[t \ {Max(t)}]) ELSE f[t \ {Max(t)}]]
           f == CHOOSE f : Fix(f)
<1>0. b.order \in Seq(Refers)
  BY DEF Buffers, Refers
<1>1. n \in Nat /\ DOMAIN b.order = 1 .. n
  BY <1>0
<1>2. Evicted(b) = f[1 .. n]
  BY <1>1 DEF Evicted, FoldLeft, MapThenFoldSet
<1>3. step \in [1 .. n -> [Buffers -> Buffers]]
  BY EvictTurnType
<1>4. \A i \in 1 .. n, c \in Buffers : step[i][c] = EvictTurn(c)
  OBVIOUS
<1> HIDE DEF n, step
<1>5. PICK g \in [SUBSET (1 .. n) -> Buffers] : FoldsOver(g, n, b, step)
  BY <1>1, <1>3, FoldExists
<1>6. Fix(g)
  <2>1. ASSUME NEW t \in SUBSET (1 .. n), t # {}
        PROVE  g[t] = EvictTurn(g[t \ {Max(t)}])
    <3>1. Max(t) \in 1 .. n
      BY <1>1, <2>1, MaxIsIn
    <3>2. t \ {Max(t)} \in SUBSET (1 .. n) /\ g[t \ {Max(t)}] \in Buffers
      BY <1>5
    <3> QED
      BY <1>4, <1>5, <2>1, <3>1, <3>2 DEF FoldsOver
  <2>2. \A t \in SUBSET (1 .. n) : t = {} => g[t] = b
    BY <1>5 DEF FoldsOver
  <2> QED
    BY <1>5, <2>1, <2>2 DEF EvictTurn
<1>7. Fix(f)
  <2> HIDE DEF Fix
  <2> QED
    BY <1>6
<1> HIDE DEF f
<1>8. f[{}] = b
  BY <1>7
<1>9. ASSUME NEW t \in SUBSET (1 .. n), t # {}, f[t \ {Max(t)}] \in Buffers
      PROVE  f[t] = step[Max(t)][f[t \ {Max(t)}]]
  <2>1. Max(t) \in 1 .. n
    BY <1>1, <1>9, MaxIsIn
  <2>2. f[t] = EvictTurn(f[t \ {Max(t)}])
    BY <1>7, <1>9 DEF EvictTurn
  <2> QED
    BY <1>4, <1>9, <2>1, <2>2
<1> HIDE DEF Fix
<1>10. Solves(f, n, Buffers, b, step)
  BY <1>1, <1>3, <1>8, <1>9 DEF Solves
<1>r. PICK run \in [0 .. n -> Buffers] : Follows(run, n, b, step) /\ run[n] = f[1 .. n]
  BY <1>10, FoldRuns DEF Runs
<1>11. ASSUME NEW i \in 1 .. n PROVE run[i] = EvictTurn(run[i - 1])
  <2>1. run[i - 1] \in Buffers
    BY <1>1, <1>r
  <2> QED
    BY <1>4, <1>r, <2>1 DEF Follows
<1> QED
  BY <1>1, <1>2, <1>r, <1>11 DEF Follows, EvictedByTurns, n

(* Eviction leaves no more than the capacity, and drops the same captures   *)
(* from the order and from the lists.                                      *)
LEMMA EvictedFacts ==
  ASSUME NEW b, Proper(b), Mirrors(b)
  PROVE  Fewer(Evicted(b), b) /\ Mirrors(Evicted(b)) /\ Len(Evicted(b).order) <= BufferCap
<1>0. b \in Buffers
  BY DEF Proper
<1>1. EvictedByTurns(b)
  BY <1>0, EvictedRuns
<1>2. PICK n \in Nat : \E run \in [0 .. n -> Buffers] :
        /\ n = Len(b.order) /\ run[0] = b /\ run[n] = Evicted(b)
        /\ \A i \in 1 .. n : run[i] = EvictTurn(run[i - 1])
  BY <1>1 DEF EvictedByTurns
<1>3. PICK run \in [0 .. n -> Buffers] :
        /\ n = Len(b.order) /\ run[0] = b /\ run[n] = Evicted(b)
        /\ \A i \in 1 .. n : run[i] = EvictTurn(run[i - 1])
  BY <1>2
<1> DEFINE Good(k) == /\ Fewer(run[k], b) /\ Mirrors(run[k])
                      /\ Len(run[k].order) <= BufferCap \/ Len(run[k].order) = n - k
           P == {k \in 0 .. n : Good(k)}
<1>4. Good(0)
  BY <1>3, FewerSelf
<1>5. ASSUME NEW k \in 1 .. n, Good(k - 1) PROVE Good(k)
  <2>1. PICK c \in Buffers : c = run[k - 1]
    BY <1>3
  <2>2. /\ Fewer(c, b) /\ Mirrors(c) /\ run[k] = EvictTurn(c) /\ Proper(c)
        /\ Len(c.order) <= BufferCap \/ Len(c.order) = n - (k - 1)
    BY <1>3, <1>5, <2>1, FewerProper
  <2>3. CASE Len(c.order) > BufferCap
    <3>1. c.order \in Seq(Refers) /\ c.order # << >> /\ Len(c.order) \in Nat
      BY <2>3, BufferAssumption DEF Buffers, Refers
    <3>2. PICK d : d = EvictOldest(c)
      OBVIOUS
    <3>3. run[k] = d
      BY <2>2, <2>3, <3>2 DEF EvictTurn
    <3>4. /\ Head(c.order) \in [rule : Rules, id : Id] /\ Taken(d, c, Head(c.order))
          /\ d.order = Tail(c.order)
      BY <3>1, <3>2, EvictOldestTakes
    <3>5. Fewer(d, c)
      BY <2>2, <3>4, TakenIsFewer
    <3>6. Fewer(d, b)
      BY <2>2, <3>5, FewerAgain
    <3>7. Mirrors(d)
      BY <2>2, <3>1, <3>2, EvictOldestMirrors
    <3>8. Len(d.order) = Len(c.order) - 1
      BY <3>1, <3>4, HeadTailFacts
    <3>9. Len(c.order) = n - (k - 1)
      BY <2>2, <2>3, <3>1, BufferAssumption
    <3>10. Len(d.order) = n - k
      BY <3>1, <3>8, <3>9
    <3> QED
      BY <3>3, <3>6, <3>7, <3>10
  <2>4. CASE ~(Len(c.order) > BufferCap)
    <3>1. c.order \in Seq(Refers)
      BY DEF Buffers, Refers
    <3>2. Len(c.order) <= BufferCap /\ run[k] = c
      BY <2>2, <2>4, <3>1, BufferAssumption DEF EvictTurn
    <3> QED
      BY <2>2, <3>2
  <2> QED
    BY <2>3, <2>4
<1>6. \A k \in 0 .. n : k \in P <=> Good(k)
  OBVIOUS
<1> HIDE DEF Good, P
<1>7. \A k \in 0 .. n : k \in P
  <2>1. 0 \in P
    BY <1>4, <1>6
  <2>2. ASSUME NEW k \in 1 .. n, k - 1 \in P PROVE k \in P
    <3>1. k - 1 \in 0 .. n /\ k \in 0 .. n
      OBVIOUS
    <3> QED
      BY <1>5, <1>6, <2>2, <3>1
  <2> QED
    BY <2>1, <2>2, Climb
<1>8. Good(n)
  BY <1>6, <1>7
<1>9. Len(run[n].order) <= BufferCap
  BY <1>8, BufferAssumption DEF Good
<1> QED
  BY <1>3, <1>8, <1>9 DEF Good

-----------------------------------------------------------------------------
(* The sweep, entry by entry.                                              *)
Stale(b, t) ==
    {o \in ToSet(b.order) : \E e \in ToSet(b.byRule[o.rule]) : e.id = o.id /\ Expired(e, t)}

Cleaned(b, d) == FoldLeft(RemoveEntry, b, d)

CleanedByTurns(b, d) ==
    \E n \in Nat : \E run \in [0 .. n -> Buffers] :
        /\ n = Len(d) /\ run[0] = b /\ run[n] = Cleaned(b, d)
        /\ \A i \in 1 .. n : run[i] = RemoveEntry(run[i - 1], d[i])

LEMMA CleanedRuns ==
  ASSUME NEW b \in Buffers, NEW d \in Seq(Refers)
  PROVE  CleanedByTurns(b, d)
<1> DEFINE n == Len(d)
           step == [i \in 1 .. n |-> [c \in Buffers |-> RemoveEntry(c, d[i])]]
           Fix(f) == f = [t \in SUBSET (1 .. n) |->
                            IF t = {} THEN b ELSE RemoveEntry(f[t \ {Max(t)}], d[Max(t)])]
           f == CHOOSE f : Fix(f)
<1>1. n \in Nat /\ DOMAIN d = 1 .. n /\ \A i \in 1 .. n : d[i] \in [rule : Rules, id : Id]
  <2>1. n \in Nat /\ DOMAIN d = 1 .. n /\ \A i \in 1 .. n : d[i] \in Refers
    OBVIOUS
  <2> QED
    BY <2>1 DEF Refers
<1>2. Cleaned(b, d) = f[1 .. n]
  BY <1>1 DEF Cleaned, FoldLeft, MapThenFoldSet
<1>3. step \in [1 .. n -> [Buffers -> Buffers]]
  BY <1>1, RemoveEntryTakes
<1>4. \A i \in 1 .. n, c \in Buffers : step[i][c] = RemoveEntry(c, d[i])
  OBVIOUS
<1> HIDE DEF n, step
<1>5. PICK g \in [SUBSET (1 .. n) -> Buffers] : FoldsOver(g, n, b, step)
  BY <1>1, <1>3, FoldExists
<1>6. Fix(g)
  <2>1. ASSUME NEW t \in SUBSET (1 .. n), t # {}
        PROVE  g[t] = RemoveEntry(g[t \ {Max(t)}], d[Max(t)])
    <3>1. Max(t) \in 1 .. n
      BY <1>1, <2>1, MaxIsIn
    <3>2. t \ {Max(t)} \in SUBSET (1 .. n) /\ g[t \ {Max(t)}] \in Buffers
      BY <1>5
    <3> QED
      BY <1>4, <1>5, <2>1, <3>1, <3>2 DEF FoldsOver
  <2>2. \A t \in SUBSET (1 .. n) : t = {} => g[t] = b
    BY <1>5 DEF FoldsOver
  <2> QED
    BY <1>5, <2>1, <2>2
<1>7. Fix(f)
  <2> HIDE DEF Fix
  <2> QED
    BY <1>6
<1> HIDE DEF f
<1>8. f[{}] = b
  BY <1>7
<1>9. ASSUME NEW t \in SUBSET (1 .. n), t # {}, f[t \ {Max(t)}] \in Buffers
      PROVE  f[t] = step[Max(t)][f[t \ {Max(t)}]]
  <2>1. Max(t) \in 1 .. n
    BY <1>1, <1>9, MaxIsIn
  <2>2. f[t] = RemoveEntry(f[t \ {Max(t)}], d[Max(t)])
    BY <1>7, <1>9
  <2> QED
    BY <1>4, <1>9, <2>1, <2>2
<1> HIDE DEF Fix
<1>10. Solves(f, n, Buffers, b, step)
  BY <1>1, <1>3, <1>8, <1>9 DEF Solves
<1>r. PICK run \in [0 .. n -> Buffers] : Follows(run, n, b, step) /\ run[n] = f[1 .. n]
  BY <1>10, FoldRuns DEF Runs
<1>11. ASSUME NEW i \in 1 .. n PROVE run[i] = RemoveEntry(run[i - 1], d[i])
  <2>1. run[i - 1] \in Buffers
    BY <1>1, <1>r
  <2> QED
    BY <1>4, <1>r, <2>1 DEF Follows
<1> QED
  BY <1>1, <1>2, <1>r, <1>11 DEF Follows, CleanedByTurns, n

LEMMA HeadOfOnly ==
  ASSUME NEW S, NEW s \in Seq(S), NEW K, Only(s, K) # << >>
  PROVE  \E i \in 1 .. Len(s) : /\ s[i] \in K /\ s[i] = Head(Only(s, K))
                                /\ \A j \in 1 .. i - 1 : s[j] \notin K
<1> DEFINE T == {i \in 1 .. Len(s) : s[i] \in K}
<1>1. Only(s, K) \in Seq(S) /\ ToSet(Only(s, K)) = ToSet(s) \intersect K
  BY OnlyType
<1>2. ToSet(Only(s, K)) # {}
  <2>1. PICK o \in Seq(S) : o = Only(s, K)
    BY <1>1
  <2>2. 1 \in DOMAIN o
    BY <2>1
  <2> QED
    BY <2>1, <2>2 DEF ToSet
<1>3. T # {} /\ T \in SUBSET Nat
  <2>1. PICK x : x \in ToSet(s) /\ x \in K
    BY <1>1, <1>2
  <2>2. PICK i \in 1 .. Len(s) : s[i] = x
    BY <2>1 DEF ToSet
  <2>3. T \in SUBSET Nat
    OBVIOUS
  <2> QED
    BY <2>1, <2>2, <2>3
<1>4. PICK i \in T : \A j \in T : i <= j
  BY <1>3, NatHasLeast
<1>5. i \in 1 .. Len(s) /\ s[i] \in K /\ \A j \in 1 .. i - 1 : s[j] \notin K
  BY <1>4
<1>6. Head(Only(s, K)) = s[i]
  BY <1>5, OnlyRemove
<1> QED
  BY <1>5, <1>6

(* Of the rule r, what is fresh stays as it is and what is stale goes in   *)
(* the order of d, of which the places behind k are left to do.            *)
Cleans(c, b, stale, d, k, r) ==
    /\ Only(Refs(c.byRule[r]), Refers \ stale) = Only(Refs(b.byRule[r]), Refers \ stale)
    /\ Only(Refs(c.byRule[r]), stale) = Only(SubSeq(d, k + 1, Len(d)), OfRule(r))

LEMMA CleanStep ==
  ASSUME NEW b, NEW c, NEW stale, NEW d \in Seq(Refers), NEW k \in 1 .. Len(d), NEW r \in Rules,
         Proper(c), Cleans(c, b, stale, d, k - 1, r), ToSet(d) \subseteq stale
  PROVE  Cleans(RemoveEntry(c, d[k]), b, stale, d, k, r)
<1>n. PICK n \in Nat : n = Len(d)
  OBVIOUS
<1>0. k \in 1 .. n /\ c \in Buffers /\ d[k] \in Refers /\ d[k] \in stale /\ (k - 1) + 1 = k
  <2>1. k \in 1 .. n /\ (k - 1) + 1 = k /\ d[k] \in Refers
    BY <1>n
  <2>2. d[k] \in ToSet(d)
    BY DEF ToSet
  <2> QED
    BY <2>1, <2>2 DEF Proper
<1>1. PICK ref, e : ref = d[k] /\ e = RemoveEntry(c, d[k])
  OBVIOUS
<1>2. e.byRule = [c.byRule EXCEPT ![ref.rule] = Without(@, ref.id)]
  <2>1. ref \in Refers /\ e = RemoveEntry(c, ref) /\ c \in Buffers
    BY <1>0, <1>1
  <2>2. Taken(e, c, ref)
    BY <2>1, RemoveEntryTakes DEF Refers
  <2> QED
    BY <2>2 DEF Taken
<1>3. c.byRule \in [Rules -> Seq(Entry)]
  BY <1>0 DEF Buffers
<1>4. PICK v \in Seq(Entry) : v = c.byRule[r]
  BY <1>3
<1>5. Refs(v) \in Seq(Refers) /\ Len(Refs(v)) = Len(v)
  BY RefsFacts
<1>6. PICK rest : rest = SubSeq(d, k, n)
  OBVIOUS
<1>7. rest \in Seq(Refers) /\ rest # << >> /\ 1 \in 1 .. Len(rest) /\ rest[1] = ref
      /\ RemoveAt(rest, 1) = SubSeq(d, k + 1, n)
  <2>1. rest \in Seq(Refers) /\ Len(rest) = n - k + 1 /\ \A j \in 1 .. n - k + 1 : rest[j] = d[k + j - 1]
    BY <1>n, <1>0, <1>6
  <2>2. 1 \in 1 .. Len(rest) /\ rest[1] = ref
    BY <1>0, <1>1, <2>1
  <2>3. PICK u : u = SubSeq(d, k + 1, n)
    OBVIOUS
  <2>4. u \in Seq(Refers) /\ Len(u) = n - k /\ \A j \in 1 .. n - k : u[j] = d[k + j]
    BY <1>n, <1>0, <2>3
  <2>5. PICK w \in Seq(Refers) : w = RemoveAt(rest, 1)
    BY <2>1, <2>2, RemoveAtFacts
  <2>6. Len(w) = n - k /\ \A j \in 1 .. n - k : w[j] = rest[j + 1]
    <3>1. /\ Len(w) = Len(rest) - 1
          /\ \A j \in 1 .. Len(rest) - 1 : w[j] = IF j < 1 THEN rest[j] ELSE rest[j + 1]
      BY <2>1, <2>2, <2>5, RemoveAtFacts
    <3> QED
      BY <1>0, <2>1, <3>1
  <2>7. \A j \in 1 .. n - k : w[j] = u[j]
    BY <1>0, <2>1, <2>4, <2>6
  <2>8. w = u
    BY <2>4, <2>5, <2>6, <2>7, SeqEqual
  <2> QED
    BY <2>1, <2>2, <2>3, <2>5, <2>8
<1>8. /\ Only(Refs(v), Refers \ stale) = Only(Refs(b.byRule[r]), Refers \ stale)
      /\ Only(Refs(v), stale) = Only(rest, OfRule(r))
  BY <1>n, <1>0, <1>4, <1>6 DEF Cleans
<1>9. CASE r # ref.rule
  <2>1. e.byRule[r] = v
    BY <1>2, <1>3, <1>4, <1>9
  <2>2. ref \notin OfRule(r)
    BY <1>9 DEF OfRule
  <2>3. Only(RemoveAt(rest, 1), OfRule(r)) = Only(rest, OfRule(r))
    BY <1>7, <2>2, OnlyRemove
  <2> QED
    BY <1>n, <1>1, <1>7, <1>8, <2>1, <2>3 DEF Cleans
<1>10. CASE r = ref.rule
  <2>1. ref \in OfRule(r) /\ \A j \in 1 .. 1 - 1 : rest[j] \notin OfRule(r)
    BY <1>0, <1>1, <1>10 DEF OfRule, Refers
  <2>2. /\ Only(Refs(v), stale) # << >> /\ Head(Only(Refs(v), stale)) = ref
        /\ Only(RemoveAt(rest, 1), OfRule(r)) = Tail(Only(Refs(v), stale))
    BY <1>7, <1>8, <2>1, OnlyRemove
  <2>3. PICK i \in 1 .. Len(v) : /\ Refs(v)[i] \in stale /\ Refs(v)[i] = ref
                                 /\ \A j \in 1 .. i - 1 : Refs(v)[j] \notin stale
    BY <1>5, <2>2, HeadOfOnly
  <2>4. \A j \in 1 .. Len(v) : Refs(v)[j] = [rule |-> v[j].rule, id |-> v[j].id]
    BY RefsFacts
  <2>5. v[i].id = ref.id
    <3>1. Refs(v)[i] = [rule |-> v[i].rule, id |-> v[i].id]
      BY <2>4
    <3> QED
      BY <2>3, <3>1
  <2>6. PICK at : at = FirstAt(v, ref.id)
    OBVIOUS
  <2>7. /\ at \in 1 .. Len(v) /\ v[at].id = ref.id /\ Without(v, ref.id) = RemoveAt(v, at)
        /\ \A j \in 1 .. at - 1 : v[j].id # ref.id
    BY <2>5, <2>6, FirstFacts
  <2>8. v[at].rule = r
    BY <1>4, <2>7 DEF Proper, ToSet
  <2>9. Refs(v)[at] = ref
    BY <1>0, <1>1, <1>10, <2>4, <2>7, <2>8 DEF Refers
  <2>10. at = i
    BY <2>3, <2>5, <2>7, <2>9
  <2>11. e.byRule[r] = RemoveAt(v, i)
    BY <1>2, <1>3, <1>4, <1>10, <2>7, <2>10
  <2>12. Refs(e.byRule[r]) = RemoveAt(Refs(v), i)
    BY <2>11, RefsFacts
  <2>13. Only(RemoveAt(Refs(v), i), stale) = Tail(Only(Refs(v), stale))
    BY <1>5, <2>3, OnlyRemove
  <2>14. Refs(v)[i] \notin Refers \ stale
    BY <2>3
  <2>15. Only(RemoveAt(Refs(v), i), Refers \ stale) = Only(Refs(v), Refers \ stale)
    BY <1>5, <2>14, OnlyRemove
  <2> QED
    BY <1>n, <1>1, <1>7, <1>8, <2>2, <2>12, <2>13, <2>15 DEF Cleans
<1> QED
  BY <1>9, <1>10

LEMMA SweptFacts ==
  ASSUME NEW b, NEW t, Proper(b), Mirrors(b)
  PROVE  Fewer(Swept(b, t), b) /\ Mirrors(Swept(b, t)) /\ Len(Swept(b, t).order) <= Len(b.order)
<1> DEFINE stale == Stale(b, t)
           d == Only(b.order, stale)
           fresh == ToSet(b.order) \ stale
<1>0. b \in Buffers /\ b.order \in Seq(Refers) /\ \A r \in Rules : b.byRule[r] \in Seq(Entry)
  BY DEF Proper, Buffers, Refers
<1>1. d \in Seq(Refers) /\ ToSet(d) \subseteq stale
  BY <1>0, OnlyType
<1>2. Swept(b, t) = [Cleaned(b, d) EXCEPT !.order = Only(@, ToSet(@) \ stale)]
  BY DEF Swept, Stale, Cleaned
<1> HIDE DEF stale, fresh
<1>n. PICK n \in Nat : n = Len(d)
  BY <1>1
<1>3. CleanedByTurns(b, d)
  BY <1>0, <1>1, CleanedRuns
<1>4. PICK m \in Nat : \E run \in [0 .. m -> Buffers] :
        /\ m = Len(d) /\ run[0] = b /\ run[m] = Cleaned(b, d)
        /\ \A i \in 1 .. m : run[i] = RemoveEntry(run[i - 1], d[i])
  BY <1>3 DEF CleanedByTurns
<1>5. PICK run \in [0 .. n -> Buffers] :
        /\ run[0] = b /\ run[n] = Cleaned(b, d)
        /\ \A i \in 1 .. n : run[i] = RemoveEntry(run[i - 1], d[i])
  BY <1>n, <1>4
<1> DEFINE Good(k) == /\ Fewer(run[k], b) /\ run[k].order = b.order
                      /\ \A r \in Rules : Cleans(run[k], b, stale, d, k, r)
           P == {k \in 0 .. n : Good(k)}
<1>6. Good(0)
  <2>1. ASSUME NEW r \in Rules PROVE Cleans(b, b, stale, d, 0, r)
    <3>1. Only(Refs(b.byRule[r]), stale) = Only(b.order, OfRule(r) \intersect stale)
      BY <1>0, OnlyOnly DEF Mirrors
    <3>2. Only(d, OfRule(r)) = Only(b.order, stale \intersect OfRule(r))
      BY <1>0, OnlyOnly
    <3>3. OfRule(r) \intersect stale = stale \intersect OfRule(r)
      OBVIOUS
    <3>4. SubSeq(d, 0 + 1, Len(d)) = d
      BY <1>1
    <3> QED
      BY <3>1, <3>2, <3>3, <3>4 DEF Cleans
  <2> QED
    BY <1>5, <2>1, FewerSelf
<1> HIDE DEF d
<1>7. ASSUME NEW k \in 1 .. n, Good(k - 1) PROVE Good(k)
  <2>1. PICK c \in Buffers : c = run[k - 1]
    BY <1>5
  <2>2. /\ Fewer(c, b) /\ run[k] = RemoveEntry(c, d[k]) /\ Proper(c) /\ c.order = b.order
        /\ \A r \in Rules : Cleans(c, b, stale, d, k - 1, r)
    BY <1>5, <1>7, <2>1, FewerProper
  <2>3. k \in 1 .. Len(d) /\ d[k] \in Refers
    BY <1>n, <1>1
  <2>4. PICK e : e = RemoveEntry(c, d[k])
    OBVIOUS
  <2>5. Taken(e, c, d[k]) /\ e.order = c.order
    BY <2>3, <2>4, RemoveEntryTakes DEF Refers
  <2>6. Fewer(e, c)
    BY <2>2, <2>3, <2>5, TakenIsFewer DEF Refers
  <2>7. Fewer(e, b)
    BY <2>2, <2>6, FewerAgain
  <2>8. ASSUME NEW r \in Rules PROVE Cleans(e, b, stale, d, k, r)
    BY <1>1, <2>2, <2>3, <2>4, CleanStep
  <2> QED
    BY <2>2, <2>4, <2>5, <2>7, <2>8
<1>8. \A k \in 0 .. n : k \in P <=> Good(k)
  OBVIOUS
<1> HIDE DEF Good, P
<1>9. \A k \in 0 .. n : k \in P
  <2>1. 0 \in P
    BY <1>6, <1>8
  <2>2. ASSUME NEW k \in 1 .. n, k - 1 \in P PROVE k \in P
    <3>1. k - 1 \in 0 .. n /\ k \in 0 .. n
      OBVIOUS
    <3> QED
      BY <1>7, <1>8, <2>2, <3>1
  <2> QED
    BY <2>1, <2>2, Climb
<1>10. Good(n)
  BY <1>8, <1>9
<1>11. PICK c \in Buffers : c = run[n]
  BY <1>5
<1>12. /\ c = Cleaned(b, d) /\ Fewer(c, b) /\ c.order = b.order
       /\ \A r \in Rules : Cleans(c, b, stale, d, n, r)
  BY <1>5, <1>10, <1>11 DEF Good
<1>13. PICK s : s = Swept(b, t)
  OBVIOUS
<1>14. PICK o \in Seq(Refers) : o = Only(b.order, fresh) /\ Len(o) <= Len(b.order)
  BY <1>0, OnlyType
<1>15. /\ s \in Buffers /\ s.byRule = c.byRule /\ s.bodies = c.bodies /\ s.bodyTTL = c.bodyTTL
       /\ s.pending = c.pending /\ s.pendingBodies = c.pendingBodies /\ s.order = o
  <2>1. s = [c EXCEPT !.order = o]
    BY <1>2, <1>12, <1>13, <1>14 DEF fresh
  <2> QED
    BY <1>11, <1>14, <2>1 DEF Buffers, Refers
<1>16. Fewer(s, b)
  <2>1. Entries(s) = Entries(c) /\ Waiting(s) = Waiting(c)
    BY <1>15 DEF Entries, Waiting
  <2> QED
    BY <1>12, <1>15, <2>1 DEF Fewer
<1>17. ASSUME NEW r \in Rules PROVE Refs(s.byRule[r]) = Only(s.order, OfRule(r))
  <2>1. PICK v \in Seq(Entry) : v = c.byRule[r]
    BY <1>11 DEF Buffers
  <2>2. Refs(v) \in Seq(Refers)
    BY RefsFacts
  <2>3. SubSeq(d, n + 1, Len(d)) = << >>
    BY <1>n, <1>1
  <2>4. /\ Only(Refs(v), Refers \ stale) = Only(Refs(b.byRule[r]), Refers \ stale)
        /\ Only(Refs(v), stale) = << >>
    BY <1>12, <2>1, <2>3, OnlyEmpty DEF Cleans
  <2>5. ToSet(Refs(v)) \subseteq Refers \ stale
    <3>1. ToSet(Refs(v)) \intersect stale = {}
      <4>1. ToSet(<< >>) = {}
        BY DEF ToSet
      <4>2. ToSet(Only(Refs(v), stale)) = ToSet(Refs(v)) \intersect stale
        BY <2>2, OnlyType
      <4> QED
        BY <2>4, <4>1, <4>2
    <3>2. ToSet(Refs(v)) \subseteq Refers
      BY <2>2 DEF ToSet
    <3> QED
      BY <3>1, <3>2
  <2>6. Refs(v) = Only(Refs(b.byRule[r]), Refers \ stale)
    BY <2>2, <2>4, <2>5, OnlyAll
  <2>7. Refs(v) = Only(b.order, OfRule(r) \intersect (Refers \ stale))
    BY <1>0, <2>6, OnlyOnly DEF Mirrors
  <2>8. Only(s.order, OfRule(r)) = Only(b.order, fresh \intersect OfRule(r))
    BY <1>0, <1>14, <1>15, OnlyOnly
  <2>9. \A x \in ToSet(b.order) :
           x \in OfRule(r) \intersect (Refers \ stale) <=> x \in fresh \intersect OfRule(r)
    <3>1. ToSet(b.order) \subseteq Refers
      BY <1>0 DEF ToSet
    <3> QED
      BY <3>1 DEF fresh
  <2>10. Only(b.order, OfRule(r) \intersect (Refers \ stale)) = Only(b.order, fresh \intersect OfRule(r))
    BY <1>0, <2>9, OnlySame
  <2> QED
    BY <1>15, <2>1, <2>7, <2>8, <2>10
<1> QED
  BY <1>13, <1>14, <1>15, <1>16, <1>17 DEF Mirrors

-----------------------------------------------------------------------------
(* Captures joining the buffer.                                            *)
Joined(c, b, e) ==
    /\ c \in Buffers
    /\ c.byRule = [b.byRule EXCEPT ![e.rule] = Append(@, e)]
    /\ c.order = Append(b.order, Ref(e))

LEMMA RefsAppend ==
  ASSUME NEW s \in Seq(Entry), NEW e \in Entry
  PROVE  Refs(Append(s, e)) = Append(Refs(s), Ref(e))
<1>1. PICK t : t = Append(s, e)
  OBVIOUS
<1>2. PICK n \in Nat : n = Len(s)
  OBVIOUS
<1>3. t \in Seq(Entry) /\ Len(t) = n + 1 /\ t[n + 1] = e /\ \A i \in 1 .. n : t[i] = s[i]
  BY <1>1, <1>2, AppendFacts
<1>4. Refs(t) \in Seq(Refers) /\ Len(Refs(t)) = n + 1 /\ Refs(s) \in Seq(Refers) /\ Len(Refs(s)) = n
  BY <1>2, <1>3, RefsFacts
<1>5. Ref(e) \in Refers
  BY DEF Ref, Refers, Entry
<1>6. PICK u : u = Append(Refs(s), Ref(e))
  OBVIOUS
<1>7. u \in Seq(Refers) /\ Len(u) = n + 1 /\ u[n + 1] = Ref(e) /\ \A i \in 1 .. n : u[i] = Refs(s)[i]
  BY <1>4, <1>5, <1>6, AppendFacts
<1>8. /\ \A i \in 1 .. n : Refs(s)[i] = [rule |-> s[i].rule, id |-> s[i].id]
      /\ \A i \in 1 .. n + 1 : Refs(t)[i] = [rule |-> t[i].rule, id |-> t[i].id]
  <2>1. /\ \A i \in 1 .. Len(s) : Refs(s)[i] = [rule |-> s[i].rule, id |-> s[i].id]
        /\ \A i \in 1 .. Len(t) : Refs(t)[i] = [rule |-> t[i].rule, id |-> t[i].id]
    BY <1>3, RefsFacts
  <2> QED
    BY <1>2, <1>3, <2>1
<1>9. ASSUME NEW i \in 1 .. n + 1 PROVE Refs(t)[i] = u[i]
  <2>1. CASE i = n + 1
    BY <1>3, <1>7, <1>8, <2>1 DEF Ref
  <2>2. CASE i # n + 1
    <3>1. i \in 1 .. n
      BY <1>2, <2>2
    <3> QED
      BY <1>3, <1>7, <1>8, <3>1
  <2> QED
    BY <2>1, <2>2
<1>10. Refs(t) = u
  BY <1>4, <1>7, <1>9, SeqEqual
<1> QED
  BY <1>1, <1>6, <1>10

LEMMA JoinedFacts ==
  ASSUME NEW b \in Buffers, NEW c, NEW e \in Entry, Joined(c, b, e)
  PROVE  /\ Entries(c) = Entries(b) \union {e}
         /\ \A r \in Rules : r # e.rule => c.byRule[r] = b.byRule[r]
         /\ ToSet(c.byRule[e.rule]) = ToSet(b.byRule[e.rule]) \union {e}
         /\ \A r \in Rules, id \in Id :
               Single(b.byRule[r], id) /\ id # e.id => Single(c.byRule[r], id)
         /\ e.id \notin Ids(Entries(b)) => Single(c.byRule[e.rule], e.id)
         /\ Mirrors(b) => Mirrors(c)
<1>0. b.byRule \in [Rules -> Seq(Entry)] /\ b.order \in Seq(Refers) /\ e.rule \in Rules /\ e.id \in Id
  BY DEF Buffers, Refers, Entry
<1>1. /\ \A r \in Rules : r # e.rule => c.byRule[r] = b.byRule[r]
      /\ c.byRule[e.rule] = Append(b.byRule[e.rule], e)
  BY <1>0 DEF Joined
<1>2. PICK s, t : s \in Seq(Entry) /\ s = b.byRule[e.rule] /\ t = c.byRule[e.rule]
  BY <1>0
<1>3. PICK n \in Nat : n = Len(s)
  BY <1>2
<1>4. /\ t \in Seq(Entry) /\ DOMAIN t = 1 .. n + 1 /\ DOMAIN s = 1 .. n
      /\ t[n + 1] = e /\ \A i \in 1 .. n : t[i] = s[i]
      /\ ToSet(t) = ToSet(s) \union {e}
  BY <1>1, <1>2, <1>3, AppendFacts
<1>5. Entries(c) = Entries(b) \union {e}
  <2>0. /\ \A x : x \in Entries(c) <=> \E r \in Rules : x \in ToSet(c.byRule[r])
        /\ \A x : x \in Entries(b) <=> \E r \in Rules : x \in ToSet(b.byRule[r])
    BY DEF Entries
  <2>1. \A r \in Rules : \A x : x \in ToSet(c.byRule[r]) <=>
            x \in ToSet(b.byRule[r]) \/ (r = e.rule /\ x = e)
    <3>1. ToSet(c.byRule[e.rule]) = ToSet(b.byRule[e.rule]) \union {e}
      BY <1>2, <1>4
    <3>2. ASSUME NEW r \in Rules, r # e.rule PROVE c.byRule[r] = b.byRule[r]
      BY <1>1, <3>2
    <3> QED
      BY <3>1, <3>2
  <2> QED
    BY <1>0, <2>0, <2>1
<1>6. ASSUME NEW id \in Id, id # e.id, Single(s, id) PROVE Single(t, id)
  BY <1>4, <1>6 DEF Single, At
<1>7. ASSUME e.id \notin Ids(Entries(b)) PROVE Single(t, e.id)
  <2>1. \A i \in 1 .. n : s[i].id # e.id
    <3>1. ASSUME NEW i \in 1 .. n, s[i].id = e.id PROVE FALSE
      <4>1. s[i] \in Entries(b)
        BY <1>0, <1>2, <1>4 DEF Entries, ToSet
      <4> QED
        BY <1>7, <3>1, <4>1 DEF Ids
    <3> QED
      BY <3>1
  <2> QED
    BY <1>4, <2>1 DEF Single, At
<1>8. ASSUME Mirrors(b) PROVE Mirrors(c)
  <2>0. Ref(e) \in Refers
    BY <1>0 DEF Ref, Refers
  <2>1. ASSUME NEW r \in Rules PROVE Refs(c.byRule[r]) = Only(c.order, OfRule(r))
    <3>1. c.order = Append(b.order, Ref(e))
      BY DEF Joined
    <3>2. Only(Append(b.order, Ref(e)), OfRule(r)) =
              IF Ref(e) \in OfRule(r) THEN Append(Only(b.order, OfRule(r)), Ref(e))
              ELSE Only(b.order, OfRule(r))
      <4>1. PICK o, ref : o \in Seq(Refers) /\ o = b.order /\ ref \in Refers /\ ref = Ref(e)
        BY <1>0, <2>0
      <4>2. o \in Seq(Refers) /\ ref \in Refers
        BY <4>1
      <4>3. Only(Append(o, ref), OfRule(r)) =
                IF ref \in OfRule(r) THEN Append(Only(o, OfRule(r)), ref) ELSE Only(o, OfRule(r))
        BY <4>2, OnlyAppend
      <4> QED
        BY <4>1, <4>3
    <3>3. Ref(e) \in OfRule(r) <=> r = e.rule
      BY <1>0 DEF Ref, OfRule
    <3>4. CASE r = e.rule
      <4>1. Refs(t) = Append(Refs(s), Ref(e))
        BY <1>1, <1>2, RefsAppend
      <4> QED
        BY <1>2, <1>8, <3>1, <3>2, <3>3, <3>4, <4>1 DEF Mirrors
    <3>5. CASE r # e.rule
      BY <1>1, <1>8, <3>1, <3>2, <3>3, <3>5 DEF Mirrors
    <3> QED
      BY <3>4, <3>5
  <2> QED
    BY <2>1 DEF Mirrors
<1>9. \A r \in Rules, id \in Id : Single(b.byRule[r], id) /\ id # e.id => Single(c.byRule[r], id)
  BY <1>1, <1>2, <1>6
<1> QED
  BY <1>1, <1>2, <1>4, <1>5, <1>7, <1>8, <1>9

(* What Add writes before it evicts.                                       *)
Written(b, e) ==
    LET own == IF e.body THEN {e.id} ELSE {}
    IN  [b EXCEPT !.byRule[e.rule] = Append(@, e),
                  !.order          = Append(@, Ref(e)),
                  !.pending        = Append(@, Ref(e)),
                  !.bodies         = @ \union own,
                  !.bodyTTL        = @ \union own,
                  !.pendingBodies  = @ \union own]

LEMMA WrittenFacts ==
  ASSUME NEW b \in Buffers, NEW e \in Entry
  PROVE  /\ Joined(Written(b, e), b, e) /\ Added(b, e) = Evicted(Written(b, e))
         /\ ToSet(Written(b, e).pending) = ToSet(b.pending) \union {Ref(e)}
         /\ Written(b, e).bodies = b.bodies \union (IF e.body THEN {e.id} ELSE {})
         /\ Written(b, e).bodyTTL = b.bodyTTL \union (IF e.body THEN {e.id} ELSE {})
         /\ Written(b, e).pendingBodies = b.pendingBodies \union (IF e.body THEN {e.id} ELSE {})
<1> DEFINE c == Written(b, e)
           own == IF e.body THEN {e.id} ELSE {}
<1>1. /\ b.byRule \in [Rules -> Seq(Entry)] /\ b.order \in Seq(Refers) /\ b.pending \in Seq(Refers)
      /\ e.rule \in Rules /\ e.id \in Id /\ own \subseteq Id
      /\ b.bodies \subseteq Id /\ b.bodyTTL \subseteq Id /\ b.pendingBodies \subseteq Id
  BY DEF Buffers, Refers, Entry
<1>2. Ref(e) \in Refers
  BY <1>1 DEF Ref, Refers
<1>3. /\ Append(b.order, Ref(e)) \in Seq(Refers) /\ Append(b.pending, Ref(e)) \in Seq(Refers)
      /\ ToSet(Append(b.pending, Ref(e))) = ToSet(b.pending) \union {Ref(e)}
      /\ Append(b.byRule[e.rule], e) \in Seq(Entry)
  <2>1. b.byRule[e.rule] \in Seq(Entry)
    BY <1>1
  <2> QED
    BY <1>1, <1>2, <2>1, AppendFacts
<1>4. c = [b EXCEPT !.byRule[e.rule] = Append(@, e), !.order = Append(@, Ref(e)),
                    !.pending = Append(@, Ref(e)), !.bodies = @ \union own,
                    !.bodyTTL = @ \union own, !.pendingBodies = @ \union own]
  BY DEF Written
<1>5. Added(b, e) = Evicted(c)
  BY DEF Added, Written
<1> HIDE DEF c, own
<1>6. /\ c \in Buffers /\ c.byRule = [b.byRule EXCEPT ![e.rule] = Append(@, e)]
      /\ c.order = Append(b.order, Ref(e)) /\ c.pending = Append(b.pending, Ref(e))
      /\ c.bodies = b.bodies \union own /\ c.bodyTTL = b.bodyTTL \union own
      /\ c.pendingBodies = b.pendingBodies \union own
  BY <1>1, <1>3, <1>4 DEF Buffers, Refers
<1> QED
  BY <1>3, <1>5, <1>6 DEF Joined, c, own

-----------------------------------------------------------------------------
(* Hydration, entry by entry.                                              *)
HydrateTurn(c, e) ==
    [c EXCEPT !.byRule[e.rule] = Append(@, e), !.order = Append(@, Ref(e))]

Rejoined(b, es) ==
    FoldLeft(LAMBDA acc, e : [acc EXCEPT !.byRule[e.rule] = Append(@, e),
                                         !.order = Append(@, Ref(e))],
             b, es)

RejoinedByTurns(b, es) ==
    \E n \in Nat : \E run \in [0 .. n -> Buffers] :
        /\ n = Len(es) /\ run[0] = b /\ run[n] = Rejoined(b, es)
        /\ \A i \in 1 .. n : run[i] = HydrateTurn(run[i - 1], es[i])

LEMMA HydrateTurnFacts ==
  ASSUME NEW b \in Buffers, NEW e \in Entry
  PROVE  /\ HydrateTurn(b, e) \in Buffers /\ Joined(HydrateTurn(b, e), b, e)
         /\ HydrateTurn(b, e).pending = b.pending
         /\ HydrateTurn(b, e).pendingBodies = b.pendingBodies
         /\ HydrateTurn(b, e).bodies = b.bodies /\ HydrateTurn(b, e).bodyTTL = b.bodyTTL
<1> DEFINE c == HydrateTurn(b, e)
<1>1. /\ b.byRule \in [Rules -> Seq(Entry)] /\ b.order \in Seq(Refers)
      /\ e.rule \in Rules /\ e.id \in Id
  BY DEF Buffers, Refers, Entry
<1>2. Ref(e) \in Refers
  BY <1>1 DEF Ref, Refers
<1>3. Append(b.order, Ref(e)) \in Seq(Refers) /\ Append(b.byRule[e.rule], e) \in Seq(Entry)
  <2>1. b.byRule[e.rule] \in Seq(Entry)
    BY <1>1
  <2> QED
    BY <1>1, <1>2, <2>1, AppendFacts
<1>4. c = [b EXCEPT !.byRule[e.rule] = Append(@, e), !.order = Append(@, Ref(e))]
  BY DEF HydrateTurn
<1> HIDE DEF c
<1>5. /\ c \in Buffers /\ c.byRule = [b.byRule EXCEPT ![e.rule] = Append(@, e)]
      /\ c.order = Append(b.order, Ref(e)) /\ c.pending = b.pending
      /\ c.bodies = b.bodies /\ c.bodyTTL = b.bodyTTL /\ c.pendingBodies = b.pendingBodies
  BY <1>1, <1>3, <1>4 DEF Buffers, Refers
<1> QED
  BY <1>5 DEF Joined, c

LEMMA RejoinedRuns ==
  ASSUME NEW b \in Buffers, NEW d \in Seq(Entry)
  PROVE  RejoinedByTurns(b, d)
<1> DEFINE n == Len(d)
           step == [i \in 1 .. n |-> [c \in Buffers |-> HydrateTurn(c, d[i])]]
           Fix(f) == f = [t \in SUBSET (1 .. n) |->
                            IF t = {} THEN b ELSE HydrateTurn(f[t \ {Max(t)}], d[Max(t)])]
           f == CHOOSE f : Fix(f)
<1>1. n \in Nat /\ DOMAIN d = 1 .. n /\ \A i \in 1 .. n : d[i] \in Entry
  OBVIOUS
<1>2. Rejoined(b, d) = f[1 .. n]
  BY <1>1 DEF Rejoined, FoldLeft, MapThenFoldSet, HydrateTurn
<1>3. step \in [1 .. n -> [Buffers -> Buffers]]
  BY <1>1, HydrateTurnFacts
<1>4. \A i \in 1 .. n, c \in Buffers : step[i][c] = HydrateTurn(c, d[i])
  OBVIOUS
<1> HIDE DEF n, step
<1>5. PICK g \in [SUBSET (1 .. n) -> Buffers] : FoldsOver(g, n, b, step)
  BY <1>1, <1>3, FoldExists
<1>6. Fix(g)
  <2>1. ASSUME NEW t \in SUBSET (1 .. n), t # {}
        PROVE  g[t] = HydrateTurn(g[t \ {Max(t)}], d[Max(t)])
    <3>1. Max(t) \in 1 .. n
      BY <1>1, <2>1, MaxIsIn
    <3>2. t \ {Max(t)} \in SUBSET (1 .. n) /\ g[t \ {Max(t)}] \in Buffers
      BY <1>5
    <3> QED
      BY <1>4, <1>5, <2>1, <3>1, <3>2 DEF FoldsOver
  <2>2. \A t \in SUBSET (1 .. n) : t = {} => g[t] = b
    BY <1>5 DEF FoldsOver
  <2> QED
    BY <1>5, <2>1, <2>2
<1>7. Fix(f)
  <2> HIDE DEF Fix
  <2> QED
    BY <1>6
<1> HIDE DEF f
<1>8. f[{}] = b
  BY <1>7
<1>9. ASSUME NEW t \in SUBSET (1 .. n), t # {}, f[t \ {Max(t)}] \in Buffers
      PROVE  f[t] = step[Max(t)][f[t \ {Max(t)}]]
  <2>1. Max(t) \in 1 .. n
    BY <1>1, <1>9, MaxIsIn
  <2>2. f[t] = HydrateTurn(f[t \ {Max(t)}], d[Max(t)])
    BY <1>7, <1>9
  <2> QED
    BY <1>4, <1>9, <2>1, <2>2
<1> HIDE DEF Fix
<1>10. Solves(f, n, Buffers, b, step)
  BY <1>1, <1>3, <1>8, <1>9 DEF Solves
<1>r. PICK run \in [0 .. n -> Buffers] : Follows(run, n, b, step) /\ run[n] = f[1 .. n]
  BY <1>10, FoldRuns DEF Runs
<1>11. ASSUME NEW i \in 1 .. n PROVE run[i] = HydrateTurn(run[i - 1], d[i])
  <2>1. run[i - 1] \in Buffers
    BY <1>1, <1>r
  <2> QED
    BY <1>4, <1>r, <2>1 DEF Follows
<1> QED
  BY <1>1, <1>2, <1>r, <1>11 DEF Follows, RejoinedByTurns, n

(* c is b with some of the captures es put in, none of them pending.       *)
More(c, b, es) ==
    /\ c \in Buffers
    /\ \A r \in Rules : /\ ToSet(b.byRule[r]) \subseteq ToSet(c.byRule[r])
                        /\ \A e \in ToSet(c.byRule[r]) :
                              e \in ToSet(b.byRule[r]) \/ (e \in es /\ e.rule = r)
    /\ \A r \in Rules, id \in Id :
          Single(b.byRule[r], id) /\ id \notin Ids(es) => Single(c.byRule[r], id)
    /\ c.pending = b.pending /\ c.pendingBodies = b.pendingBodies
    /\ c.bodies = b.bodies /\ c.bodyTTL = b.bodyTTL
    /\ Mirrors(c)

LEMMA RejoinedFacts ==
  ASSUME NEW b \in Buffers, NEW d \in Seq(Entry), Mirrors(b)
  PROVE  Hydrated(b, d) = Evicted(Rejoined(b, d)) /\ More(Rejoined(b, d), b, ToSet(d))
<1>1. Hydrated(b, d) = Evicted(Rejoined(b, d))
  BY DEF Hydrated, Rejoined
<1>2. RejoinedByTurns(b, d)
  BY RejoinedRuns
<1>3. PICK n \in Nat : \E run \in [0 .. n -> Buffers] :
        /\ n = Len(d) /\ run[0] = b /\ run[n] = Rejoined(b, d)
        /\ \A i \in 1 .. n : run[i] = HydrateTurn(run[i - 1], d[i])
  BY <1>2 DEF RejoinedByTurns
<1>4. PICK run \in [0 .. n -> Buffers] :
        /\ n = Len(d) /\ run[0] = b /\ run[n] = Rejoined(b, d)
        /\ \A i \in 1 .. n : run[i] = HydrateTurn(run[i - 1], d[i])
  BY <1>3
<1> DEFINE P == {k \in 0 .. n : More(run[k], b, ToSet(d))}
<1>5. More(run[0], b, ToSet(d))
  <2>1. More(b, b, ToSet(d))
    BY DEF More
  <2> QED
    BY <1>4, <2>1
<1>6. ASSUME NEW k \in 1 .. n, More(run[k - 1], b, ToSet(d)) PROVE More(run[k], b, ToSet(d))
  <2>1. PICK c, e, h : c \in Buffers /\ e \in Entry /\ c = run[k - 1] /\ e = d[k] /\ h = run[k]
    BY <1>4
  <2>0. c \in Buffers /\ e \in Entry
    BY <2>1
  <2>2. /\ e \in ToSet(d) /\ h \in Buffers /\ Joined(h, c, e)
        /\ h.pending = c.pending /\ h.pendingBodies = c.pendingBodies
        /\ h.bodies = c.bodies /\ h.bodyTTL = c.bodyTTL
    <3>1. h = HydrateTurn(c, e)
      BY <1>4, <2>1
    <3>2. e \in ToSet(d)
      BY <1>4, <2>1 DEF ToSet
    <3> QED
      BY <2>0, <3>1, <3>2, HydrateTurnFacts
  <2>3. More(c, b, ToSet(d))
    BY <1>6, <2>1
  <2>4. /\ \A r \in Rules : r # e.rule => h.byRule[r] = c.byRule[r]
        /\ ToSet(h.byRule[e.rule]) = ToSet(c.byRule[e.rule]) \union {e}
        /\ \A r \in Rules, id \in Id :
               Single(c.byRule[r], id) /\ id # e.id => Single(h.byRule[r], id)
        /\ Mirrors(h)
    <3>1. Mirrors(c)
      BY <2>3 DEF More
    <3> QED
      BY <2>0, <2>2, <3>1, JoinedFacts
  <2>5. ASSUME NEW r \in Rules
        PROVE  /\ ToSet(b.byRule[r]) \subseteq ToSet(h.byRule[r])
               /\ \A x \in ToSet(h.byRule[r]) :
                              x \in ToSet(b.byRule[r]) \/ (x \in ToSet(d) /\ x.rule = r)
    <3>1. CASE r = e.rule
      BY <2>2, <2>3, <2>4, <3>1 DEF More
    <3>2. CASE r # e.rule
      BY <2>3, <2>4, <3>2 DEF More
    <3> QED
      BY <3>1, <3>2
  <2>6. ASSUME NEW r \in Rules, NEW id \in Id, Single(b.byRule[r], id), id \notin Ids(ToSet(d))
        PROVE  Single(h.byRule[r], id)
    <3>1. id # e.id
      BY <2>2, <2>6 DEF Ids
    <3>2. Single(c.byRule[r], id)
      BY <2>3, <2>6 DEF More
    <3> QED
      BY <2>4, <3>1, <3>2
  <2>7. More(h, b, ToSet(d))
    BY <2>2, <2>3, <2>4, <2>5, <2>6 DEF More
  <2> QED
    BY <2>1, <2>7
<1>7. \A k \in 0 .. n : k \in P <=> More(run[k], b, ToSet(d))
  OBVIOUS
<1> HIDE DEF P
<1>8. \A k \in 0 .. n : k \in P
  <2>1. 0 \in P
    BY <1>5, <1>7
  <2>2. ASSUME NEW k \in 1 .. n, k - 1 \in P PROVE k \in P
    <3>1. k - 1 \in 0 .. n /\ k \in 0 .. n
      OBVIOUS
    <3> QED
      BY <1>6, <1>7, <2>2, <3>1
  <2> QED
    BY <2>1, <2>2, Climb
<1> QED
  BY <1>1, <1>4, <1>7, <1>8

-----------------------------------------------------------------------------
(* What is kept of the whole state when captures leave the buffer.         *)
LEMMA KeptProper == \A b \in Buffers : Kept(b) => Proper(b)
<1> SUFFICES ASSUME NEW b \in Buffers, Kept(b) PROVE Proper(b)
  OBVIOUS
<1>1. Entries(b) \subseteq Known(b)
  BY DEF Known
<1> QED
  BY <1>1 DEF Kept, Named, Proper

LEMMA FewerKeeps == \A b \in Buffers : \A c : Kept(b) /\ Fewer(c, b) => Kept(c)
<1> SUFFICES ASSUME NEW b \in Buffers, NEW c, Kept(b), Fewer(c, b) PROVE Kept(c)
  OBVIOUS
<1>1. Proper(b)
  BY KeptProper
<1>2. Entries(c) \subseteq Entries(b) /\ Known(c) \subseteq Known(b) /\ Waiting(c) \subseteq Waiting(b)
      /\ Ids(Entries(c)) \subseteq Ids(Entries(b))
  <2>1. Entries(c) \subseteq Entries(b) /\ ToSet(c.pending) \subseteq ToSet(b.pending)
    BY FewerEntries DEF Fewer
  <2> QED
    BY <2>1 DEF Known, Waiting, Ids
<1>3. ToSet(b.pending) \subseteq [rule : Rules, id : Id]
  BY BufferParts
<1>4. ASSUME NEW e \in Entries(c), e.id \in Waiting(b)
      PROVE  Single(b.byRule[e.rule], e.id) /\ e.id \in Waiting(c)
  <2>1. PICK p \in ToSet(b.pending) : p.id = e.id
    BY <1>4 DEF Waiting, Ids
  <2>2. p = Ref(e)
    BY <1>1, <1>2, <2>1 DEF Proper
  <2>3. Single(b.byRule[e.rule], e.id)
    BY <2>1, <2>2 DEF Kept, Tracked, Ref
  <2> QED
    BY <1>4, <2>3 DEF Fewer
<1>5. Named(c)
  <2>1. ToSet(c.pending) \subseteq ToSet(b.pending)
        /\ \A r \in Rules : ToSet(c.byRule[r]) \subseteq ToSet(b.byRule[r])
    BY DEF Fewer
  <2> QED
    BY <1>2, <2>1 DEF Kept, Named
<1>6. Apart(c)
  BY <1>2 DEF Kept, Apart
<1>7. Tracked(c)
  <2>1. ASSUME NEW p \in ToSet(c.pending) PROVE Single(c.byRule[p.rule], p.id)
    <3>1. p \in ToSet(b.pending)
      BY DEF Fewer
    <3>2. p.rule \in Rules /\ p.id \in Id /\ Single(b.byRule[p.rule], p.id)
      BY <1>3, <3>1 DEF Kept, Tracked
    <3> QED
      BY <3>2 DEF Fewer
  <2>2. ASSUME NEW e \in Entries(c), e.id \in Waiting(c), e.body
        PROVE  e.id \in c.bodies \intersect c.pendingBodies
    <3>1. e.id \in Waiting(b) /\ e \in Entries(b)
      BY <1>2, <2>2
    <3>2. e.id \in b.bodies \intersect b.pendingBodies
      BY <2>2, <3>1 DEF Kept, Tracked
    <3>3. Single(b.byRule[e.rule], e.id)
      BY <1>4, <3>1
    <3> QED
      BY <3>2, <3>3 DEF Fewer
  <2> QED
    BY <2>1, <2>2 DEF Tracked
<1>8. Remembered(c)
  BY <1>2, <1>4 DEF Kept, Remembered
<1>9. Owned(c)
  BY <1>1, FewerProper DEF Proper
<1> QED
  BY <1>5, <1>6, <1>7, <1>8, <1>9 DEF Kept

LEMMA FewerKeepsNext == (\A b \in Buffers : \A c : Kept(b) /\ Fewer(c, b) => Kept(c))'
  BY FewerKeeps, PTL

(* The same, when nothing else that counts has changed.                    *)
LEMMA SameRest ==
  ASSUME NEW c, Kept(c), \A t \in Flushers : ToSet(flush'[t].reqs) = ToSet(flush[t].reqs),
         UNCHANGED <<hydration, store, failed, capturing, lastId, now>>
  PROVE  Kept(c)'
<1>1. "run" \in Flushers /\ "close" \in Flushers
  BY DEF Flushers
<1>2. \A t \in Flushers : Batch(t)' = Batch(t)
  BY DEF Batch
<1>3. Batch("run")' = Batch("run") /\ Batch("close")' = Batch("close")
  BY <1>1 DEF Batch
<1>4. Elsewhere' = Elsewhere
  BY <1>3 DEF Elsewhere
<1>5. Stored' = Stored
  BY DEF Stored
<1>6. Named(c)'
  BY <1>4 DEF Kept, Named, Known
<1>7. Apart(c)'
  <2>1. \A t \in Flushers : \A x \in Batch(t)' :
           x.id \notin Waiting(c) \union Ids(capturing') \union Stored'
    BY <1>2, <1>5 DEF Kept, Apart
  <2>2. /\ \A x \in capturing' : x.id \notin Waiting(c) \union Ids(Entries(c)) \union Stored'
        /\ \A x \in Batch("run")' : x.id \notin Ids(Batch("close")')
        /\ Waiting(c) \intersect Stored' = {}
    BY <1>3, <1>5 DEF Kept, Apart
  <2> QED
    BY <2>1, <2>2 DEF Apart
<1>8. Tracked(c)' /\ Owned(c)'
  BY DEF Kept, Tracked, Owned
<1>9. Remembered(c)'
  <2>1. \A id : InBatch(id)' <=> InBatch(id)
    BY DEF InBatch
  <2> QED
    BY <2>1 DEF Kept, Remembered
<1> QED
  BY <1>6, <1>7, <1>8, <1>9 DEF Kept

LEMMA FewerStep ==
  ASSUME IInv, Fewer(buf', buf), Mirrors(buf'), Len(buf'.order) <= Len(buf.order),
         \A t \in Flushers : ToSet(flush'[t].reqs) = ToSet(flush[t].reqs),
         UNCHANGED <<hydration, store, failed, capturing, lastId, now>>
  PROVE  Kept(buf)' /\ Mirrors(buf)' /\ Len(buf'.order) <= BufferCap /\ buf' \in Buffers
<1>1. PICK b, c : b = buf /\ c = buf'
  OBVIOUS
<1>2. b \in Buffers /\ Kept(b) /\ Fewer(c, b)
  BY <1>1 DEF IInv, TypeOK
<1>3. Kept(c)
  BY <1>2, FewerKeeps
<1>4. Kept(c)'
  BY <1>3, SameRest
<1>5. Kept(buf)'
  BY <1>1, <1>4 DEF Kept, Named, Apart, Tracked, Remembered, Owned, Known
<1>6. Mirrors(buf)'
  BY DEF Mirrors
<1>7. c \in Buffers
  BY <1>2 DEF Fewer
<1>8. Len(buf'.order) <= BufferCap
  <2>1. b.order \in Seq(Refers) /\ c.order \in Seq(Refers) /\ Len(b.order) <= BufferCap
    BY <1>1, <1>2, <1>7 DEF IInv, Buffers, Refers
  <2>2. Len(b.order) \in Nat /\ Len(c.order) \in Nat
    BY <2>1
  <2> QED
    BY <1>1, <2>1, <2>2, BufferAssumption
<1> QED
  BY <1>1, <1>5, <1>6, <1>7, <1>8

-----------------------------------------------------------------------------
(* The steps that put captures into the buffer.                            *)
LEMMA KeptOf ==
  ASSUME NEW c, c = buf', Kept(c)', Mirrors(c)
  PROVE  Kept(buf)' /\ Mirrors(buf)'
<1>1. Kept(buf)'
  BY DEF Kept, Named, Apart, Tracked, Remembered, Owned, Known
<1>2. Mirrors(buf)'
  BY DEF Mirrors
<1> QED
  BY <1>1, <1>2

LEMMA KeptProperNext == (\A b \in Buffers : Kept(b) => Proper(b))'
  BY KeptProper, PTL

LEMMA EvictStep ==
  ASSUME NEW d \in Buffers, Kept(d)', Mirrors(d), buf' = Evicted(d)
  PROVE  Kept(buf)' /\ Mirrors(buf)' /\ Len(buf'.order) <= BufferCap /\ buf' \in Buffers
<1>1. PICK c : c = buf'
  OBVIOUS
<1>2. Proper(d)
  BY KeptProperNext
<1>3. Fewer(c, d) /\ Mirrors(c) /\ Len(c.order) <= BufferCap
  BY <1>1, <1>2, EvictedFacts
<1>4. Kept(c)' /\ c \in Buffers
  BY <1>3, FewerKeepsNext DEF Fewer
<1> QED
  BY <1>1, <1>3, <1>4, KeptOf

LEMMA KnownTypes ==
  ASSUME TypeOK
  PROVE  /\ Known(buf) \subseteq Entry /\ Elsewhere \subseteq Entry
         /\ \A x \in Known(buf) : x.id \in Id /\ x.rule \in Rules
         /\ Entries(buf) \subseteq Known(buf) /\ Elsewhere \subseteq Known(buf)
         /\ ToSet(buf.pending) \subseteq Refers
         /\ ToSet(hydration.page) \subseteq Entry
         /\ \A t \in Flushers : Batch(t) \subseteq Entry /\ Batch(t) \subseteq Elsewhere
<1>1. buf \in Buffers
  BY DEF TypeOK
<1>2. Entries(buf) \subseteq Entry /\ ToSet(buf.pending) \subseteq Refers
  BY <1>1, BufferParts DEF Refers
<1>3. \A t \in Flushers : flush[t].reqs \in Seq(Entry)
  BY DEF TypeOK
<1>4. \A t \in Flushers : Batch(t) \subseteq Entry
  BY <1>3 DEF Batch, ToSet
<1>5. ToSet(hydration.page) \subseteq Entry
  <2>1. hydration.page \in Seq(Entry)
    BY DEF TypeOK
  <2> QED
    BY <2>1 DEF ToSet
<1>6. "run" \in Flushers /\ "close" \in Flushers /\ \A t \in Flushers : t = "run" \/ t = "close"
  BY DEF Flushers
<1>7. Elsewhere \subseteq Entry
  BY <1>4, <1>5, <1>6 DEF Elsewhere, TypeOK
<1>8. \A t \in Flushers : Batch(t) \subseteq Elsewhere
  BY <1>6 DEF Elsewhere
<1>9. Known(buf) \subseteq Entry
  BY <1>2, <1>7 DEF Known
<1>10. \A x \in Known(buf) : x.id \in Id /\ x.rule \in Rules
  BY <1>9 DEF Entry
<1> QED
  BY <1>2, <1>4, <1>5, <1>7, <1>8, <1>9, <1>10 DEF Known

LEMMA AddKeeps ==
  ASSUME IInv, NEW e \in capturing, Add(e)
  PROVE  Kept(buf)' /\ Mirrors(buf)' /\ Len(buf'.order) <= BufferCap /\ buf' \in Buffers
<1>1. PICK b, d : b = buf /\ d = Written(b, e)
  OBVIOUS
<1>2. b \in Buffers /\ Kept(b) /\ Mirrors(b) /\ Proper(b)
  BY <1>1, KeptProper DEF IInv, TypeOK
<1>3. /\ capturing' = capturing \ {e} /\ lastId' = lastId /\ flush' = flush
      /\ hydration' = hydration /\ store' = store /\ failed' = failed /\ now' = now
  BY DEF Add, storeVars, processVars
<1>4. e \in Entry /\ e \in Known(b) /\ e.id \in Id
  BY <1>1, KnownTypes DEF IInv, TypeOK, Known, Elsewhere
<1>5. /\ Joined(d, b, e) /\ buf' = Evicted(d)
      /\ ToSet(d.pending) = ToSet(b.pending) \union {Ref(e)}
      /\ d.bodies = b.bodies \union (IF e.body THEN {e.id} ELSE {})
      /\ d.bodyTTL = b.bodyTTL \union (IF e.body THEN {e.id} ELSE {})
      /\ d.pendingBodies = b.pendingBodies \union (IF e.body THEN {e.id} ELSE {})
  BY <1>1, <1>2, <1>4, WrittenFacts DEF Add
<1>6. e.id \notin Waiting(b) \union Ids(Entries(b)) \union Stored
  BY <1>2 DEF Kept, Apart
<1>7. /\ d \in Buffers /\ Mirrors(d)
      /\ Entries(d) = Entries(b) \union {e}
      /\ \A r \in Rules : r # e.rule => d.byRule[r] = b.byRule[r]
      /\ ToSet(d.byRule[e.rule]) = ToSet(b.byRule[e.rule]) \union {e}
      /\ \A r \in Rules, id \in Id :
               Single(b.byRule[r], id) /\ id # e.id => Single(d.byRule[r], id)
      /\ Single(d.byRule[e.rule], e.id)
  <2>1. d \in Buffers
    BY <1>5 DEF Joined
  <2>2. e.id \notin Ids(Entries(b))
    BY <1>6
  <2> QED
    BY <1>2, <1>4, <1>5, <2>1, <2>2, JoinedFacts
<1>8. Waiting(d) = Waiting(b) \union {e.id}
  <2>1. Ref(e).id = e.id
    BY DEF Ref
  <2>2. \A id : id \in Waiting(d) <=> id \in Waiting(b) \/ id = e.id
    BY <1>5, <2>1 DEF Waiting, Ids
  <2> QED
    BY <2>2
<1>9. Known(d)' \subseteq Known(b) /\ Elsewhere' \subseteq Elsewhere /\ Stored' = Stored
  BY <1>3, <1>4, <1>7 DEF Known, Elsewhere, Batch, Stored
<1>10. Named(d)'
  <2>1. \A p \in ToSet(d.pending) :
          p.id <= lastId' /\ \A x \in Known(d)' : x.id = p.id => p = Ref(x)
    <3>1. \A p \in ToSet(b.pending) :
            p.id <= lastId' /\ \A x \in Known(d)' : x.id = p.id => p = Ref(x)
      BY <1>2, <1>3, <1>9 DEF Kept, Named
    <3>2. Ref(e).id <= lastId' /\ \A x \in Known(d)' : x.id = Ref(e).id => Ref(e) = Ref(x)
      <4>1. Ref(e).id = e.id
        BY DEF Ref
      <4> QED
        BY <1>2, <1>3, <1>4, <1>9, <4>1 DEF Kept, Named
    <3> QED
      BY <1>5, <3>1, <3>2
  <2>2. /\ \A x, y \in Known(d)' : x.id = y.id => x = y
        /\ \A x \in Known(d)' : x.id <= lastId'
    BY <1>2, <1>3, <1>9 DEF Kept, Named
  <2>3. ASSUME NEW r \in Rules, NEW x \in ToSet(d.byRule[r]) PROVE x.rule = r
    BY <1>2, <1>7, <2>3 DEF Kept, Named
  <2> QED
    BY <2>1, <2>2, <2>3 DEF Named
<1>11. Apart(d)'
  <2>1. ASSUME NEW x \in capturing'
        PROVE  x.id \notin Waiting(d) \union Ids(Entries(d)) \union Stored'
    <3>1. x \in capturing /\ x # e /\ x \in Known(b)
      BY <1>3 DEF Known, Elsewhere
    <3>2. x.id # e.id
      BY <1>2, <1>4, <3>1 DEF Kept, Named
    <3>3. x.id \notin Waiting(b) \union Ids(Entries(b)) \union Stored
      BY <1>2, <3>1 DEF Kept, Apart
    <3> QED
      BY <1>7, <1>8, <1>9, <3>2, <3>3 DEF Ids
  <2>2. ASSUME NEW t \in Flushers, NEW x \in Batch(t)'
        PROVE  x.id \notin Waiting(d) \union Ids(capturing') \union Stored'
    <3>1. x.id \notin Waiting(b) \union Ids(capturing) \union Stored
      BY <1>2, <1>3 DEF Kept, Apart, Batch
    <3> QED
      BY <1>3, <1>8, <1>9, <3>1 DEF Ids
  <2>3. \A x \in Batch("run")' : x.id \notin Ids(Batch("close")')
    BY <1>2, <1>3 DEF Kept, Apart, Batch
  <2>4. Waiting(d) \intersect Stored' = {}
    BY <1>2, <1>6, <1>8, <1>9 DEF Kept, Apart
  <2> QED
    BY <2>1, <2>2, <2>3, <2>4 DEF Apart
<1>12. Tracked(d)
  <2>1. ASSUME NEW p \in ToSet(d.pending) PROVE Single(d.byRule[p.rule], p.id)
    <3>1. CASE p = Ref(e)
      BY <1>7, <3>1 DEF Ref
    <3>2. CASE p \in ToSet(b.pending)
      <4>1. p.rule \in Rules /\ p.id \in Id
        BY <1>2, <3>2, BufferParts
      <4>2. p.id # e.id
        BY <1>6, <3>2 DEF Waiting, Ids
      <4> QED
        BY <1>2, <1>7, <3>2, <4>1, <4>2 DEF Kept, Tracked
    <3> QED
      BY <1>5, <3>1, <3>2
  <2>2. ASSUME NEW x \in Entries(d), x.id \in Waiting(d), x.body
        PROVE  x.id \in d.bodies \intersect d.pendingBodies
    <3>1. CASE x = e
      BY <1>5, <2>2, <3>1
    <3>2. CASE x \in Entries(b)
      <4>1. x.id \in Waiting(b)
        BY <1>6, <1>8, <2>2, <3>2 DEF Ids
      <4> QED
        BY <1>2, <1>5, <2>2, <3>2, <4>1 DEF Kept, Tracked
    <3> QED
      BY <1>7, <3>1, <3>2
  <2> QED
    BY <2>1, <2>2 DEF Tracked
<1>13. Remembered(d)'
  <2>1. \A id : InBatch(id)' <=> InBatch(id)
    BY <1>3 DEF InBatch
  <2>2. \A x \in Entries(b) : \/ x.id \in Waiting(d) \/ InBatch(x.id)' \/ x \in store'
                              \/ x.id \in failed' \/ Expired(x, now')
    BY <1>2, <1>3, <1>8, <2>1 DEF Kept, Remembered
  <2>3. e.id \in Waiting(d)
    BY <1>8
  <2> QED
    BY <1>7, <2>2, <2>3 DEF Remembered
<1>14. Owned(d)
  <2>1. ASSUME NEW id \in d.bodies PROVE id \in Ids({x \in Entries(d) : x.body})
    <3>1. CASE id \in b.bodies
      BY <1>2, <1>7, <3>1 DEF Kept, Owned, Ids
    <3>2. CASE id = e.id /\ e.body
      BY <1>7, <3>2 DEF Ids
    <3> QED
      BY <1>5, <2>1, <3>1, <3>2
  <2>2. d.bodies \subseteq d.bodyTTL
    BY <1>2, <1>5 DEF Kept, Owned
  <2> QED
    BY <2>1, <2>2 DEF Owned
<1>15. Kept(d)'
  BY <1>10, <1>11, <1>12, <1>13, <1>14 DEF Kept
<1> QED
  BY <1>5, <1>7, <1>15, EvictStep

LEMMA HydrateApplyKeeps ==
  ASSUME IInv, HydrateApply
  PROVE  Kept(buf)' /\ Mirrors(buf)' /\ Len(buf'.order) <= BufferCap /\ buf' \in Buffers
<1>1. PICK b, page, d : b = buf /\ page = hydration.page /\ d = Rejoined(b, page)
  OBVIOUS
<1>2. b \in Buffers /\ Kept(b) /\ Mirrors(b) /\ page \in Seq(Entry)
  BY <1>1 DEF IInv, TypeOK
<1>3. /\ capturing' = capturing /\ lastId' = lastId /\ flush' = flush
      /\ store' = store /\ failed' = failed /\ now' = now /\ hydration'.page = << >>
  BY DEF HydrateApply, storeVars, processVars, handlerVars, IInv, TypeOK
<1>4. buf' = Evicted(d) /\ More(d, b, ToSet(page))
  BY <1>1, <1>2, RejoinedFacts DEF HydrateApply
<1>5. /\ Entries(b) \subseteq Entries(d) /\ Entries(d) \subseteq Entries(b) \union ToSet(page)
      /\ Waiting(d) = Waiting(b) /\ d \in Buffers
  <2>1. /\ \A x : x \in Entries(d) <=> \E r \in Rules : x \in ToSet(d.byRule[r])
        /\ \A x : x \in Entries(b) <=> \E r \in Rules : x \in ToSet(b.byRule[r])
    BY DEF Entries
  <2> QED
    BY <1>4, <2>1 DEF More, Waiting
<1>6. ToSet(hydration'.page) = {} /\ ToSet(page) \subseteq Known(b) /\ Ids(ToSet(page)) \subseteq Stored
  BY <1>1, <1>3 DEF ToSet, Known, Elsewhere, Stored
<1>7. /\ Known(d)' \subseteq Known(b) /\ Stored' \subseteq Stored
      /\ Batch("run")' = Batch("run") /\ Batch("close")' = Batch("close")
      /\ \A t \in Flushers : Batch(t)' = Batch(t)
  <2>1. /\ Batch("run")' = Batch("run") /\ Batch("close")' = Batch("close")
        /\ \A t \in Flushers : Batch(t)' = Batch(t)
    BY <1>3 DEF Batch
  <2>2. Elsewhere' \subseteq Elsewhere
    BY <1>3, <1>6, <2>1 DEF Elsewhere
  <2>3. Stored' \subseteq Stored
    BY <1>3, <1>6 DEF Stored, Ids
  <2> QED
    BY <1>5, <1>6, <2>1, <2>2, <2>3 DEF Known
<1>8. Named(d)'
  <2>1. ASSUME NEW r \in Rules, NEW x \in ToSet(d.byRule[r]) PROVE x.rule = r
    BY <1>2, <1>4, <2>1 DEF More, Kept, Named
  <2>2. d.pending = b.pending
    BY <1>4 DEF More
  <2> QED
    BY <1>2, <1>3, <1>7, <2>1, <2>2 DEF Kept, Named
<1>9. Apart(d)'
  <2>1. \A t \in Flushers : \A x \in Batch(t)' :
          x.id \notin Waiting(d) \union Ids(capturing') \union Stored'
    BY <1>2, <1>3, <1>5, <1>7 DEF Kept, Apart
  <2>2. ASSUME NEW x \in capturing'
        PROVE  x.id \notin Waiting(d) \union Ids(Entries(d)) \union Stored'
    <3>1. x.id \notin Waiting(b) \union Ids(Entries(b)) \union Stored
      BY <1>2, <1>3 DEF Kept, Apart
    <3>2. Ids(Entries(d)) \subseteq Ids(Entries(b)) \union Ids(ToSet(page))
      BY <1>5 DEF Ids
    <3> QED
      BY <1>5, <1>6, <1>7, <3>1, <3>2
  <2> QED
    BY <1>2, <1>5, <1>7, <2>1, <2>2 DEF Kept, Apart
<1>10. ASSUME NEW id, id \in Waiting(b) PROVE id \notin Ids(ToSet(page))
  BY <1>2, <1>6, <1>10 DEF Kept, Apart
<1>11. Tracked(d)
  <2>1. ASSUME NEW p \in ToSet(d.pending) PROVE Single(d.byRule[p.rule], p.id)
    <3>1. p \in ToSet(b.pending)
      BY <1>4 DEF More
    <3>2. p.rule \in Rules /\ p.id \in Id
      BY <1>2, <3>1, BufferParts
    <3>3. p.id \notin Ids(ToSet(page))
      BY <1>10, <3>1 DEF Waiting, Ids
    <3> QED
      BY <1>2, <1>4, <3>1, <3>2, <3>3 DEF More, Kept, Tracked
  <2>2. ASSUME NEW x \in Entries(d), x.id \in Waiting(d), x.body
        PROVE  x.id \in d.bodies \intersect d.pendingBodies
    <3>1. x.id \in Waiting(b) /\ x.id \notin Ids(ToSet(page))
      BY <1>5, <1>10, <2>2
    <3>2. x \in Entries(b)
      BY <1>5, <3>1 DEF Ids
    <3> QED
      BY <1>2, <1>4, <2>2, <3>1, <3>2 DEF More, Kept, Tracked
  <2> QED
    BY <2>1, <2>2 DEF Tracked
<1>12. Remembered(d)'
  <2>1. \A id : InBatch(id)' <=> InBatch(id)
    BY <1>3 DEF InBatch
  <2>2. \A x \in Entries(b) : \/ x.id \in Waiting(d) \/ InBatch(x.id)' \/ x \in store'
                              \/ x.id \in failed' \/ Expired(x, now')
    BY <1>2, <1>3, <1>5, <2>1 DEF Kept, Remembered
  <2>3. \A x \in ToSet(page) : x \in store' \/ Expired(x, now')
    BY <1>1, <1>3 DEF IInv, Delivered
  <2> QED
    BY <1>5, <2>2, <2>3 DEF Remembered
<1>13. Owned(d)
  <2>1. ASSUME NEW id \in d.bodies PROVE id \in Ids({x \in Entries(d) : x.body})
    BY <1>2, <1>4, <1>5, <2>1 DEF More, Kept, Owned, Ids
  <2> QED
    BY <1>2, <1>4, <2>1 DEF More, Kept, Owned
<1>14. Kept(d)'
  BY <1>8, <1>9, <1>11, <1>12, <1>13 DEF Kept
<1>15. Mirrors(d)
  BY <1>4 DEF More
<1> QED
  BY <1>4, <1>5, <1>14, <1>15, EvictStep

-----------------------------------------------------------------------------
(* What Drain returns: of the captures held, those that are pending.       *)
LEMMA DrainedFacts ==
  ASSUME NEW b, Proper(b)
  PROVE  /\ DrainedRequests(b) \in Seq(Entry)
         /\ ToSet(DrainedRequests(b)) = {e \in Entries(b) : e.id \in Waiting(b)}
<1> DEFINE alive == {p \in ToSet(b.pending) : Holds(b, p)}
<1>0. b \in Buffers /\ b.pending \in Seq(Refers) /\ \A r \in Rules : b.byRule[r] \in Seq(Entry)
  BY DEF Proper, Buffers, Refers
<1>1. PICK held : held = Only(b.pending, alive)
  OBVIOUS
<1>2. held \in Seq(Refers) /\ ToSet(held) = alive
  BY <1>0, <1>1, OnlyType
<1>3. PICK n \in Nat : n = Len(held) /\ DOMAIN held = 1 .. n
  BY <1>2
<1>4. PICK reqs : reqs = DrainedRequests(b)
  OBVIOUS
<1>5. reqs = [i \in 1 .. n |-> Lookup(b, held[i])]
  BY <1>1, <1>3, <1>4 DEF DrainedRequests
<1> HIDE DEF alive
<1>6. ASSUME NEW p \in alive
      PROVE  Lookup(b, p) \in Entries(b) /\ Lookup(b, p).id = p.id /\ p.rule \in Rules
  <2>1. p.rule \in Rules /\ p \in ToSet(b.pending) /\ Holds(b, p)
    <3>1. p \in Refers
      BY <1>0 DEF alive, ToSet
    <3> QED
      BY <3>1 DEF alive, Refers
  <2>2. PICK s \in Seq(Entry) : s = b.byRule[p.rule]
    BY <1>0, <2>1
  <2>3. \E i \in 1 .. Len(s) : s[i].id = p.id
    BY <2>1, <2>2 DEF Holds, ToSet
  <2>4. FirstAt(s, p.id) \in 1 .. Len(s) /\ s[FirstAt(s, p.id)].id = p.id
    BY <2>3, FirstFacts
  <2>5. Lookup(b, p) = s[FirstAt(s, p.id)]
    BY <2>2 DEF Lookup, FirstAt
  <2>6. s[FirstAt(s, p.id)] \in ToSet(s)
    BY <2>4 DEF ToSet
  <2> QED
    BY <2>1, <2>2, <2>4, <2>5, <2>6 DEF Entries
<1>7. \A i \in 1 .. n : held[i] \in alive
  BY <1>2, <1>3 DEF ToSet
<1>8. Entries(b) \subseteq Entry
  BY <1>0, BufferParts
<1>9. reqs \in Seq(Entry) /\ DOMAIN reqs = 1 .. n
  <2>1. \A i \in 1 .. n : Lookup(b, held[i]) \in Entry
    BY <1>6, <1>7, <1>8
  <2> QED
    BY <1>5, <2>1
<1>10. ASSUME NEW e \in ToSet(reqs) PROVE e \in Entries(b) /\ e.id \in Waiting(b)
  <2>1. PICK i \in 1 .. n : e = Lookup(b, held[i])
    BY <1>5, <1>9, <1>10 DEF ToSet
  <2> QED
    BY <1>6, <1>7, <2>1 DEF alive, Waiting, Ids
<1>11. ASSUME NEW e \in Entries(b), e.id \in Waiting(b) PROVE e \in ToSet(reqs)
  <2>1. PICK p \in ToSet(b.pending) : p.id = e.id
    BY <1>11 DEF Waiting, Ids
  <2>2. p = Ref(e)
    BY <2>1 DEF Proper
  <2>3. PICK r \in Rules : e \in ToSet(b.byRule[r])
    BY DEF Entries
  <2>4. p.rule = r
    BY <2>2, <2>3 DEF Proper, Ref
  <2>5. p \in alive
    BY <2>1, <2>3, <2>4 DEF alive, Holds
  <2>6. Lookup(b, p) = e
    BY <1>6, <2>1, <2>5 DEF Proper
  <2>7. PICK i \in 1 .. n : held[i] = p
    BY <1>2, <1>3, <2>5 DEF ToSet
  <2> QED
    BY <1>5, <1>9, <2>6, <2>7 DEF ToSet
<1> QED
  BY <1>4, <1>9, <1>10, <1>11

-----------------------------------------------------------------------------
(* The steps of a flush.                                                   *)
FlushStates == [at     : {"idle", "drain", "save", "sweep", "stopped"},
                reqs   : Seq(Entry),
                bodies : SUBSET Id]

(* Everything but the buffer and the flushes is as it was.                 *)
LEMMA FlushTypes ==
  ASSUME TypeOK, NEW t \in Flushers, NEW s, flush' = [flush EXCEPT ![t] = s]
  PROVE  /\ flush'[t] = s /\ \A u \in Flushers : u # t => flush'[u] = flush[u]
         /\ s \in FlushStates => flush' \in [Flushers -> FlushStates]
         /\ flush[t] \in FlushStates
<1>1. flush \in [Flushers -> FlushStates]
  BY DEF TypeOK, FlushStates
<1> QED
  BY <1>1

LEMMA FlushDrainKeeps ==
  ASSUME IInv, NEW t \in Flushers, FlushDrain(t)
  PROVE  IInv'
<1>1. PICK b, d, reqs : b = buf /\ d = Drained(b) /\ reqs = DrainedRequests(b)
  OBVIOUS
<1>2. b \in Buffers /\ Kept(b) /\ Mirrors(b) /\ Proper(b)
  BY <1>1, KeptProper DEF IInv, TypeOK
<1>3. /\ capturing' = capturing /\ lastId' = lastId /\ hydration' = hydration
      /\ store' = store /\ storeBodies' = storeBodies /\ failed' = failed
      /\ now' = now /\ up' = up /\ restarts' = restarts /\ hasStore' = hasStore
      /\ closed' = closed
  BY DEF FlushDrain, storeVars, handlerVars, processVars
<1>4. /\ reqs \in Seq(Entry) /\ ToSet(reqs) = {e \in Entries(b) : e.id \in Waiting(b)}
  BY <1>1, <1>2, DrainedFacts
<1>5. buf' = d /\ d = [b EXCEPT !.pending = << >>, !.pendingBodies = {}]
  BY <1>1 DEF FlushDrain, Drained
<1>6. /\ d \in Buffers /\ d.byRule = b.byRule /\ d.order = b.order /\ d.bodies = b.bodies
      /\ d.bodyTTL = b.bodyTTL /\ d.pending = << >>
  <2>1. << >> \in Seq([rule : Rules, id : Id])
    OBVIOUS
  <2> QED
    BY <1>2, <1>5, <2>1 DEF Buffers
<1>7. Entries(d) = Entries(b) /\ Waiting(d) = {} /\ ToSet(d.pending) = {}
  BY <1>6 DEF Entries, Waiting, Ids, ToSet
<1>s. PICK s : s = [at     |-> IF reqs = << >> THEN "sweep" ELSE "save",
                    reqs   |-> reqs,
                    bodies |-> IF reqs = << >> THEN {} ELSE DrainedBodies(b)]
  OBVIOUS
<1>8. flush' = [flush EXCEPT ![t] = s] /\ flush[t].at = IF t = "run" THEN "idle" ELSE "drain"
  BY <1>1, <1>s DEF FlushDrain
<1>9. s \in FlushStates /\ s.reqs = reqs
  BY <1>2, <1>4, <1>s DEF FlushStates, DrainedBodies, Buffers
<1>10. /\ flush'[t] = s /\ \A u \in Flushers : u # t => flush'[u] = flush[u]
       /\ flush' \in [Flushers -> FlushStates]
  BY <1>8, <1>9, FlushTypes DEF IInv
<1>11. flush[t].reqs = << >> /\ Batch(t) = {} /\ Batch(t)' = ToSet(reqs)
       /\ \A u \in Flushers : u # t => Batch(u)' = Batch(u)
  <2>1. flush[t].reqs = << >>
    BY <1>8 DEF IInv, Delivered
  <2>2. ToSet(<< >>) = {}
    BY DEF ToSet
  <2> QED
    BY <1>9, <1>10, <2>1, <2>2 DEF Batch
<1>12. ToSet(reqs) \subseteq Entries(b) /\ Entries(b) \subseteq Known(b)
  BY <1>4 DEF Known
<1>13. Known(d)' \subseteq Known(b) /\ Stored' = Stored
  <2>1. \A u \in Flushers : Batch(u)' \subseteq Known(b)
    BY <1>1, <1>11, <1>12, KnownTypes DEF IInv
  <2>2. Batch("run")' \subseteq Known(b) /\ Batch("close")' \subseteq Known(b)
    BY <2>1 DEF Flushers
  <2>3. Elsewhere' \subseteq Known(b)
    BY <1>3, <2>2 DEF Elsewhere, Known
  <2> QED
    BY <1>3, <1>7, <1>12, <2>3 DEF Known, Stored
<1>14. Named(d)'
  BY <1>2, <1>3, <1>6, <1>7, <1>13 DEF Kept, Named
<1>15. \A e \in ToSet(reqs) : e.id \in Waiting(b) /\ e \in Entries(b)
  BY <1>4
<1>16. Apart(d)'
  <2>1. ASSUME NEW x \in capturing'
        PROVE  x.id \notin Waiting(d) \union Ids(Entries(d)) \union Stored'
    BY <1>2, <1>3, <1>7, <1>13 DEF Kept, Apart
  <2>2. ASSUME NEW u \in Flushers, NEW x \in Batch(u)'
        PROVE  x.id \notin Waiting(d) \union Ids(capturing') \union Stored'
    <3>1. CASE u = t
      <4>1. x.id \in Waiting(b)
        BY <1>11, <1>15, <2>2, <3>1
      <4>2. x.id \notin Stored
        BY <1>2, <4>1 DEF Kept, Apart
      <4>3. x.id \notin Ids(capturing)
        BY <1>2, <4>1 DEF Kept, Apart, Ids
      <4> QED
        BY <1>3, <1>7, <1>13, <4>2, <4>3
    <3>2. CASE u # t
      BY <1>2, <1>3, <1>7, <1>11, <1>13, <2>2, <3>2 DEF Kept, Apart
    <3> QED
      BY <3>1, <3>2
  <2>3. ASSUME NEW x \in Batch("run")', x.id \in Ids(Batch("close")') PROVE FALSE
    <3>0. "run" \in Flushers /\ "close" \in Flushers /\ (t = "run" \/ t = "close")
      BY DEF Flushers
    <3>1. PICK y \in Batch("close")' : y.id = x.id
      BY <2>3 DEF Ids
    <3>2. CASE t = "run"
      <4>1. x.id \in Waiting(b) /\ y \in Batch("close")
        BY <1>11, <1>15, <2>3, <3>0, <3>1, <3>2
      <4> QED
        BY <1>2, <3>0, <3>1, <4>1 DEF Kept, Apart
    <3>3. CASE t = "close"
      <4>1. y.id \in Waiting(b) /\ x \in Batch("run")
        BY <1>11, <1>15, <2>3, <3>0, <3>1, <3>3
      <4> QED
        BY <1>2, <3>0, <3>1, <4>1 DEF Kept, Apart
    <3> QED
      BY <3>0, <3>2, <3>3
  <2> QED
    BY <1>7, <2>1, <2>2, <2>3 DEF Apart
<1>17. Tracked(d)
  BY <1>7 DEF Tracked
<1>18. Remembered(d)'
  <2>1. ASSUME NEW e \in Entries(b)
        PROVE  \/ InBatch(e.id)' \/ e \in store' \/ e.id \in failed' \/ Expired(e, now')
    <3>1. CASE e.id \in Waiting(b)
      <4>1. e \in Batch(t)'
        BY <1>4, <1>11, <3>1
      <4>2. e.id \in Ids(ToSet(flush'[t].reqs))
        BY <4>1 DEF Batch, Ids
      <4> QED
        BY <4>2 DEF InBatch
    <3>2. CASE InBatch(e.id)
      <4>1. PICK u \in Flushers : e.id \in Ids(ToSet(flush[u].reqs))
        BY <3>2 DEF InBatch
      <4>2. u # t
        BY <1>11, <4>1 DEF Batch, Ids
      <4>3. e.id \in Ids(ToSet(flush'[u].reqs))
        BY <1>10, <4>1, <4>2
      <4> QED
        BY <4>3 DEF InBatch
    <3> QED
      BY <1>2, <1>3, <3>1, <3>2 DEF Kept, Remembered
  <2> QED
    BY <1>7, <2>1 DEF Remembered
<1>19. Owned(d)
  BY <1>2, <1>6, <1>7 DEF Kept, Owned
<1>20. Mirrors(d)
  BY <1>2, <1>6 DEF Mirrors
<1>21. Kept(buf)' /\ Mirrors(buf)'
  <2>1. Kept(d)'
    BY <1>14, <1>16, <1>17, <1>18, <1>19 DEF Kept
  <2> QED
    BY <1>5, <1>20, <2>1, KeptOf
<1>22. Delivered'
  <2>1. ASSUME NEW u \in Flushers
        PROVE  /\ flush'[u].at # "save" => flush'[u].reqs = << >>
               /\ \A e \in Batch(u)' : e.body => e.id \in flush'[u].bodies
    <3>1. CASE u # t
      BY <1>10, <1>11, <2>1, <3>1 DEF IInv, Delivered
    <3>2. CASE u = t
      <4>1. flush'[u].at # "save" => flush'[u].reqs = << >>
        BY <1>10, <1>s, <3>2
      <4>2. ASSUME NEW e \in Batch(u)', e.body PROVE e.id \in flush'[u].bodies
        <5>1. e \in ToSet(reqs) /\ e.id \in Waiting(b) /\ e \in Entries(b)
          BY <1>11, <1>15, <3>2, <4>2
        <5>2. reqs # << >>
          BY <5>1 DEF ToSet
        <5>3. e.id \in b.bodies \intersect b.pendingBodies
          BY <1>2, <4>2, <5>1 DEF Kept, Tracked
        <5> QED
          BY <1>10, <1>s, <3>2, <5>2, <5>3 DEF DrainedBodies
      <4> QED
        BY <4>1, <4>2
    <3> QED
      BY <3>1, <3>2
  <2>2. ~closed' => flush'["close"].at = "idle"
    <3>1. CASE t = "close"
      BY <1>3, <1>8, <3>1 DEF IInv, Delivered
    <3>2. CASE t # "close"
      BY <1>3, <1>10, <3>2 DEF IInv, Delivered, Flushers
    <3> QED
      BY <3>1, <3>2
  <2> QED
    BY <1>3, <2>1, <2>2 DEF IInv, Delivered
<1>23. TypeOK'
  BY <1>3, <1>5, <1>6, <1>10 DEF IInv, TypeOK, FlushStates
<1>24. Len(buf'.order) <= BufferCap
  BY <1>1, <1>5, <1>6 DEF IInv
<1> QED
  BY <1>21, <1>22, <1>23, <1>24 DEF IInv

LEMMA RecordChange ==
  ASSUME NEW reqs, NEW at
  PROVE  [[at |-> "idle", reqs |-> reqs, bodies |-> {}] EXCEPT !.at = at] =
             [at |-> at, reqs |-> reqs, bodies |-> {}]
  OBVIOUS

LEMMA FlushSaveKeeps ==
  ASSUME IInv, NEW t \in Flushers, FlushSave(t)
  PROVE  IInv'
<1>1. PICK b, reqs, bodies : b = buf /\ reqs = flush[t].reqs /\ bodies = flush[t].bodies
  OBVIOUS
<1>2. b \in Buffers /\ Kept(b) /\ Mirrors(b)
  BY <1>1 DEF IInv, TypeOK
<1>3. /\ capturing' = capturing /\ lastId' = lastId /\ hydration' = hydration /\ buf' = b
      /\ now' = now /\ up' = up /\ restarts' = restarts /\ hasStore' = hasStore
      /\ closed' = closed
  BY <1>1 DEF FlushSave, storeVars, handlerVars, processVars
<1>s. PICK s : s = [at |-> "sweep", reqs |-> << >>, bodies |-> {}]
  OBVIOUS
<1>4. flush' = [flush EXCEPT ![t] = s] /\ flush[t].at = "save"
  <2>1. [Idle EXCEPT !.at = "sweep"] = s
    BY <1>s, RecordChange, Zenon DEF Idle
  <2> QED
    BY <2>1 DEF FlushSave
<1>5. s \in FlushStates /\ s.reqs = << >> /\ s.at = "sweep"
  BY <1>s DEF FlushStates
<1>6. /\ flush'[t] = s /\ \A u \in Flushers : u # t => flush'[u] = flush[u]
      /\ flush' \in [Flushers -> FlushStates] /\ flush[t] \in FlushStates
  BY <1>4, <1>5, FlushTypes DEF IInv
<1>7. reqs \in Seq(Entry) /\ bodies \subseteq Id
  BY <1>1, <1>6 DEF FlushStates
<1>8. PICK n, written, done :
        /\ n \in 0 .. Len(reqs) /\ written \subseteq bodies
        /\ done = ToSet(SubSeq(reqs, 1, n))
        /\ store' = store \union done /\ storeBodies' = storeBodies \union written
        /\ failed' = failed \union Ids(ToSet(reqs) \ done) \union (bodies \ written)
  BY <1>1 DEF FlushSave
<1>9. done \subseteq ToSet(reqs) /\ done \subseteq Entry /\ IsFiniteSet(done)
  <2>0. n \in Nat /\ n <= Len(reqs) /\ Len(reqs) \in Nat
    BY <1>7, <1>8
  <2>1. PICK part \in Seq(Entry) : part = SubSeq(reqs, 1, n)
    <3>1. SubSeq(reqs, 1, n) \in Seq(Entry)
      BY <1>7, <2>0
    <3> QED
      BY <3>1
  <2>2. \A i \in DOMAIN part : part[i] \in ToSet(reqs)
    <3>1. n \in Nat /\ n <= Len(reqs) /\ DOMAIN part = 1 .. n /\ \A i \in 1 .. n : part[i] = reqs[i]
      BY <1>7, <2>0, <2>1
    <3>2. \A i \in 1 .. n : i \in DOMAIN reqs
      BY <1>7, <3>1
    <3> QED
      BY <3>1, <3>2 DEF ToSet
  <2>3. done \subseteq ToSet(reqs)
    BY <1>8, <2>1, <2>2 DEF ToSet
  <2>4. ToSet(reqs) \subseteq Entry
    BY <1>7 DEF ToSet
  <2>5. IsFiniteSet(done)
    <3>1. Len(part) \in Nat /\ DOMAIN part = 1 .. Len(part)
      BY <2>1
    <3>2. IsFiniteSet(1 .. Len(part))
      BY <3>1, FS_Interval
    <3>3. done = {part[i] : i \in 1 .. Len(part)}
      BY <1>8, <2>1, <3>1 DEF ToSet
    <3> QED
      <4>1. PICK m : m = 1 .. Len(part)
        OBVIOUS
      <4>2. PICK f : f = [i \in m |-> part[i]]
        OBVIOUS
      <4>3. f \in Surjection(m, done)
        BY <3>3, <4>1, <4>2 DEF Surjection
      <4> QED
        BY <3>2, <4>1, <4>3, FS_Surjection
  <2> QED
    BY <2>3, <2>4, <2>5
<1>10. /\ Batch(t) = ToSet(reqs) /\ Batch(t)' = {}
       /\ \A u \in Flushers : u # t => Batch(u)' = Batch(u)
  <2>1. ToSet(<< >>) = {}
    BY DEF ToSet
  <2> QED
    BY <1>1, <1>5, <1>6, <2>1 DEF Batch
<1>11. Known(b)' \subseteq Known(b)
  <2>1. \A u \in Flushers : Batch(u)' \subseteq Batch(u)
    BY <1>10
  <2>2. /\ Batch("run")' \subseteq Elsewhere /\ Batch("close")' \subseteq Elsewhere
        /\ Batch(t) \subseteq Elsewhere
    BY <2>1 DEF Elsewhere, Flushers
  <2>3. Elsewhere' \subseteq Elsewhere
    BY <1>3, <1>8, <1>9, <1>10, <2>2 DEF Elsewhere
  <2> QED
    BY <2>3 DEF Known
<1>12. Named(b)'
  BY <1>2, <1>3, <1>11 DEF Kept, Named
<1>13. Stored' \subseteq Stored \union Ids(Batch(t))
  BY <1>3, <1>8, <1>9, <1>10 DEF Stored, Ids
<1>14. Apart(b)'
  <2>1. ASSUME NEW x \in capturing'
        PROVE  x.id \notin Waiting(b) \union Ids(Entries(b)) \union Stored'
    <3>1. x.id \notin Waiting(b) \union Ids(Entries(b)) \union Stored
      BY <1>2, <1>3 DEF Kept, Apart
    <3>2. x.id \notin Ids(Batch(t))
      <4>1. \A y \in Batch(t) : y.id \notin Ids(capturing)
        BY <1>2 DEF Kept, Apart
      <4> QED
        BY <1>3, <4>1 DEF Ids
    <3> QED
      BY <1>13, <3>1, <3>2
  <2>2. ASSUME NEW u \in Flushers, NEW x \in Batch(u)'
        PROVE  x.id \notin Waiting(b) \union Ids(capturing') \union Stored'
    <3>1. u # t /\ x \in Batch(u)
      BY <1>10, <2>2
    <3>2. x.id \notin Waiting(b) \union Ids(capturing) \union Stored
      BY <1>2, <3>1 DEF Kept, Apart
    <3>3. x.id \notin Ids(Batch(t))
      <4>1. \A y \in Batch("run") : y.id \notin Ids(Batch("close"))
        BY <1>2 DEF Kept, Apart
      <4> QED
        BY <3>1, <4>1 DEF Ids, Flushers
    <3> QED
      BY <1>3, <1>13, <3>2, <3>3
  <2>3. \A x \in Batch("run")' : x.id \notin Ids(Batch("close")')
    <3>1. \A u \in Flushers : Batch(u)' \subseteq Batch(u)
      BY <1>10
    <3>2. Batch("run")' \subseteq Batch("run") /\ Batch("close")' \subseteq Batch("close")
      BY <3>1 DEF Flushers
    <3> QED
      BY <1>2, <3>2 DEF Kept, Apart, Ids
  <2>4. Waiting(b) \intersect Stored' = {}
    <3>1. \A x \in Batch(t) : x.id \notin Waiting(b)
      BY <1>2 DEF Kept, Apart
    <3>2. Waiting(b) \intersect Stored = {}
      BY <1>2 DEF Kept, Apart
    <3> QED
      BY <1>13, <3>1, <3>2 DEF Ids
  <2> QED
    BY <2>1, <2>2, <2>3, <2>4 DEF Apart
<1>15. Remembered(b)'
  <2>1. ASSUME NEW e \in Entries(b)
        PROVE  \/ e.id \in Waiting(b) \/ InBatch(e.id)' \/ e \in store'
               \/ e.id \in failed' \/ Expired(e, now')
    <3>1. CASE InBatch(e.id)
      <4>1. PICK u \in Flushers : e.id \in Ids(ToSet(flush[u].reqs))
        BY <3>1 DEF InBatch
      <4>2. CASE u # t
        <5>1. e.id \in Ids(ToSet(flush'[u].reqs))
          BY <1>6, <4>1, <4>2
        <5> QED
          BY <5>1 DEF InBatch
      <4>3. CASE u = t
        <5>1. PICK x \in ToSet(reqs) : x.id = e.id
          BY <1>1, <4>1, <4>3 DEF Ids
        <5>2. x = e
          <6>1. x \in Known(b) /\ e \in Known(b)
            BY <1>1, <1>10, <5>1, KnownTypes DEF IInv
          <6> QED
            BY <1>2, <5>1, <6>1 DEF Kept, Named
        <5> QED
          BY <1>8, <5>1, <5>2 DEF Ids
      <4> QED
        BY <4>2, <4>3
    <3> QED
      BY <1>2, <1>3, <1>8, <3>1 DEF Kept, Remembered
  <2> QED
    BY <2>1 DEF Remembered
<1>16. Kept(buf)' /\ Mirrors(buf)'
  <2>1. Tracked(b) /\ Owned(b)
    BY <1>2 DEF Kept
  <2>2. Kept(b)'
    BY <1>12, <1>14, <1>15, <2>1 DEF Kept
  <2> QED
    BY <1>2, <1>3, <2>2, KeptOf
<1>17. Delivered'
  <2>1. ASSUME NEW u \in Flushers
        PROVE  /\ flush'[u].at # "save" => flush'[u].reqs = << >>
               /\ \A e \in Batch(u)' : e.body => e.id \in flush'[u].bodies
    <3>1. CASE u # t
      BY <1>6, <1>10, <3>1 DEF IInv, Delivered
    <3>2. CASE u = t
      BY <1>5, <1>6, <1>10, <3>2
    <3> QED
      BY <3>1, <3>2
  <2>2. ~closed' => flush'["close"].at = "idle"
    <3>1. CASE t = "close"
      BY <1>3, <1>4, <3>1 DEF IInv, Delivered
    <3>2. CASE t # "close"
      BY <1>3, <1>6, <3>2 DEF IInv, Delivered, Flushers
    <3> QED
      BY <3>1, <3>2
  <2>3. IsFiniteSet(store')
    BY <1>8, <1>9, FS_Union DEF IInv, Delivered
  <2>4. ASSUME NEW e \in store', e.body PROVE e.id \in storeBodies' \union failed'
    <3>1. CASE e \in store
      BY <1>8, <2>4, <3>1 DEF IInv, Delivered
    <3>2. CASE e \in done
      <4>1. e.id \in bodies
        BY <1>1, <1>9, <1>10, <2>4, <3>2 DEF IInv, Delivered
      <4> QED
        BY <1>8, <4>1
    <3> QED
      BY <1>8, <3>1, <3>2
  <2>5. \A e \in ToSet(hydration'.page) : e \in store' \/ Expired(e, now')
    BY <1>3, <1>8 DEF IInv, Delivered
  <2> QED
    BY <2>1, <2>2, <2>3, <2>4, <2>5 DEF Delivered
<1>18. TypeOK'
  <2>1. store' \subseteq Entry /\ storeBodies' \subseteq Id
    BY <1>7, <1>8, <1>9 DEF IInv, TypeOK
  <2>2. failed' \subseteq Id
    <3>1. Ids(ToSet(reqs)) \subseteq Id
      <4>1. ToSet(reqs) \subseteq Entry
        BY <1>7 DEF ToSet
      <4> QED
        BY <4>1 DEF Ids, Entry
    <3> QED
      BY <1>7, <1>8, <3>1 DEF IInv, TypeOK, Ids
  <2>3. buf' \in Buffers /\ capturing' \subseteq Entry /\ lastId' \in 0 .. MaxId
        /\ hydration' \in [todo : SUBSET Rules, page : Seq(Entry)]
        /\ closed' \in BOOLEAN /\ up' \in BOOLEAN
        /\ now' \in 0 .. MaxTime /\ restarts' \in 0 .. MaxRestarts /\ hasStore' \in BOOLEAN
    BY <1>1, <1>3 DEF IInv, TypeOK
  <2> QED
    BY <1>6, <2>1, <2>2, <2>3 DEF TypeOK, FlushStates
<1>19. Len(buf'.order) <= BufferCap
  BY <1>1, <1>3 DEF IInv
<1> QED
  BY <1>16, <1>17, <1>18, <1>19 DEF IInv

-----------------------------------------------------------------------------
(* The steps that only take captures from the buffer.                      *)
LEMMA DeliveredSame ==
  ASSUME IInv, UNCHANGED <<flush, closed, hydration, store, storeBodies, failed, now>>
  PROVE  Delivered'
  BY DEF IInv, Delivered, Batch

LEMMA ClearKeeps ==
  ASSUME IInv, NEW rule \in Rules, Clear(rule)
  PROVE  IInv'
<1>1. Proper(buf) /\ Mirrors(buf)
  BY KeptProper DEF IInv, TypeOK
<1>2. /\ buf' = ClearedRule(buf, rule)
      /\ UNCHANGED <<flush, closed, hydration, store, storeBodies, failed,
                     capturing, lastId, now, up, restarts, hasStore>>
  BY DEF Clear, storeVars, handlerVars, processVars
<1>3. Fewer(buf', buf) /\ Mirrors(buf') /\ Len(buf'.order) <= Len(buf.order)
  BY <1>1, <1>2, ClearedRuleFewer, ClearedRuleMirrors
<1>4. Kept(buf)' /\ Mirrors(buf)' /\ Len(buf'.order) <= BufferCap /\ buf' \in Buffers
  BY <1>2, <1>3, FewerStep
<1>5. Delivered'
  BY <1>2, DeliveredSame
<1>6. TypeOK'
  BY <1>2, <1>4 DEF IInv, TypeOK
<1> QED
  BY <1>4, <1>5, <1>6 DEF IInv

LEMMA ClearAllKeeps ==
  ASSUME IInv, ClearAll
  PROVE  IInv'
<1>1. Proper(buf) /\ Mirrors(buf) /\ buf.order \in Seq(Refers)
  BY KeptProper DEF IInv, TypeOK, Buffers, Refers
<1>2. /\ buf' = ClearedAll(buf)
      /\ UNCHANGED <<flush, closed, hydration, store, storeBodies, failed,
                     capturing, lastId, now, up, restarts, hasStore>>
  BY DEF ClearAll, storeVars, handlerVars, processVars
<1>3. Fewer(buf', buf) /\ Mirrors(buf') /\ Len(buf'.order) = 0
  BY <1>1, <1>2, ClearedAllFewer, ClearedAllMirrors
<1>4. Len(buf'.order) <= Len(buf.order)
  BY <1>1, <1>3
<1>5. Kept(buf)' /\ Mirrors(buf)' /\ Len(buf'.order) <= BufferCap /\ buf' \in Buffers
  BY <1>2, <1>3, <1>4, FewerStep
<1>6. Delivered'
  BY <1>2, DeliveredSame
<1>7. TypeOK'
  BY <1>2, <1>5 DEF IInv, TypeOK
<1> QED
  BY <1>5, <1>6, <1>7 DEF IInv

LEMMA MemorySweepKeeps ==
  ASSUME IInv, MemorySweep
  PROVE  IInv'
<1>1. Proper(buf) /\ Mirrors(buf)
  BY KeptProper DEF IInv, TypeOK
<1>2. /\ buf' = Swept(buf, now)
      /\ UNCHANGED <<flush, closed, hydration, store, storeBodies, failed,
                     capturing, lastId, now, up, restarts, hasStore>>
  BY DEF MemorySweep, storeVars, handlerVars, processVars
<1>3. Fewer(buf', buf) /\ Mirrors(buf') /\ Len(buf'.order) <= Len(buf.order)
  BY <1>1, <1>2, SweptFacts
<1>4. Kept(buf)' /\ Mirrors(buf)' /\ Len(buf'.order) <= BufferCap /\ buf' \in Buffers
  BY <1>2, <1>3, FewerStep
<1>5. Delivered'
  BY <1>2, DeliveredSame
<1>6. TypeOK'
  BY <1>2, <1>4 DEF IInv, TypeOK
<1> QED
  BY <1>4, <1>5, <1>6 DEF IInv

(* The place of one flush moves and its batch stays.                       *)
LEMMA FlushMoves ==
  ASSUME IInv, NEW t \in Flushers, NEW at \in {"idle", "drain", "save", "sweep", "stopped"},
         flush' = [flush EXCEPT ![t].at = at], at # "save" => flush[t].reqs = << >>
  PROVE  /\ flush' \in [Flushers -> FlushStates] /\ flush'[t].at = at
         /\ \A u \in Flushers : u # t => flush'[u] = flush[u]
         /\ \A u \in Flushers : /\ flush'[u].reqs = flush[u].reqs /\ Batch(u)' = Batch(u)
                                /\ flush'[u].at # "save" => flush'[u].reqs = << >>
                                /\ \A e \in Batch(u)' : e.body => e.id \in flush'[u].bodies
<1>1. flush \in [Flushers -> FlushStates]
  BY DEF IInv, TypeOK, FlushStates
<1>2. /\ flush'[t] = [flush[t] EXCEPT !.at = at]
      /\ \A u \in Flushers : u # t => flush'[u] = flush[u]
  BY <1>1
<1>3. /\ flush'[t] \in FlushStates /\ flush'[t].at = at
      /\ flush'[t].reqs = flush[t].reqs /\ flush'[t].bodies = flush[t].bodies
  <2>1. PICK s : s = flush[t] /\ s \in FlushStates
    BY <1>1
  <2>2. /\ [s EXCEPT !.at = at] \in FlushStates /\ [s EXCEPT !.at = at].at = at
        /\ [s EXCEPT !.at = at].reqs = s.reqs /\ [s EXCEPT !.at = at].bodies = s.bodies
    BY <2>1 DEF FlushStates
  <2> QED
    BY <1>2, <2>1, <2>2
<1>4. flush' \in [Flushers -> FlushStates]
  BY <1>1, <1>3
<1>5. ASSUME NEW u \in Flushers
      PROVE  /\ flush'[u].reqs = flush[u].reqs /\ flush'[u].bodies = flush[u].bodies
             /\ flush'[u].at # "save" => flush'[u].reqs = << >>
  BY <1>2, <1>3 DEF IInv, Delivered
<1>6. \A u \in Flushers : Batch(u)' = Batch(u)
  BY <1>5 DEF Batch
<1>7. \A u \in Flushers : \A e \in Batch(u)' : e.body => e.id \in flush'[u].bodies
  BY <1>5, <1>6 DEF IInv, Delivered
<1> QED
  BY <1>2, <1>3, <1>4, <1>5, <1>6, <1>7

LEMMA FlushSweepKeeps ==
  ASSUME IInv, NEW t \in Flushers, FlushSweep(t)
  PROVE  IInv'
<1>1. Proper(buf) /\ Mirrors(buf)
  BY KeptProper DEF IInv, TypeOK
<1>2. PICK at : at = IF t = "run" THEN "idle" ELSE "stopped"
  OBVIOUS
<1>3. /\ buf' = Swept(buf, now) /\ flush' = [flush EXCEPT ![t].at = at] /\ flush[t].at = "sweep"
      /\ UNCHANGED <<closed, hydration, store, storeBodies, failed,
                     capturing, lastId, now, up, restarts, hasStore>>
  BY <1>2 DEF FlushSweep, storeVars, handlerVars, processVars
<1>4. flush[t].reqs = << >> /\ at \in {"idle", "drain", "save", "sweep", "stopped"}
  BY <1>2, <1>3 DEF IInv, Delivered
<1>5. /\ flush' \in [Flushers -> FlushStates] /\ flush'[t].at = at
      /\ \A u \in Flushers : u # t => flush'[u] = flush[u]
      /\ \A u \in Flushers : /\ flush'[u].reqs = flush[u].reqs /\ Batch(u)' = Batch(u)
                             /\ flush'[u].at # "save" => flush'[u].reqs = << >>
                             /\ \A e \in Batch(u)' : e.body => e.id \in flush'[u].bodies
  BY <1>3, <1>4, FlushMoves
<1>6. Fewer(buf', buf) /\ Mirrors(buf') /\ Len(buf'.order) <= Len(buf.order)
  BY <1>1, <1>3, SweptFacts
<1>7. \A u \in Flushers : ToSet(flush'[u].reqs) = ToSet(flush[u].reqs)
  BY <1>5
<1>8. Kept(buf)' /\ Mirrors(buf)' /\ Len(buf'.order) <= BufferCap /\ buf' \in Buffers
  BY <1>3, <1>6, <1>7, FewerStep
<1>9. Delivered'
  <2>1. ~closed' => flush'["close"].at = "idle"
    <3>1. CASE t = "close"
      BY <1>3, <3>1 DEF IInv, Delivered
    <3>2. CASE t # "close"
      BY <1>3, <1>5, <3>2 DEF IInv, Delivered, Flushers
    <3> QED
      BY <3>1, <3>2
  <2> QED
    BY <1>3, <1>5, <2>1 DEF IInv, Delivered
<1>10. TypeOK'
  BY <1>3, <1>5, <1>8 DEF IInv, TypeOK, FlushStates
<1> QED
  BY <1>8, <1>9, <1>10 DEF IInv

(* The buffer stays, and so does what is elsewhere.                        *)
LEMMA SameBuffer ==
  ASSUME IInv, buf' = buf, \A t \in Flushers : ToSet(flush'[t].reqs) = ToSet(flush[t].reqs),
         UNCHANGED <<hydration, store, failed, capturing, lastId, now>>
  PROVE  Kept(buf)' /\ Mirrors(buf)' /\ Len(buf'.order) <= BufferCap /\ buf' \in Buffers
<1>1. PICK b : b = buf
  OBVIOUS
<1>2. Kept(b) /\ Mirrors(b)
  BY <1>1 DEF IInv
<1>3. Kept(b)'
  BY <1>2, SameRest
<1> QED
  BY <1>1, <1>2, <1>3, KeptOf DEF IInv, TypeOK

LEMMA CloseBeginKeeps ==
  ASSUME IInv, CloseBegin
  PROVE  IInv'
<1>0. "close" \in Flushers /\ "run" \in Flushers
  BY DEF Flushers
<1>1. PICK at : at = IF hasStore THEN "drain" ELSE "stopped"
  OBVIOUS
<1>2. /\ flush' = [flush EXCEPT !["close"].at = at] /\ flush["close"].at = "idle" /\ closed' = TRUE
      /\ hydration' = [hydration EXCEPT !.todo = {}]
      /\ UNCHANGED <<buf, store, storeBodies, failed,
                     capturing, lastId, now, up, restarts, hasStore>>
  BY <1>1 DEF CloseBegin, storeVars, handlerVars, processVars, IInv, Delivered
<1>3. flush["close"].reqs = << >> /\ at \in {"idle", "drain", "save", "sweep", "stopped"}
  BY <1>0, <1>1, <1>2 DEF IInv, Delivered
<1>4. /\ flush' \in [Flushers -> FlushStates]
      /\ \A u \in Flushers : /\ flush'[u].reqs = flush[u].reqs /\ Batch(u)' = Batch(u)
                             /\ flush'[u].at # "save" => flush'[u].reqs = << >>
                             /\ \A e \in Batch(u)' : e.body => e.id \in flush'[u].bodies
  BY <1>0, <1>2, <1>3, FlushMoves
<1>5. hydration' \in [todo : SUBSET Rules, page : Seq(Entry)] /\ hydration'.page = hydration.page
  BY <1>2 DEF IInv, TypeOK
<1>6. Kept(buf)' /\ Mirrors(buf)'
  <2>1. PICK b : b = buf
    OBVIOUS
  <2>2. Kept(b) /\ Mirrors(b)
    BY <2>1 DEF IInv
  <2>3. Batch("run")' = Batch("run") /\ Batch("close")' = Batch("close")
    BY <1>0, <1>4
  <2>4. Elsewhere' = Elsewhere /\ Stored' = Stored
    BY <1>2, <1>5, <2>3 DEF Elsewhere, Stored
  <2>5. Named(b)'
    BY <1>2, <2>2, <2>4 DEF Kept, Named, Known
  <2>6. Apart(b)'
    <3>1. \A t \in Flushers : \A x \in Batch(t)' :
             x.id \notin Waiting(b) \union Ids(capturing') \union Stored'
      BY <1>2, <1>4, <2>2, <2>4 DEF Kept, Apart
    <3> QED
      BY <1>2, <2>2, <2>3, <2>4, <3>1 DEF Kept, Apart
  <2>7. Remembered(b)'
    <3>1. \A id : InBatch(id)' <=> InBatch(id)
      BY <1>4 DEF InBatch
    <3> QED
      BY <1>2, <2>2, <3>1 DEF Kept, Remembered
  <2>8. Kept(b)'
    BY <2>2, <2>5, <2>6, <2>7 DEF Kept, Tracked, Owned
  <2> QED
    BY <1>2, <2>1, <2>2, <2>8, KeptOf
<1>7. Delivered'
  BY <1>2, <1>4, <1>5 DEF IInv, Delivered
<1>8. TypeOK'
  BY <1>2, <1>4, <1>5 DEF IInv, TypeOK, FlushStates
<1>9. Len(buf'.order) <= BufferCap
  BY <1>2 DEF IInv
<1> QED
  BY <1>6, <1>7, <1>8, <1>9 DEF IInv

LEMMA RunStopsKeeps ==
  ASSUME IInv, RunStops
  PROVE  IInv'
<1>0. "run" \in Flushers /\ "close" \in Flushers
  BY DEF Flushers
<1>1. /\ flush' = [flush EXCEPT !["run"].at = "stopped"] /\ flush["run"].at = "idle"
      /\ UNCHANGED <<buf, closed, hydration, store, storeBodies, failed,
                     capturing, lastId, now, up, restarts, hasStore>>
  BY DEF RunStops, storeVars, handlerVars, processVars
<1>2. flush["run"].reqs = << >>
  BY <1>0, <1>1 DEF IInv, Delivered
<1>3. /\ flush' \in [Flushers -> FlushStates]
      /\ \A u \in Flushers : u # "run" => flush'[u] = flush[u]
      /\ \A u \in Flushers : /\ flush'[u].reqs = flush[u].reqs /\ Batch(u)' = Batch(u)
                             /\ flush'[u].at # "save" => flush'[u].reqs = << >>
                             /\ \A e \in Batch(u)' : e.body => e.id \in flush'[u].bodies
  BY <1>0, <1>1, <1>2, FlushMoves
<1>4. Kept(buf)' /\ Mirrors(buf)' /\ Len(buf'.order) <= BufferCap /\ buf' \in Buffers
  BY <1>1, <1>3, SameBuffer
<1>5. Delivered'
  <2>1. flush'["close"] = flush["close"]
    BY <1>0, <1>3
  <2> QED
    BY <1>1, <1>3, <2>1 DEF IInv, Delivered
<1>6. TypeOK'
  BY <1>1, <1>3, <1>4 DEF IInv, TypeOK, FlushStates
<1> QED
  BY <1>4, <1>5, <1>6 DEF IInv

-----------------------------------------------------------------------------
(* A page of ListMatched: the captures of the rule by age, each at a place  *)
(* of its own.                                                             *)
NotOlder(found, e) == {d \in found : d.id >= e.id}

LEMMA NewestFacts ==
  ASSUME NEW rule \in Rules, IsFiniteSet(store), store \subseteq Entry,
         \A x, y \in store : x.id = y.id => x = y
  PROVE  Newest(rule) \in Seq(Entry) /\ ToSet(Newest(rule)) \subseteq store
<1>1. PICK found : found = {e \in store : e.rule = rule}
  OBVIOUS
<1>2. IsFiniteSet(found) /\ found \subseteq store /\ \A e \in found : e.id \in Nat
  <2>1. found \subseteq store /\ \A e \in found : e.id \in Nat
    BY <1>1 DEF Entry, Id
  <2> QED
    BY <2>1, FS_Subset
<1>3. PICK n \in Nat : n = Cardinality(found)
  BY <1>2, FS_CardinalityType
<1>4. ASSUME NEW e \in found PROVE Cardinality(NotOlder(found, e)) \in 1 .. n
  <2>1. NotOlder(found, e) \in SUBSET found /\ e \in NotOlder(found, e)
    BY <1>2 DEF NotOlder
  <2>2. /\ IsFiniteSet(NotOlder(found, e)) /\ Cardinality(NotOlder(found, e)) <= n
        /\ Cardinality(NotOlder(found, e)) \in Nat
    BY <1>2, <1>3, <2>1, FS_Subset, FS_CardinalityType
  <2>3. Cardinality(NotOlder(found, e)) # 0
    BY <2>1, <2>2, FS_EmptySet
  <2> QED
    BY <2>2, <2>3
<1>5. ASSUME NEW d \in found, NEW e \in found, d.id < e.id
      PROVE  Cardinality(NotOlder(found, d)) # Cardinality(NotOlder(found, e))
  <2>1. NotOlder(found, e) \in SUBSET NotOlder(found, d) /\ NotOlder(found, d) \in SUBSET found
    BY <1>2, <1>5 DEF NotOlder
  <2>2. d \in NotOlder(found, d) /\ d \notin NotOlder(found, e)
    BY <1>2, <1>5 DEF NotOlder
  <2>3. IsFiniteSet(NotOlder(found, d))
    BY <1>2, <2>1, FS_Subset
  <2> QED
    BY <2>1, <2>2, <2>3, FS_Subset
<1> DEFINE place == [e \in found |-> Cardinality(NotOlder(found, e))]
<1>6. place \in [found -> 1 .. n]
  BY <1>4
<1>7. \A d, e \in found : d # e => place[d] # place[e]
  <2> SUFFICES ASSUME NEW d \in found, NEW e \in found, d # e PROVE place[d] # place[e]
    OBVIOUS
  <2>1. d.id < e.id \/ e.id < d.id
    <3>1. d.id # e.id
      BY <1>2
    <3> QED
      BY <1>2, <3>1
  <2> QED
    BY <1>5, <2>1
<1>8. \A e \in found : place[e] = Cardinality(NotOlder(found, e))
  OBVIOUS
<1> HIDE DEF place
<1>9. place \in Injection(found, 1 .. n)
  BY <1>6, <1>7 DEF Injection, IsInjective
<1>10. place \in Surjection(found, 1 .. n)
  <2>1. IsFiniteSet(1 .. n) /\ Cardinality(1 .. n) = n
    BY FS_Interval
  <2> QED
    BY <1>3, <1>9, <2>1, FS_Injection
<1>11. \A k \in 1 .. n : \E e \in found : place[e] = k
  BY <1>10 DEF Surjection
<1>12. PICK m : m = Min({n, PageLimit})
  OBVIOUS
<1>13. m \in Nat /\ m <= n
  <2>1. PageLimit \in Nat
    BY SyncAssumption
  <2>2. \E x \in {n, PageLimit} : \A y \in {n, PageLimit} : x <= y
    BY <2>1
  <2>3. m \in {n, PageLimit} /\ \A y \in {n, PageLimit} : m <= y
    BY <1>12, <2>2 DEF Min
  <2> QED
    BY <2>1, <2>3
<1>14. Newest(rule) =
          [k \in 1 .. m |-> CHOOSE e \in found : Cardinality(NotOlder(found, e)) = k]
  BY <1>1, <1>3, <1>12 DEF Newest, NotOlder
<1>15. ASSUME NEW k \in 1 .. m
       PROVE  (CHOOSE e \in found : Cardinality(NotOlder(found, e)) = k) \in found
  <2>1. k \in 1 .. n
    BY <1>13
  <2>2. \E e \in found : Cardinality(NotOlder(found, e)) = k
    BY <1>8, <1>11, <2>1
  <2> QED
    BY <2>2
<1>16. PICK page : page = Newest(rule)
  OBVIOUS
<1>17. page \in [1 .. m -> found] /\ DOMAIN page = 1 .. m
  BY <1>14, <1>15, <1>16
<1>18. page \in Seq(found)
  BY <1>13, <1>17
<1>19. page \in Seq(Entry)
  <2>1. found \subseteq Entry
    BY <1>2
  <2>2. page \in [1 .. m -> Entry]
    BY <1>17, <2>1
  <2> QED
    BY <1>13, <2>2
<1>20. ToSet(page) \subseteq store
  BY <1>2, <1>17 DEF ToSet
<1> QED
  BY <1>16, <1>19, <1>20

LEMMA HydrateListKeeps ==
  ASSUME IInv, NEW rule \in Rules, HydrateList(rule)
  PROVE  IInv'
<1>1. /\ hydration.page = << >> /\ UNCHANGED <<buf, flush, closed, store, storeBodies, failed,
                                               capturing, lastId, now, up, restarts, hasStore>>
      /\ hydration' \in [todo : {hydration.todo \ {rule}}, page : {Newest(rule), << >>}]
  BY DEF HydrateList, storeVars, handlerVars, processVars
<1>2. IsFiniteSet(store) /\ store \subseteq Entry /\ \A x, y \in store : x.id = y.id => x = y
  BY DEF IInv, TypeOK, Delivered, Kept, Named, Known, Elsewhere
<1>3. Newest(rule) \in Seq(Entry) /\ ToSet(Newest(rule)) \subseteq store
  BY <1>2, NewestFacts
<1>4. << >> \in Seq(Entry) /\ ToSet(<< >>) = {}
  BY DEF ToSet
<1>5. hydration'.page \in Seq(Entry) /\ ToSet(hydration'.page) \subseteq store
  BY <1>1, <1>3, <1>4
<1>6. hydration' \in [todo : SUBSET Rules, page : Seq(Entry)]
  <2>1. hydration.todo \subseteq Rules
    BY DEF IInv, TypeOK
  <2> QED
    BY <1>1, <1>5, <2>1
<1>7. PICK b : b = buf
  OBVIOUS
<1>8. Kept(b) /\ Mirrors(b)
  BY <1>7 DEF IInv
<1>9. Batch("run")' = Batch("run") /\ Batch("close")' = Batch("close")
      /\ \A t \in Flushers : Batch(t)' = Batch(t)
  BY <1>1 DEF Batch
<1>10. Elsewhere' = Elsewhere /\ Stored' = Stored
  BY <1>1, <1>4, <1>5, <1>9 DEF Elsewhere, Stored, Ids
<1>11. Named(b)'
  BY <1>1, <1>8, <1>10 DEF Kept, Named, Known
<1>12. Apart(b)'
  <2>1. \A t \in Flushers : \A x \in Batch(t)' :
           x.id \notin Waiting(b) \union Ids(capturing') \union Stored'
    BY <1>1, <1>8, <1>9, <1>10 DEF Kept, Apart
  <2> QED
    BY <1>1, <1>8, <1>9, <1>10, <2>1 DEF Kept, Apart
<1>13. Remembered(b)'
  <2>1. \A id : InBatch(id)' <=> InBatch(id)
    BY <1>1 DEF InBatch
  <2> QED
    BY <1>1, <1>8, <2>1 DEF Kept, Remembered
<1>14. Kept(buf)' /\ Mirrors(buf)'
  <2>1. Kept(b)'
    BY <1>8, <1>11, <1>12, <1>13 DEF Kept, Tracked, Owned
  <2> QED
    BY <1>1, <1>7, <1>8, <2>1, KeptOf
<1>15. Delivered'
  BY <1>1, <1>5, <1>9 DEF IInv, Delivered
<1>16. TypeOK'
  BY <1>1, <1>6 DEF IInv, TypeOK
<1>17. Len(buf'.order) <= BufferCap
  BY <1>1 DEF IInv
<1> QED
  BY <1>14, <1>15, <1>16, <1>17 DEF IInv

-----------------------------------------------------------------------------
(* The handlers, the backend, the clock and the process.                   *)
LEMMA BeginCaptureKeeps ==
  ASSUME IInv, NEW rule \in Rules, NEW body \in BodyChoices, BeginCapture(rule, body)
  PROVE  IInv'
<1>1. PICK x, b : /\ x = [id |-> lastId + 1, rule |-> rule, ttl |-> now + TTL, body |-> body]
                  /\ b = buf
  OBVIOUS
<1>2. /\ capturing' = capturing \union {x} /\ lastId' = lastId + 1 /\ lastId < MaxId
      /\ UNCHANGED <<buf, flush, closed, hydration, store, storeBodies, failed,
                     now, up, restarts, hasStore>>
  BY <1>1 DEF BeginCapture, storeVars, processVars
<1>3. /\ lastId \in Nat /\ MaxId \in Nat /\ lastId' \in 0 .. MaxId
      /\ x \in Entry /\ x.id = lastId + 1
  <2>1. /\ lastId \in 0 .. MaxId /\ now \in Nat /\ TTL \in Nat /\ MaxId \in Nat
        /\ body \in BOOLEAN
    BY SyncAssumption DEF IInv, TypeOK
  <2> QED
    BY <1>1, <1>2, <2>1 DEF Entry, Id
<1>4. b \in Buffers /\ Kept(b) /\ Mirrors(b)
  BY <1>1 DEF IInv, TypeOK
<1>5. /\ \A y \in Known(b) : y.id \in Nat /\ y.id <= lastId
      /\ \A p \in ToSet(b.pending) : p.id \in Nat /\ p.id <= lastId
  <2>1. /\ \A y \in Known(b) : y.id \in Id
        /\ ToSet(b.pending) \subseteq Refers
    BY <1>1, KnownTypes DEF IInv
  <2>2. \A p \in ToSet(b.pending) : p.id \in Id
    BY <2>1 DEF Refers
  <2> QED
    BY <1>4, <2>1, <2>2 DEF Kept, Named, Id
<1>6. /\ Batch("run")' = Batch("run") /\ Batch("close")' = Batch("close") /\ Stored' = Stored
      /\ \A t \in Flushers : Batch(t)' = Batch(t)
  BY <1>2 DEF Batch, Stored
<1>7. Known(b)' = Known(b) \union {x}
  BY <1>2, <1>6 DEF Known, Elsewhere
<1>8. /\ \A y \in Known(b) : y.id # x.id
      /\ \A p \in ToSet(b.pending) : p.id # x.id
  BY <1>3, <1>5
<1>9. /\ x.id \notin Waiting(b) \union Ids(Entries(b)) \union Stored
      /\ \A t \in Flushers : \A y \in Batch(t) : y.id # x.id
  <2>1. x.id \notin Waiting(b)
    BY <1>8 DEF Waiting, Ids
  <2>2. x.id \notin Ids(Entries(b)) \union Stored
    BY <1>8 DEF Known, Elsewhere, Stored, Ids
  <2>3. \A t \in Flushers : Batch(t) \subseteq Known(b)
    BY <1>1, KnownTypes DEF IInv
  <2> QED
    BY <1>8, <2>1, <2>2, <2>3
<1>10. Named(b)'
  <2>1. \A y, z \in Known(b)' : y.id = z.id => y = z
    BY <1>4, <1>7, <1>8 DEF Kept, Named
  <2>2. \A y \in Known(b)' : y.id <= lastId'
    BY <1>2, <1>3, <1>5, <1>7
  <2>3. \A p \in ToSet(b.pending) : p.id <= lastId'
    BY <1>2, <1>3, <1>5
  <2>4. \A p \in ToSet(b.pending) : \A y \in Known(b)' : y.id = p.id => p = Ref(y)
    BY <1>4, <1>7, <1>8 DEF Kept, Named
  <2> QED
    BY <1>4, <2>1, <2>2, <2>3, <2>4 DEF Kept, Named
<1>11. Apart(b)'
  <2>1. \A y \in capturing' : y.id \notin Waiting(b) \union Ids(Entries(b)) \union Stored'
    BY <1>2, <1>4, <1>6, <1>9 DEF Kept, Apart
  <2>2. ASSUME NEW t \in Flushers, NEW y \in Batch(t)'
        PROVE  y.id \notin Waiting(b) \union Ids(capturing') \union Stored'
    <3>1. y.id \notin Waiting(b) \union Ids(capturing) \union Stored /\ y.id # x.id
      BY <1>4, <1>6, <1>9 DEF Kept, Apart
    <3> QED
      BY <1>2, <1>6, <3>1 DEF Ids
  <2>3. /\ \A y \in Batch("run")' : y.id \notin Ids(Batch("close")')
        /\ Waiting(b) \intersect Stored' = {}
    BY <1>4, <1>6 DEF Kept, Apart
  <2> QED
    BY <2>1, <2>2, <2>3 DEF Apart
<1>12. Remembered(b)'
  <2>1. \A id : InBatch(id)' <=> InBatch(id)
    BY <1>2 DEF InBatch
  <2> QED
    BY <1>2, <1>4, <2>1 DEF Kept, Remembered
<1>13. Kept(buf)' /\ Mirrors(buf)'
  <2>1. Kept(b)'
    BY <1>4, <1>10, <1>11, <1>12 DEF Kept, Tracked, Owned
  <2> QED
    BY <1>1, <1>2, <1>4, <2>1, KeptOf
<1>14. Delivered'
  BY <1>2, DeliveredSame
<1>15. TypeOK'
  BY <1>2, <1>3 DEF IInv, TypeOK
<1>16. Len(buf'.order) <= BufferCap
  BY <1>2 DEF IInv
<1> QED
  BY <1>13, <1>14, <1>15, <1>16 DEF IInv

LEMMA AddStep ==
  ASSUME IInv, NEW e \in capturing, Add(e)
  PROVE  IInv'
<1>1. Kept(buf)' /\ Mirrors(buf)' /\ Len(buf'.order) <= BufferCap /\ buf' \in Buffers
  BY AddKeeps
<1>2. /\ capturing' = capturing \ {e}
      /\ UNCHANGED <<flush, closed, hydration, store, storeBodies, failed,
                     lastId, now, up, restarts, hasStore>>
  BY DEF Add, storeVars, processVars
<1>3. Delivered'
  BY <1>2, DeliveredSame
<1>4. TypeOK'
  BY <1>1, <1>2 DEF IInv, TypeOK
<1> QED
  BY <1>1, <1>3, <1>4 DEF IInv

LEMMA HydrateApplyStep ==
  ASSUME IInv, HydrateApply
  PROVE  IInv'
<1>1. Kept(buf)' /\ Mirrors(buf)' /\ Len(buf'.order) <= BufferCap /\ buf' \in Buffers
  BY HydrateApplyKeeps
<1>2. /\ hydration' = [hydration EXCEPT !.page = << >>]
      /\ UNCHANGED <<flush, closed, store, storeBodies, failed,
                     capturing, lastId, now, up, restarts, hasStore>>
  BY DEF HydrateApply, storeVars, handlerVars, processVars
<1>3. hydration' \in [todo : SUBSET Rules, page : Seq(Entry)] /\ hydration'.page = << >>
  <2>1. hydration \in [todo : SUBSET Rules, page : Seq(Entry)] /\ << >> \in Seq(Entry)
    BY DEF IInv, TypeOK
  <2> QED
    BY <1>2, <2>1
<1>4. Delivered'
  <2>1. ToSet(hydration'.page) = {}
    BY <1>3 DEF ToSet
  <2> QED
    BY <1>2, <2>1 DEF IInv, Delivered, Batch
<1>5. TypeOK'
  BY <1>1, <1>2, <1>3 DEF IInv, TypeOK
<1> QED
  BY <1>1, <1>4, <1>5 DEF IInv

LEMMA StoreReapKeeps ==
  ASSUME IInv, NEW e \in store, StoreReap(e)
  PROVE  IInv'
<1>1. /\ Expired(e, now) /\ store' = store \ {e} /\ storeBodies' = storeBodies \ {e.id}
      /\ UNCHANGED <<buf, flush, closed, hydration, failed,
                     capturing, lastId, now, up, restarts, hasStore>>
  BY DEF StoreReap, handlerVars, processVars
<1>2. PICK b : b = buf
  OBVIOUS
<1>3. Kept(b) /\ Mirrors(b)
  BY <1>2 DEF IInv
<1>4. Batch("run")' = Batch("run") /\ Batch("close")' = Batch("close")
      /\ \A t \in Flushers : Batch(t)' = Batch(t)
  BY <1>1 DEF Batch
<1>5. Known(b)' \subseteq Known(b) /\ Stored' \subseteq Stored
  BY <1>1, <1>4 DEF Known, Elsewhere, Stored, Ids
<1>6. Named(b)'
  BY <1>1, <1>3, <1>5 DEF Kept, Named
<1>7. Apart(b)'
  <2>1. \A t \in Flushers : \A x \in Batch(t)' :
           x.id \notin Waiting(b) \union Ids(capturing') \union Stored'
    BY <1>1, <1>3, <1>4, <1>5 DEF Kept, Apart
  <2> QED
    BY <1>1, <1>3, <1>4, <1>5, <2>1 DEF Kept, Apart
<1>8. Remembered(b)'
  <2>1. \A id : InBatch(id)' <=> InBatch(id)
    BY <1>1 DEF InBatch
  <2> QED
    BY <1>1, <1>3, <2>1 DEF Kept, Remembered
<1>9. Kept(buf)' /\ Mirrors(buf)'
  <2>1. Kept(b)'
    BY <1>3, <1>6, <1>7, <1>8 DEF Kept, Tracked, Owned
  <2> QED
    BY <1>1, <1>2, <1>3, <2>1, KeptOf
<1>10. Delivered'
  <2>1. IsFiniteSet(store')
    BY <1>1, FS_RemoveElement DEF IInv, Delivered
  <2>2. ASSUME NEW x \in store', x.body PROVE x.id \in storeBodies' \union failed'
    <3>1. x \in Known(b) /\ e \in Known(b) /\ x # e /\ x \in store
      BY <1>1 DEF Known, Elsewhere
    <3>2. x.id # e.id
      BY <1>3, <3>1 DEF Kept, Named
    <3>3. x.id \in storeBodies \union failed
      BY <2>2, <3>1 DEF IInv, Delivered
    <3> QED
      BY <1>1, <3>2, <3>3
  <2>3. \A x \in ToSet(hydration'.page) : x \in store' \/ Expired(x, now')
    BY <1>1 DEF IInv, Delivered
  <2> QED
    BY <1>1, <1>4, <2>1, <2>2, <2>3 DEF IInv, Delivered
<1>11. TypeOK'
  BY <1>1 DEF IInv, TypeOK
<1>12. Len(buf'.order) <= BufferCap
  BY <1>1 DEF IInv
<1> QED
  BY <1>9, <1>10, <1>11, <1>12 DEF IInv

(* What has expired stays so.                                              *)
LEMMA TickKeeps ==
  ASSUME IInv, Tick
  PROVE  IInv'
<1>1. /\ now' = now + 1 /\ now < MaxTime
      /\ UNCHANGED <<buf, flush, closed, hydration, store, storeBodies, failed,
                     capturing, lastId, up, restarts, hasStore>>
  BY DEF Tick, storeVars, handlerVars
<1>2. now \in Nat /\ now' \in 0 .. MaxTime
  BY <1>1, SyncAssumption DEF IInv, TypeOK
<1>3. \A e \in Entry : Expired(e, now) => Expired(e, now')
  <2> SUFFICES ASSUME NEW e \in Entry, Expired(e, now) PROVE Expired(e, now')
    OBVIOUS
  <2>1. e.ttl \in Nat
    BY DEF Entry
  <2> QED
    BY <1>1, <1>2, <2>1 DEF Expired
<1>4. PICK b : b = buf
  OBVIOUS
<1>5. Kept(b) /\ Mirrors(b) /\ Entries(b) \subseteq Entry
  BY <1>4, BufferParts DEF IInv, TypeOK
<1>6. Batch("run")' = Batch("run") /\ Batch("close")' = Batch("close")
      /\ \A t \in Flushers : Batch(t)' = Batch(t)
  BY <1>1 DEF Batch
<1>7. Elsewhere' = Elsewhere /\ Stored' = Stored
  BY <1>1, <1>6 DEF Elsewhere, Stored
<1>8. Named(b)'
  BY <1>1, <1>5, <1>7 DEF Kept, Named, Known
<1>9. Apart(b)'
  <2>1. \A t \in Flushers : \A x \in Batch(t)' :
           x.id \notin Waiting(b) \union Ids(capturing') \union Stored'
    BY <1>1, <1>5, <1>6, <1>7 DEF Kept, Apart
  <2> QED
    BY <1>1, <1>5, <1>6, <1>7, <2>1 DEF Kept, Apart
<1>10. Remembered(b)'
  <2>1. \A id : InBatch(id)' <=> InBatch(id)
    BY <1>1 DEF InBatch
  <2> QED
    BY <1>1, <1>3, <1>5, <2>1 DEF Kept, Remembered
<1>11. Kept(buf)' /\ Mirrors(buf)'
  <2>1. Kept(b)'
    BY <1>5, <1>8, <1>9, <1>10 DEF Kept, Tracked, Owned
  <2> QED
    BY <1>1, <1>4, <1>5, <2>1, KeptOf
<1>12. Delivered'
  <2>1. ToSet(hydration.page) \subseteq Entry
    BY KnownTypes DEF IInv
  <2>2. \A x \in ToSet(hydration'.page) : x \in store' \/ Expired(x, now')
    BY <1>1, <1>3, <2>1 DEF IInv, Delivered
  <2> QED
    BY <1>1, <1>6, <2>2 DEF IInv, Delivered
<1>13. TypeOK'
  BY <1>1, <1>2 DEF IInv, TypeOK
<1>14. Len(buf'.order) <= BufferCap
  BY <1>1 DEF IInv
<1> QED
  BY <1>11, <1>12, <1>13, <1>14 DEF IInv

(* A step of none of the goroutines.                                       *)
LEMMA QuietKeeps ==
  ASSUME IInv, up' \in BOOLEAN,
         UNCHANGED <<buf, flush, closed, hydration, store, storeBodies, failed,
                     capturing, lastId, now, restarts, hasStore>>
  PROVE  IInv'
<1>1. Kept(buf)' /\ Mirrors(buf)' /\ Len(buf'.order) <= BufferCap
  BY SameBuffer
<1>2. Delivered'
  BY DeliveredSame
<1>3. TypeOK'
  BY DEF IInv, TypeOK
<1> QED
  BY <1>1, <1>2, <1>3 DEF IInv

LEMMA EmptyFacts ==
  /\ EmptyBuffer \in Buffers /\ Mirrors(EmptyBuffer) /\ EmptyBuffer.order = << >>
  /\ Entries(EmptyBuffer) = {} /\ ToSet(EmptyBuffer.pending) = {} /\ EmptyBuffer.bodies = {}
  /\ \A r \in Rules : ToSet(EmptyBuffer.byRule[r]) = {}
<1>1. /\ EmptyBuffer.order = << >> /\ EmptyBuffer.pending = << >> /\ EmptyBuffer.bodies = {}
      /\ \A r \in Rules : EmptyBuffer.byRule[r] = << >>
  BY DEF EmptyBuffer
<1>2. ToSet(<< >>) = {}
  BY DEF ToSet
<1>3. Mirrors(EmptyBuffer)
  <2>1. Refs(<< >>) = << >>
    BY DEF Refs
  <2> QED
    BY <1>1, <2>1, OnlyEmpty DEF Mirrors
<1>4. EmptyBuffer \in Buffers
  BY DEF EmptyBuffer, Buffers
<1> QED
  BY <1>1, <1>2, <1>3, <1>4 DEF Entries

LEMMA RestartKeeps ==
  ASSUME IInv, Restart
  PROVE  IInv'
<1>1. /\ buf' = EmptyBuffer /\ capturing' = {} /\ closed' = FALSE /\ up' = TRUE
      /\ flush' = [t \in Flushers |-> Idle] /\ hydration' = StartHydration
      /\ restarts' = restarts + 1 /\ restarts < MaxRestarts
      /\ UNCHANGED <<store, storeBodies, failed, lastId, now, hasStore>>
  BY DEF Restart, storeVars
<1>2. PICK b : b = EmptyBuffer
  OBVIOUS
<1>3. /\ b \in Buffers /\ Mirrors(b) /\ Len(b.order) = 0 /\ Entries(b) = {}
      /\ ToSet(b.pending) = {} /\ Waiting(b) = {} /\ b.bodies = {}
      /\ \A r \in Rules : ToSet(b.byRule[r]) = {}
  BY <1>2, EmptyFacts DEF Waiting, Ids
<1>4. "run" \in Flushers /\ "close" \in Flushers
      /\ \A t \in Flushers : flush'[t] = Idle /\ Idle.reqs = << >> /\ Idle.at = "idle"
  BY <1>1 DEF Flushers, Idle
<1>5. ToSet(<< >>) = {} /\ hydration'.page = << >> /\ hydration'.todo \subseteq Rules
  BY <1>1 DEF ToSet, StartHydration
<1>6. \A t \in Flushers : Batch(t)' = {}
  BY <1>4, <1>5 DEF Batch
<1>7. Known(b)' = store
  <2>1. Elsewhere' = store
    BY <1>1, <1>4, <1>5, <1>6 DEF Elsewhere
  <2> QED
    BY <1>3, <2>1 DEF Known
<1>8. Kept(b)'
  <2>1. Named(b)'
    <3>1. store \subseteq Known(buf)
      BY DEF Known, Elsewhere
    <3> QED
      BY <1>1, <1>3, <1>7, <3>1 DEF IInv, Kept, Named
  <2>2. Apart(b)'
    BY <1>1, <1>3, <1>4, <1>6 DEF Apart
  <2>3. Tracked(b)' /\ Remembered(b)' /\ Owned(b)'
    BY <1>3 DEF Tracked, Remembered, Owned
  <2> QED
    BY <2>1, <2>2, <2>3 DEF Kept
<1>9. Kept(buf)' /\ Mirrors(buf)'
  BY <1>1, <1>2, <1>3, <1>8, KeptOf
<1>10. Delivered'
  BY <1>1, <1>4, <1>5, <1>6 DEF IInv, Delivered
<1>11. TypeOK'
  <2>1. flush' \in [Flushers -> FlushStates]
    BY <1>1 DEF FlushStates, Idle
  <2>2. restarts' \in 0 .. MaxRestarts
    BY <1>1, SyncAssumption DEF IInv, TypeOK
  <2>3. hydration' \in [todo : SUBSET Rules, page : Seq(Entry)]
    BY <1>1 DEF StartHydration
  <2> QED
    BY <1>1, <1>2, <1>3, <2>1, <2>2, <2>3 DEF IInv, TypeOK, FlushStates
<1>12. Len(buf'.order) <= BufferCap
  BY <1>1, <1>2, <1>3, BufferAssumption
<1> QED
  BY <1>9, <1>10, <1>11, <1>12 DEF IInv

LEMMA InitIInv == Init => IInv
<1> SUFFICES ASSUME Init PROVE IInv
  OBVIOUS
<1>1. /\ buf = EmptyBuffer /\ capturing = {} /\ lastId = 0 /\ closed = FALSE /\ store = {}
      /\ flush = [t \in Flushers |-> Idle] /\ hydration = StartHydration
  BY DEF Init
<1>2. /\ buf \in Buffers /\ Mirrors(buf) /\ buf.order = << >> /\ Entries(buf) = {}
      /\ ToSet(buf.pending) = {} /\ Waiting(buf) = {} /\ buf.bodies = {}
      /\ \A r \in Rules : ToSet(buf.byRule[r]) = {}
  BY <1>1, EmptyFacts DEF Waiting, Ids
<1>3. "run" \in Flushers /\ "close" \in Flushers
      /\ \A t \in Flushers : flush[t] = Idle /\ Idle.reqs = << >> /\ Idle.at = "idle"
  BY <1>1 DEF Flushers, Idle
<1>4. ToSet(<< >>) = {} /\ hydration.page = << >>
  BY <1>1 DEF ToSet, StartHydration
<1>5. \A t \in Flushers : Batch(t) = {}
  BY <1>3, <1>4 DEF Batch
<1>6. Known(buf) = {}
  BY <1>1, <1>2, <1>3, <1>4, <1>5 DEF Known, Elsewhere
<1>7. Kept(buf)
  <2>1. Named(buf)
    BY <1>2, <1>6 DEF Named
  <2>2. Apart(buf)
    BY <1>1, <1>2, <1>3, <1>5 DEF Apart
  <2>3. Tracked(buf) /\ Remembered(buf) /\ Owned(buf)
    BY <1>2 DEF Tracked, Remembered, Owned
  <2> QED
    BY <2>1, <2>2, <2>3 DEF Kept
<1>8. Delivered
  BY <1>1, <1>3, <1>4, <1>5, FS_EmptySet DEF Delivered
<1>9. TypeOK
  <2>1. flush \in [Flushers -> FlushStates]
    BY <1>1 DEF FlushStates, Idle
  <2>2. hydration \in [todo : SUBSET Rules, page : Seq(Entry)]
    BY <1>1 DEF StartHydration
  <2>3. hasStore \in BOOLEAN /\ lastId \in 0 .. MaxId /\ now \in 0 .. MaxTime
        /\ restarts \in 0 .. MaxRestarts
    <3>1. MaxId \in Nat /\ MaxTime \in Nat /\ MaxRestarts \in Nat /\ StoreChoices \subseteq BOOLEAN
      BY SyncAssumption
    <3> QED
      BY <3>1 DEF Init
  <2>4. storeBodies = {} /\ failed = {} /\ up = TRUE
    BY DEF Init
  <2> QED
    BY <1>1, <1>2, <2>1, <2>2, <2>3, <2>4 DEF TypeOK, FlushStates
<1>10. Len(buf.order) <= BufferCap
  BY <1>2, BufferAssumption
<1> QED
  BY <1>2, <1>7, <1>8, <1>9, <1>10 DEF IInv

-----------------------------------------------------------------------------
LEMMA StepKeeps == IInv /\ [Next]_vars => IInv'
<1> SUFFICES ASSUME IInv, [Next]_vars PROVE IInv'
  OBVIOUS
<1>1. ASSUME NEW rule \in Rules, NEW body \in BodyChoices, BeginCapture(rule, body) PROVE IInv'
  BY <1>1, BeginCaptureKeeps
<1>2. ASSUME NEW e \in capturing, Add(e) PROVE IInv'
  BY <1>2, AddStep
<1>3. ASSUME NEW rule \in Rules, Clear(rule) PROVE IInv'
  BY <1>3, ClearKeeps
<1>4. CASE ClearAll
  BY <1>4, ClearAllKeeps
<1>5. CASE CloseBegin
  BY <1>5, CloseBeginKeeps
<1>6. ASSUME NEW t \in Flushers, FlushDrain(t) PROVE IInv'
  BY <1>6, FlushDrainKeeps
<1>7. ASSUME NEW t \in Flushers, FlushSave(t) PROVE IInv'
  BY <1>7, FlushSaveKeeps
<1>8. ASSUME NEW t \in Flushers, FlushSweep(t) PROVE IInv'
  BY <1>8, FlushSweepKeeps
<1>9. CASE RunStops
  BY <1>9, RunStopsKeeps
<1>10. CASE MemorySweep
  BY <1>10, MemorySweepKeeps
<1>11. ASSUME NEW rule \in Rules, HydrateList(rule) PROVE IInv'
  BY <1>11, HydrateListKeeps
<1>12. CASE HydrateApply
  BY <1>12, HydrateApplyStep
<1>13. ASSUME NEW e \in store, StoreReap(e) PROVE IInv'
  BY <1>13, StoreReapKeeps
<1>14. CASE Tick
  BY <1>14, TickKeeps
<1>15. CASE Shutdown
  BY <1>15, QuietKeeps DEF Shutdown, storeVars, handlerVars
<1>16. CASE Restart
  BY <1>16, RestartKeeps
<1>17. CASE UNCHANGED vars
  <2>1. up' \in BOOLEAN
    BY <1>17 DEF vars, processVars, IInv, TypeOK
  <2> QED
    BY <1>17, <2>1, QuietKeeps DEF vars, storeVars, handlerVars, processVars
<1> QED
  BY <1>1, <1>2, <1>3, <1>4, <1>5, <1>6, <1>7, <1>8, <1>9, <1>10, <1>11, <1>12, <1>13,
     <1>14, <1>15, <1>16, <1>17 DEF Next

LEMMA Invariant == Spec => []IInv
  BY InitIInv, StepKeeps, PTL DEF Spec

(* The buffer, the goroutines' state and the store are always well formed: *)
(* what drains, hydrates and is saved is a sequence of captures, and no id *)
(* is drawn beyond the last one.                                           *)
THEOREM TypeCorrect == Spec => []TypeOK
<1>1. IInv => TypeOK
  BY DEF IInv
<1> QED
  BY <1>1, Invariant, PTL

(* The global insertion order and the per-rule lists never drift apart and *)
(* the buffer keeps within its capacity, whatever is added, hydrated twice, *)
(* evicted, cleared and swept (buffer.go).                                 *)
THEOREM OrderCorrect == Spec => []OrderMirrorsRules
<1>1. ASSUME IInv PROVE OrderMirrorsRules
  <2>1. buf.order \in Seq(Refers) /\ \A r \in Rules : buf.byRule[r] \in Seq(Entry)
    BY <1>1 DEF IInv, TypeOK, Buffers, Refers
  <2>2. ASSUME NEW r \in Rules
        PROVE  IdsOf(buf.byRule[r]) =
                   IdsOf(Only(buf.order, {o \in ToSet(buf.order) : o.rule = r}))
    <3>1. PICK s \in Seq(Entry) : s = buf.byRule[r]
      BY <2>1
    <3>2. Only(buf.order, {o \in ToSet(buf.order) : o.rule = r}) = Only(buf.order, OfRule(r))
      <4>1. \A o \in ToSet(buf.order) : o \in Refers
        BY <2>1 DEF ToSet
      <4>2. \A o \in ToSet(buf.order) :
               o \in {p \in ToSet(buf.order) : p.rule = r} <=> o \in OfRule(r)
        BY <4>1 DEF Refers, OfRule
      <4> QED
        BY <2>1, <4>2, OnlySame
    <3>3. Refs(s) = Only(buf.order, OfRule(r))
      BY <1>1, <3>1 DEF IInv, Mirrors
    <3>4. IdsOf(Refs(s)) = IdsOf(s)
      <4>1. DOMAIN Refs(s) = DOMAIN s /\ \A i \in DOMAIN s : Refs(s)[i].id = s[i].id
        BY DEF Refs, Ref
      <4> QED
        BY <4>1 DEF IdsOf
    <3> QED
      BY <3>1, <3>2, <3>3, <3>4
  <2> QED
    BY <1>1, <2>2 DEF IInv, OrderMirrorsRules
<1> QED
  BY <1>1, Invariant, PTL

(* A body held out of line belongs to a capture still held, and its expiry *)
(* is known (removeEntryLocked, bodyTTL).                                  *)
THEOREM BodiesCorrect == Spec => []BodiesAreOwned
<1>1. IInv => BodiesAreOwned
  BY DEF IInv, Kept, Owned, BodiesAreOwned
<1> QED
  BY <1>1, Invariant, PTL

(* A capture that is held and has not expired is pending, in a batch, in   *)
(* the store with its body, or its write failed: Add, Hydrate, Drain, the  *)
(* evictions and the sweeps forget nothing, across restarts.               *)
THEOREM SafeCorrect == Spec => []BufferedIsSafe
<1>1. ASSUME IInv PROVE BufferedIsSafe
  <2>1. \A e \in Entries(buf) : \/ e.id \in Waiting(buf) \/ InBatch(e.id) \/ e \in store
                                \/ e.id \in failed \/ Expired(e, now)
    BY <1>1 DEF IInv, Kept, Remembered
  <2>2. \A e \in store : e.body => e.id \in storeBodies \/ e.id \in failed
    BY <1>1 DEF IInv, Delivered
  <2>3. \A id : Pending(id) <=> id \in Waiting(buf)
    BY DEF Pending, Waiting
  <2> QED
    BY <2>1, <2>2, <2>3 DEF BufferedIsSafe
<1> QED
  BY <1>1, Invariant, PTL

(* A capture is handed to the store at most once: the batches of Run and   *)
(* Close are disjoint, and nothing that came from the store goes back.     *)
THEOREM SavedCorrect == Spec => []SavedOnce
<1>1. ASSUME IInv PROVE SavedOnce
  <2>1. \A x \in Batch("run") : x.id \notin Ids(Batch("close"))
    BY <1>1 DEF IInv, Kept, Apart
  <2>2. \A t \in Flushers : \A x \in Batch(t) : x.id \notin Ids(store)
    BY <1>1 DEF IInv, Kept, Apart, Stored
  <2>3. \A e \in store : e.id \notin Waiting(buf)
    BY <1>1 DEF IInv, Kept, Apart, Stored, Ids
  <2>4. \A e \in ToSet(flush["run"].reqs) : e \notin ToSet(flush["close"].reqs)
    BY <2>1 DEF Batch, Ids
  <2>5. \A t \in Flushers : ToSet(flush[t].reqs) \intersect store = {}
    BY <2>2 DEF Batch, Ids
  <2> QED
    BY <2>3, <2>4, <2>5 DEF SavedOnce, Pending, Waiting
<1> QED
  BY <1>1, Invariant, PTL
-----------------------------------------------------------------------------
(* Pages.  Captures listed newest first, none twice.                       *)
Falls(s) == \A i, j \in DOMAIN s : i < j => s[i].id > s[j].id
Distinct(s) == \A i, j \in DOMAIN s : s[i].id = s[j].id => i = j

LEMMA EntryIds == \A e \in Entry : e.id \in Nat /\ e.id # NoCursor
  BY SyncAssumption DEF Entry, Id, NoCursor

LEMMA ListOfEntries ==
  ASSUME NEW s \in Seq(Entry)
  PROVE  /\ Len(s) \in Nat /\ DOMAIN s = 1 .. Len(s) /\ ToSet(s) = {s[i] : i \in 1 .. Len(s)}
         /\ \A i \in 1 .. Len(s) : s[i] \in Entry /\ s[i].id \in Nat
         /\ IsFiniteSet(1 .. Len(s)) /\ Cardinality(1 .. Len(s)) = Len(s)
<1> DEFINE n == Len(s)
<1>1. n \in Nat /\ DOMAIN s = 1 .. n /\ \A i \in 1 .. n : s[i] \in Entry
  OBVIOUS
<1>2. \A i \in 1 .. n : s[i].id \in Nat
  BY <1>1, EntryIds
<1> HIDE DEF n
<1>3. IsFiniteSet(1 .. n) /\ Cardinality(1 .. n) = n
  BY <1>1, FS_Interval
<1> QED
  BY <1>1, <1>2, <1>3 DEF ToSet, n

LEMMA HeldOnceIsDistinct ==
  ASSUME NEW s \in Seq(Entry), Cardinality(Ids(ToSet(s))) = Len(s)
  PROVE  Distinct(s)
<1> DEFINE n == Len(s)
           f == [i \in 1 .. n |-> s[i].id]
<1>1. n \in Nat /\ DOMAIN s = 1 .. n /\ IsFiniteSet(1 .. n) /\ Cardinality(1 .. n) = n
  BY ListOfEntries
<1>2. Ids(ToSet(s)) = {s[i].id : i \in 1 .. n}
  BY <1>1 DEF Ids, ToSet
<1>3. \A i \in 1 .. n : f[i] = s[i].id
  OBVIOUS
<1>4. f \in Surjection(1 .. n, Ids(ToSet(s)))
  BY <1>2 DEF Surjection
<1> HIDE DEF f
<1>5. f \in Injection(1 .. n, Ids(ToSet(s)))
  BY <1>1, <1>4, FS_SurjSameCardinalityImpliesInj
<1> QED
  BY <1>1, <1>3, <1>5 DEF Injection, IsInjective, Distinct

LEMMA FallingSize ==
  ASSUME NEW s \in Seq(Entry), Falls(s)
  PROVE  Cardinality(ToSet(s)) = Len(s)
<1> DEFINE n == Len(s)
<1>1. n \in Nat /\ DOMAIN s = 1 .. n /\ IsFiniteSet(1 .. n) /\ Cardinality(1 .. n) = n
  BY ListOfEntries
<1>2. ToSet(s) = {s[i] : i \in 1 .. n} /\ s \in [1 .. n -> ToSet(s)]
  BY <1>1 DEF ToSet
<1>3. ASSUME NEW a \in 1 .. n, NEW b \in 1 .. n, s[a] = s[b] PROVE a = b
  <2>1. s[a].id \in Nat /\ s[b].id \in Nat
    BY ListOfEntries
  <2>2. ~(a < b) /\ ~(b < a)
    BY <1>1, <1>3, <2>1 DEF Falls
  <2> QED
    BY <2>2
<1>4. \A c \in ToSet(s) : \E a \in 1 .. n : s[a] = c
  BY <1>2
<1> HIDE DEF n
<1>5. Cardinality(1 .. n) = Cardinality(ToSet(s))
  BY <1>1, <1>2, <1>3, <1>4, SameSize
<1> QED
  BY <1>1, <1>5 DEF n

(* The sort of List loses nothing.                                         *)
LEMMA NewestFirstFacts ==
  ASSUME NEW s \in Seq(Entry), Distinct(s)
  PROVE  /\ NewestFirst(s) \in Seq(Entry) /\ Falls(NewestFirst(s))
         /\ ToSet(NewestFirst(s)) = ToSet(s)
<1> DEFINE n == Len(s)
           newer == {p \in (1 .. n) \X (1 .. n) : Newer(s, p[1], p[2])}
           place == [k \in 1 .. n |-> CHOOSE i \in 1 .. n :
                                          Cardinality({j \in 1 .. n : Newer(s, j, i)}) = k - 1]
           t == NewestFirst(s)
<1>1. n \in Nat /\ DOMAIN s = 1 .. n /\ \A i \in 1 .. n : s[i] \in Entry /\ s[i].id \in Nat
  BY ListOfEntries
<1>2. t = [k \in 1 .. n |-> s[place[k]]]
  BY <1>1 DEF NewestFirst
<1> HIDE DEF n
<1>3. \A i, j \in 1 .. n : <<i, j>> \in newer <=> Newer(s, i, j)
  OBVIOUS
<1> HIDE DEF newer
<1>4. \A i, j \in 1 .. n : <<i, j>> \in newer <=> s[i].id > s[j].id
  <2> SUFFICES ASSUME NEW i \in 1 .. n, NEW j \in 1 .. n
               PROVE  Newer(s, i, j) <=> s[i].id > s[j].id
    BY <1>3
  <2>1. s[i].id = s[j].id => i = j
    BY <1>1 DEF Distinct
  <2>2. i \in Nat /\ j \in Nat
    BY <1>1
  <2> QED
    BY <2>1, <2>2 DEF Newer
<1>5. Orders(newer, n)
  <2> SUFFICES ASSUME NEW i \in 1 .. n, NEW j \in 1 .. n, NEW k \in 1 .. n
               PROVE  /\ <<i, i>> \notin newer
                      /\ i # j => <<i, j>> \in newer \/ <<j, i>> \in newer
                      /\ <<i, j>> \in newer /\ <<j, k>> \in newer => <<i, k>> \in newer
    BY Zenon DEF Orders
  <2>1. s[i].id \in Nat /\ s[j].id \in Nat /\ s[k].id \in Nat
    BY <1>1
  <2>2. i # j => s[i].id # s[j].id
    BY <1>1 DEF Distinct
  <2>3. /\ <<i, i>> \in newer <=> s[i].id > s[i].id
        /\ <<i, j>> \in newer <=> s[i].id > s[j].id
        /\ <<j, i>> \in newer <=> s[j].id > s[i].id
        /\ <<j, k>> \in newer <=> s[j].id > s[k].id
        /\ <<i, k>> \in newer <=> s[i].id > s[k].id
    BY <1>4
  <2> QED
    BY <2>1, <2>2, <2>3
<1>6. place = [k \in 1 .. n |-> CHOOSE i \in 1 .. n : Cardinality(Prior(newer, n, i)) = k - 1]
  <2>1. \A i \in 1 .. n : Prior(newer, n, i) = {j \in 1 .. n : Newer(s, j, i)}
    BY <1>3 DEF Prior
  <2>2. \A k \in 1 .. n, i \in 1 .. n :
            Cardinality({j \in 1 .. n : Newer(s, j, i)}) = k - 1
                <=> Cardinality(Prior(newer, n, i)) = k - 1
    BY <2>1
  <2> QED
    BY <2>2
<1> HIDE DEF place
<1>7. Sorts(place, newer, n)
  BY <1>1, <1>5, <1>6, RanksSort
<1>8. /\ \A k \in 1 .. n : place[k] \in 1 .. n
      /\ \A i \in 1 .. n : \E k \in 1 .. n : place[k] = i
      /\ \A k, l \in 1 .. n : k < l => s[place[k]].id > s[place[l]].id
  BY <1>4, <1>7 DEF Sorts
<1> HIDE DEF t
<1>9. DOMAIN t = 1 .. n /\ \A k \in 1 .. n : t[k] = s[place[k]] /\ t[k] \in Entry
  BY <1>1, <1>2, <1>8
<1>10. t \in Seq(Entry)
  BY <1>1, <1>2, <1>9
<1>11. Falls(t)
  <2> SUFFICES ASSUME NEW k \in 1 .. n, NEW l \in 1 .. n, k < l PROVE t[k].id > t[l].id
    BY <1>9 DEF Falls
  <2>1. s[place[k]].id > s[place[l]].id
    BY <1>8
  <2> QED
    BY <1>9, <2>1
<1>12. ToSet(t) = ToSet(s)
  <2>1. ToSet(t) = {t[k] : k \in 1 .. n} /\ ToSet(s) = {s[i] : i \in 1 .. n}
    BY <1>1, <1>9 DEF ToSet
  <2>2. \A k \in 1 .. n : \E i \in 1 .. n : t[k] = s[i]
    BY <1>8, <1>9
  <2>3. ASSUME NEW i \in 1 .. n PROVE \E k \in 1 .. n : t[k] = s[i]
    <3>1. PICK k \in 1 .. n : place[k] = i
      BY <1>8
    <3> QED
      BY <1>9, <3>1
  <2> QED
    BY <2>1, <2>2, <2>3
<1> QED
  BY <1>10, <1>11, <1>12 DEF t

(* Behind the capture of the cursor stand the older ones.                  *)
LEMMA AfterFacts ==
  ASSUME NEW s \in Seq(Entry), Falls(s), NEW c \in ToSet(s)
  PROVE  /\ After(s, c.id) \in Seq(Entry) /\ Falls(After(s, c.id))
         /\ ToSet(After(s, c.id)) = {e \in ToSet(s) : e.id < c.id}
<1> DEFINE n == Len(s)
           at == {i \in DOMAIN s : s[i].id = c.id}
<1>1. n \in Nat /\ DOMAIN s = 1 .. n /\ \A i \in 1 .. n : s[i] \in Entry /\ s[i].id \in Nat
  BY ListOfEntries
<1> HIDE DEF n
<1>2. PICK k \in 1 .. n : s[k] = c
  BY <1>1 DEF ToSet
<1>3. c.id \in Nat /\ c.id # NoCursor
  <2>1. s[k] \in Entry
    BY <1>1
  <2> QED
    BY <1>2, <2>1, EntryIds
<1>4. \A i \in 1 .. n : /\ i < k => s[i].id > c.id
                        /\ k < i => s[i].id < c.id
  <2> SUFFICES ASSUME NEW i \in 1 .. n
               PROVE  (i < k => s[i].id > c.id) /\ (k < i => s[i].id < c.id)
    OBVIOUS
  <2>1. s[i].id \in Nat
    BY <1>1
  <2> QED
    BY <1>1, <1>2, <1>3, <2>1 DEF Falls
<1>5. at = {k}
  <2>1. ASSUME NEW i \in 1 .. n, s[i].id = c.id PROVE i = k
    BY <1>3, <1>4, <2>1
  <2> QED
    BY <1>1, <1>2, <2>1
<1>6. After(s, c.id) = SubSeq(s, 1 + k, Len(s))
  <2>1. (CHOOSE i \in at : \A j \in at : i <= j) = k
    BY <1>5
  <2>2. After(s, c.id) = SubSeq(s, 1 + CHOOSE i \in at : \A j \in at : i <= j, Len(s))
    BY <1>3, <1>5 DEF After
  <2> QED
    BY <2>1, <2>2
<1> HIDE DEF at
<1>7. PICK t : t = After(s, c.id)
  OBVIOUS
<1>8. /\ t \in Seq(Entry) /\ DOMAIN t = 1 .. n - k
      /\ \A i \in 1 .. n - k : t[i] = s[k + i]
  <2>1. t = SubSeq(s, k + 1, n) /\ k + 1 \in 1 .. n + 1
    BY <1>6, <1>7 DEF n
  <2>2. t \in Seq(Entry) /\ Len(t) = n - k
    <3>1. /\ t = [i \in 1 .. n - k |-> s[i + k]]
          /\ \A i \in 1 .. n - k : i + k \in 1 .. n
      BY <1>1, <2>1
    <3>2. n - k \in Nat /\ \A i \in 1 .. n - k : s[i + k] \in Entry
      BY <1>1, <3>1
    <3> QED
      BY <3>1, <3>2
  <2>3. \A i \in 1 .. n - k : t[i] = s[k + i]
    BY <1>1, <2>1
  <2> QED
    BY <2>2, <2>3
<1>9. Falls(t)
  <2> SUFFICES ASSUME NEW i \in 1 .. n - k, NEW j \in 1 .. n - k, i < j
               PROVE  t[i].id > t[j].id
    BY <1>8 DEF Falls
  <2>1. k + i \in DOMAIN s /\ k + j \in DOMAIN s /\ k + i < k + j
    BY <1>1
  <2> QED
    BY <1>8, <2>1 DEF Falls
<1>10. ASSUME NEW e \in ToSet(t) PROVE e \in ToSet(s) /\ e.id < c.id
  <2>1. PICK i \in 1 .. n - k : t[i] = e
    BY <1>8 DEF ToSet
  <2>2. k + i \in 1 .. n /\ k < k + i /\ e = s[k + i]
    BY <1>1, <1>8, <2>1
  <2>3. e \in ToSet(s)
    BY <1>1, <2>2 DEF ToSet
  <2> QED
    BY <1>4, <2>2, <2>3
<1>11. ASSUME NEW e \in ToSet(s), e.id < c.id PROVE e \in ToSet(t)
  <2>1. PICK i \in 1 .. n : s[i] = e
    BY <1>1 DEF ToSet
  <2>2. k < i
    BY <1>1, <1>2, <1>3, <1>4, <1>11, <2>1
  <2>3. i - k \in 1 .. n - k /\ k + (i - k) = i
    BY <1>1, <2>2
  <2>4. t[i - k] = e
    BY <1>8, <2>1, <2>3
  <2> QED
    BY <1>8, <2>3, <2>4 DEF ToSet
<1> QED
  BY <1>7, <1>8, <1>9, <1>10, <1>11

(* What is kept of a falling list falls.                                   *)
LEMMA OnlyFalls ==
  ASSUME NEW s \in Seq(Entry), Falls(s), NEW K
  PROVE  Falls(Only(s, K))
<1> DEFINE Good(q) == Falls(q) => Falls(Only(q, K))
           P == {q \in Seq(Entry) : Good(q)}
<1>1. Good(<< >>)
  BY OnlyEmpty
<1>2. ASSUME NEW q \in Seq(Entry), NEW x \in Entry, Good(q) PROVE Good(Append(q, x))
  <2> SUFFICES ASSUME Falls(Append(q, x)) PROVE Falls(Only(Append(q, x), K))
    OBVIOUS
  <2>1. /\ Len(q) \in Nat /\ DOMAIN q = 1 .. Len(q) /\ DOMAIN Append(q, x) = 1 .. Len(q) + 1
        /\ Append(q, x)[Len(q) + 1] = x /\ \A i \in 1 .. Len(q) : Append(q, x)[i] = q[i]
    BY AppendFacts
  <2>2. Falls(q)
    <3> SUFFICES ASSUME NEW i \in 1 .. Len(q), NEW j \in 1 .. Len(q), i < j
                 PROVE  q[i].id > q[j].id
      BY <2>1 DEF Falls
    <3>1. i \in 1 .. Len(q) + 1 /\ j \in 1 .. Len(q) + 1
      BY <2>1
    <3>2. Append(q, x)[i].id > Append(q, x)[j].id
      BY <2>1, <3>1 DEF Falls
    <3> QED
      BY <2>1, <3>2
  <2>3. \A e \in ToSet(q) : e.id > x.id
    <3> SUFFICES ASSUME NEW i \in 1 .. Len(q) PROVE q[i].id > x.id
      BY <2>1 DEF ToSet
    <3>1. i \in 1 .. Len(q) + 1 /\ Len(q) + 1 \in 1 .. Len(q) + 1 /\ i < Len(q) + 1
      BY <2>1
    <3>2. Append(q, x)[i].id > Append(q, x)[Len(q) + 1].id
      BY <2>1, <3>1 DEF Falls
    <3> QED
      BY <2>1, <3>2
  <2>4. PICK o \in Seq(Entry) : o = Only(q, K)
    BY OnlyType
  <2>5. Falls(o) /\ ToSet(o) \subseteq ToSet(q)
    BY <1>2, <2>2, <2>4, OnlyType
  <2>6. Only(Append(q, x), K) = IF x \in K THEN Append(o, x) ELSE o
    BY <2>4, OnlyAppend
  <2>7. /\ Len(o) \in Nat /\ DOMAIN o = 1 .. Len(o) /\ DOMAIN Append(o, x) = 1 .. Len(o) + 1
        /\ Append(o, x)[Len(o) + 1] = x /\ \A i \in 1 .. Len(o) : Append(o, x)[i] = o[i]
    BY AppendFacts
  <2>8. Falls(Append(o, x))
    <3> SUFFICES ASSUME NEW i \in 1 .. Len(o) + 1, NEW j \in 1 .. Len(o) + 1, i < j
                 PROVE  Append(o, x)[i].id > Append(o, x)[j].id
      BY <2>7 DEF Falls
    <3>1. i \in 1 .. Len(o) /\ o[i] \in ToSet(o)
      BY <2>7 DEF ToSet
    <3>2. CASE j \in 1 .. Len(o)
      BY <2>5, <2>7, <3>1, <3>2 DEF Falls
    <3>3. CASE j = Len(o) + 1
      BY <2>3, <2>5, <2>7, <3>1, <3>3
    <3> QED
      BY <2>7, <3>2, <3>3
  <2> QED
    BY <2>5, <2>6, <2>8
<1> HIDE DEF Good
<1>3. << >> \in P /\ \A q \in Seq(Entry), x \in Entry : q \in P => Append(q, x) \in P
  BY <1>1, <1>2, AppendFacts, EmptySeq
<1>4. \A q \in P : Good(q)
  OBVIOUS
<1> HIDE DEF P
<1>5. s \in P
  BY <1>3, SeqClimb
<1> QED
  BY <1>4, <1>5 DEF Good

(* What List goes on with behind the capture c: the older that answer.     *)
OlderIn(s, c) == {e \in ToSet(s) : e.id < c.id}
RestOf(s, c, K) == Only(After(s, c.id), K)

LEMMA RestFacts ==
  ASSUME NEW s \in Seq(Entry), Falls(s), NEW c \in ToSet(s), NEW K
  PROVE  /\ RestOf(s, c, K) \in Seq(Entry) /\ Falls(RestOf(s, c, K))
         /\ ToSet(RestOf(s, c, K)) = OlderIn(s, c) \intersect K
<1>1. PICK t \in Seq(Entry) : /\ t = After(s, c.id) /\ Falls(t)
                              /\ ToSet(t) = {e \in ToSet(s) : e.id < c.id}
  BY AfterFacts
<1>2. /\ Only(t, K) \in Seq(Entry) /\ Falls(Only(t, K)) /\ ToSet(Only(t, K)) = ToSet(t) \intersect K
  BY <1>1, OnlyType, OnlyFalls
<1> QED
  BY <1>1, <1>2 DEF RestOf, OlderIn

(* The page behind a capture held: the newest of the older ones that       *)
(* answer, up to the limit.                                                *)
GoesOnIn(b, rule, q, last, t) ==
    LET older == {e \in ToSet(b.byRule[rule]) : e.id < last /\ Answers(b, e, q, t)}
        page == Page(b, rule, q, last, t)
        shown == ToSet(page.items)
    IN  /\ shown \subseteq older
        /\ \A e \in older \ shown : \A x \in shown : e.id < x.id
        /\ Cardinality(shown) = Len(page.items)
        /\ (page.next = NoCursor) <=> (shown = older)

LEMMA PageFacts ==
  ASSUME NEW b, NEW rule, b.byRule[rule] \in Seq(Entry), Distinct(b.byRule[rule]),
         NEW q, q.limit \in Nat \ {0}, NEW t, NEW c \in ToSet(b.byRule[rule])
  PROVE  GoesOnIn(b, rule, q, c.id, t)
<1> DEFINE s == NewestFirst(b.byRule[rule])
           K == {e \in ToSet(s) : Answers(b, e, q, t)}
           Rest(id) == Only(After(s, id), K)
           older == {e \in ToSet(b.byRule[rule]) : e.id < c.id /\ Answers(b, e, q, t)}
           rest == Rest(c.id)
           page == Page(b, rule, q, c.id, t)
           m == q.limit
           last == rest[m].id
<1>1. s \in Seq(Entry) /\ Falls(s) /\ ToSet(s) = ToSet(b.byRule[rule])
  BY NewestFirstFacts
<1>2. page = IF Len(rest) < m THEN [items |-> rest, next |-> NoCursor]
             ELSE [items |-> SubSeq(rest, 1, m),
                   next  |-> IF Rest(last) = << >> THEN NoCursor ELSE last]
  BY DEF Page
<1> HIDE DEF s, page
<1>3. ASSUME NEW x \in ToSet(s)
      PROVE  /\ Rest(x.id) \in Seq(Entry) /\ Falls(Rest(x.id))
             /\ ToSet(Rest(x.id)) = {e \in ToSet(s) : e.id < x.id /\ Answers(b, e, q, t)}
  <2>1. /\ RestOf(s, x, K) \in Seq(Entry) /\ Falls(RestOf(s, x, K))
        /\ ToSet(RestOf(s, x, K)) = OlderIn(s, x) \intersect K
    <3> HIDE DEF K
    <3> QED
      BY <1>1, RestFacts
  <2> QED
    BY <2>1 DEF RestOf, OlderIn
<1>4. rest \in Seq(Entry) /\ Falls(rest) /\ ToSet(rest) = older
  BY <1>1, <1>3
<1>5. older \subseteq ToSet(s) /\ \A e \in older : e.id < c.id /\ Answers(b, e, q, t)
  BY <1>1
<1> HIDE DEF rest, Rest, older
<1>6. PICK n \in Nat : n = Len(rest) /\ DOMAIN rest = 1 .. n
  BY <1>4
<1>7. \A i \in 1 .. n : rest[i] \in older /\ rest[i].id \in Nat /\ rest[i] \in Entry
  BY <1>4, <1>6, ListOfEntries
<1>8. \A e \in older : \E i \in 1 .. n : rest[i] = e
  BY <1>4, <1>6 DEF ToSet
<1>9. c.id \in Nat
  <2>1. c \in Entry
    BY ListOfEntries
  <2> QED
    BY <2>1, EntryIds
<1>10. m \in Nat \ {0}
  OBVIOUS
<1> DEFINE shown == ToSet(page.items)
           Good == /\ shown \subseteq older
                   /\ \A e \in older \ shown : \A x \in shown : e.id < x.id
                   /\ Cardinality(shown) = Len(page.items)
                   /\ (page.next = NoCursor) <=> (shown = older)
<1>11. ASSUME n < m PROVE Good
  <2>1. page.items = rest /\ page.next = NoCursor
    BY <1>2, <1>6, <1>11
  <2>2. Cardinality(ToSet(rest)) = Len(rest)
    BY <1>4, FallingSize
  <2>3. shown = older
    BY <1>4, <2>1
  <2> QED
    BY <2>1, <2>2, <2>3
<1>12. ASSUME ~(n < m) PROVE Good
  <2>1. /\ m \in 1 .. n /\ page.items = SubSeq(rest, 1, m)
        /\ page.next = IF Rest(last) = << >> THEN NoCursor ELSE last
    BY <1>2, <1>6, <1>10, <1>12
  <2>2. /\ rest[m] \in ToSet(s) /\ last \in Nat /\ last # NoCursor /\ last < c.id
    <3>1. rest[m] \in older /\ rest[m] \in Entry
      BY <1>7, <2>1
    <3> QED
      BY <1>5, <3>1, EntryIds
  <2>3. /\ Rest(last) \in Seq(Entry)
        /\ ToSet(Rest(last)) = {e \in ToSet(s) : e.id < last /\ Answers(b, e, q, t)}
    BY <1>3, <2>2
  <2>4. PICK w : w = SubSeq(rest, 1, m)
    OBVIOUS
  <2>5. w \in Seq(Entry) /\ Len(w) = m /\ DOMAIN w = 1 .. m /\ \A i \in 1 .. m : w[i] = rest[i]
    BY <1>4, <1>6, <2>1, <2>4
  <2>6. \A i, j \in 1 .. n : i < j => rest[i].id > rest[j].id
    BY <1>4, <1>6 DEF Falls
  <2>7. Falls(w)
    <3> SUFFICES ASSUME NEW i \in 1 .. m, NEW j \in 1 .. m, i < j PROVE w[i].id > w[j].id
      BY <2>5 DEF Falls
    <3>1. i \in 1 .. n /\ j \in 1 .. n /\ w[i] = rest[i] /\ w[j] = rest[j]
      BY <2>1, <2>5
    <3> QED
      BY <2>6, <3>1
  <2>8. Cardinality(ToSet(w)) = Len(w)
    BY <2>5, <2>7, FallingSize
  <2>9. ToSet(w) = {rest[i] : i \in 1 .. m}
    BY <2>5 DEF ToSet
  <2>10. ToSet(w) \subseteq older
    BY <1>7, <2>1, <2>9
  <2>11. ASSUME NEW e \in older \ ToSet(w) PROVE e.id < last /\ e.id \in Nat
    <3>1. PICK i \in 1 .. n : rest[i] = e
      BY <1>8
    <3>2. i \notin 1 .. m
      BY <2>9, <3>1
    <3>3. m < i
      BY <2>1, <3>2
    <3> QED
      BY <1>7, <2>1, <2>6, <3>1, <3>3 DEF last
  <2>12. \A x \in ToSet(w) : x.id \in Nat /\ last <= x.id
    <3> SUFFICES ASSUME NEW i \in 1 .. m PROVE rest[i].id \in Nat /\ last <= rest[i].id
      BY <2>9
    <3>1. i \in 1 .. n /\ rest[i].id \in Nat /\ (i < m => rest[i].id > rest[m].id)
      BY <1>7, <2>1, <2>6
    <3> QED
      BY <2>2, <3>1 DEF last
  <2>13. \A e \in older \ ToSet(w) : \A x \in ToSet(w) : e.id < x.id
    BY <2>2, <2>11, <2>12
  <2>14. ToSet(Rest(last)) = older \ ToSet(w)
    <3>1. ASSUME NEW e \in ToSet(Rest(last)) PROVE e \in older \ ToSet(w)
      <4>1. e \in ToSet(s) /\ e.id < last /\ Answers(b, e, q, t) /\ e.id \in Nat
        <5>1. e \in Entry
          BY <2>3, ListOfEntries
        <5> QED
          BY <2>3, <5>1, EntryIds
      <4>2. e.id < c.id
        BY <1>9, <2>2, <4>1
      <4>3. e \notin ToSet(w)
        BY <2>2, <2>12, <4>1
      <4> QED
        BY <1>1, <4>1, <4>2, <4>3 DEF older
    <3>2. ASSUME NEW e \in older \ ToSet(w) PROVE e \in ToSet(Rest(last))
      BY <1>5, <2>3, <2>11, <3>2
    <3> QED
      BY <3>1, <3>2
  <2>15. Rest(last) = << >> <=> ToSet(Rest(last)) = {}
    <3>1. PICK z \in Seq(Entry) : z = Rest(last)
      BY <2>3
    <3>2. z = << >> <=> ToSet(z) = {}
      <4>1. ToSet(z) = {z[i] : i \in 1 .. Len(z)} /\ Len(z) \in Nat
        BY ListOfEntries
      <4>2. CASE Len(z) = 0
        BY <4>1, <4>2
      <4>3. CASE Len(z) # 0
        <5>1. 1 \in 1 .. Len(z)
          BY <4>1, <4>3
        <5>2. z[1] \in ToSet(z) /\ z # << >>
          BY <4>1, <4>3, <5>1
        <5> QED
          BY <5>2
      <4> QED
        BY <4>2, <4>3
    <3> QED
      BY <3>1, <3>2
  <2>16. (page.next = NoCursor) <=> (ToSet(w) = older)
    BY <2>1, <2>2, <2>10, <2>14, <2>15
  <2>17. page.items = w
    BY <2>1, <2>4
  <2>18. shown = ToSet(w)
    BY <2>17
  <2> HIDE DEF shown
  <2> QED
    BY <2>8, <2>10, <2>13, <2>16, <2>17, <2>18
<1>13. Good
  BY <1>11, <1>12
<1> QED
  BY <1>13, Zenon DEF page, older, GoesOnIn

(* A client that echoes the cursor of a page goes on with the next older   *)
(* captures, none twice and none skipped, and no cursor means no more,     *)
(* whatever changed between the two requests (List, nextCursorLocked).     *)
THEOREM PagesCorrect == Spec => PagesGoOn
<1>1. ASSUME TypeOK'
      PROVE  \A rule \in {r \in Rules : Several(r)}, q \in Queries :
               LET last == Page(buf, rule, q, NoCursor, now).next
               IN  last # NoCursor /\ Holds(buf', [rule |-> rule, id |-> last]) /\ HeldOnce(rule)' =>
                       GoesOn(rule, q, last, Page(buf', rule, q, last, now'))
  <2> TAKE rule \in {r \in Rules : Several(r)}, q \in Queries
  <2> DEFINE last == Page(buf, rule, q, NoCursor, now).next
  <2> HIDE DEF last
  <2> SUFFICES ASSUME Holds(buf', [rule |-> rule, id |-> last]), HeldOnce(rule)'
               PROVE  GoesOn(rule, q, last, Page(buf', rule, q, last, now'))
    BY DEF last
  <2>1. buf'.byRule[rule] \in Seq(Entry)
    BY <1>1 DEF TypeOK, Buffers
  <2>2. Distinct(buf'.byRule[rule])
    BY <2>1, HeldOnceIsDistinct DEF HeldOnce
  <2>3. PICK c \in ToSet(buf'.byRule[rule]) : c.id = last
    BY DEF Holds
  <2>4. q.limit \in Nat \ {0}
    BY SyncAssumption
  <2>5. GoesOnIn(buf', rule, q, c.id, now')
    BY <2>1, <2>2, <2>3, <2>4, PageFacts
  <2> QED
    BY <2>3, <2>5, Zenon DEF GoesOn, GoesOnIn
<1>2. TypeOK' => (buf' # buf =>
         \A rule \in {r \in Rules : Several(r)}, q \in Queries :
           LET last == Page(buf, rule, q, NoCursor, now).next
           IN  last # NoCursor /\ Holds(buf', [rule |-> rule, id |-> last]) /\ HeldOnce(rule)' =>
                   GoesOn(rule, q, last, Page(buf', rule, q, last, now')))
  BY <1>1
<1> QED
  BY <1>2, TypeCorrect, PTL DEF PagesGoOn
===============================================================================
