-------------------------- MODULE Dashboard_proofs --------------------------
(***************************************************************************)
(* The ring implements the log, for every capacity and every set of        *)
(* requests, by itself and below any number of request threads.  The       *)
(* refinement needs one fact of the indexes beyond their types: as long as *)
(* the ring is not full, the next write goes to the slot after the last    *)
(* one in use.  The walk of ListDeduped leaves out no key and lists none   *)
(* twice.  And what a stream of the dashboard shows never goes back.       *)
(***************************************************************************)
EXTENDS Dashboard, FoldLemmas, SequenceTheorems

RingInv == TypeOK /\ (size < Cap => head = size)

-----------------------------------------------------------------------------
(* The index of the next write, without the modulus. *)
LEMMA NextHead ==
  ASSUME NEW h \in Slot
  PROVE  (h + 1) % Cap = IF h + 1 = Cap THEN 0 ELSE h + 1
<1>1. Cap \in Nat /\ Cap > 0
  BY RingAssumption
<1>2. CASE h + 1 = Cap
  BY <1>1, <1>2 DEF Slot
<1>3. CASE h + 1 < Cap
  BY <1>1, <1>3 DEF Slot
<1> QED
  BY <1>1, <1>2, <1>3 DEF Slot

(* The list has size entries, each of them a slot. *)
LEMMA ListIsSeq ==
  ASSUME TypeOK
  PROVE  List \in Seq(Requests \union {Blank}) /\ Len(List) = size
<1> USE RingAssumption DEF TypeOK, Slot
<1>1. CASE size < Cap
  BY <1>1 DEF List
<1>2. CASE size = Cap
  BY <1>2 DEF List
<1> QED
  BY <1>1, <1>2

-----------------------------------------------------------------------------
LEMMA RingInvInit == Init => RingInv
BY RingAssumption DEF Init, RingInv, TypeOK, Slot

LEMMA RingInvStep == RingInv /\ [Next]_vars => RingInv'
<1> SUFFICES ASSUME RingInv, [Next]_vars PROVE RingInv'
  OBVIOUS
<1> USE RingAssumption DEF RingInv, TypeOK, Slot
<1>1. ASSUME NEW r \in Requests, Add(r) PROVE RingInv'
  BY <1>1, NextHead DEF Add
<1>2. CASE Clear
  BY <1>2 DEF Clear
<1>3. CASE UNCHANGED vars
  BY <1>3 DEF vars
<1> QED
  BY <1>1, <1>2, <1>3 DEF Next

(* Every reachable state has the types of Buffer's fields, and head stays  *)
(* inside the ring. *)
THEOREM TypeCorrect == Spec => []TypeOK
<1>1. RingInv => TypeOK
  BY DEF RingInv
<1> QED
  BY RingInvInit, RingInvStep, <1>1, PTL DEF Spec

-----------------------------------------------------------------------------
LEMMA AppendIsFunction ==
  ASSUME NEW S, NEW s \in Seq(S), NEW x \in S
  PROVE  Append(s, x) = [i \in 1 .. Len(s) + 1 |-> IF i = Len(s) + 1 THEN x ELSE s[i]]
<1>1. PICK n \in Nat : n = Len(s)
  OBVIOUS
<1>2. PICK f : f = [i \in 1 .. n + 1 |-> IF i = n + 1 THEN x ELSE s[i]]
  OBVIOUS
<1>3. \A i \in 1 .. n : s[i] \in S
  BY <1>1
<1>4. f \in Seq(S) /\ Len(f) = n + 1
  BY <1>2, <1>3
<1>5. /\ Append(s, x) \in Seq(S) /\ Len(Append(s, x)) = n + 1
      /\ \A i \in 1 .. n : Append(s, x)[i] = s[i]
      /\ Append(s, x)[n + 1] = x
  BY <1>1, AppendProperties
<1>6. \A i \in 1 .. n + 1 : Append(s, x)[i] = f[i]
  <2> SUFFICES ASSUME NEW i \in 1 .. n + 1 PROVE Append(s, x)[i] = f[i]
    OBVIOUS
  <2>1. f[i] = IF i = n + 1 THEN x ELSE s[i]
    BY <1>2
  <2>2. i # n + 1 => i \in 1 .. n
    OBVIOUS
  <2> QED
    BY <1>5, <2>1, <2>2
<1>7. Append(s, x) = f
  BY <1>4, <1>5, <1>6, SeqEqual
<1> QED
  BY <1>1, <1>2, <1>7

(* A request added to a ring that is not full joins the list at its end. *)
LEMMA AddGrows ==
  ASSUME RingInv, NEW r \in Requests, Add(r), size < Cap
  PROVE  List' = Append(List, r)
<1> USE RingAssumption DEF RingInv, TypeOK, Slot
<1>1. head = size /\ size' = size + 1 /\ ring' = [ring EXCEPT ![size] = r]
  BY DEF Add
<1>2. List = [i \in 1 .. size |-> ring[i - 1]]
  BY DEF List
<1>3. List' = [i \in 1 .. size + 1 |-> ring'[i - 1]]
  <2>1. CASE size + 1 < Cap
    BY <1>1, <2>1 DEF List
  <2>2. CASE size + 1 = Cap
    <3>1. head' = 0
      BY <1>1, <2>2, NextHead DEF Add
    <3> QED
      BY <1>1, <2>2, <3>1 DEF List
  <2> QED
    BY <2>1, <2>2
<1>4. \A i \in 1 .. size + 1 : ring'[i - 1] = IF i = size + 1 THEN r ELSE ring[i - 1]
  BY <1>1
<1>5. PICK old \in Seq(Requests \union {Blank}) : old = List /\ Len(old) = size
  BY ListIsSeq
<1>6. Append(old, r) = [i \in 1 .. size + 1 |-> IF i = size + 1 THEN r ELSE old[i]]
  BY <1>5, AppendIsFunction
<1>7. \A i \in 1 .. size + 1 : i # size + 1 => old[i] = ring[i - 1]
  BY <1>2, <1>5
<1> QED
  BY <1>3, <1>4, <1>5, <1>6, <1>7

(* A request added to a full ring takes the place of the oldest. *)
LEMMA AddRotates ==
  ASSUME RingInv, NEW r \in Requests, Add(r), size = Cap
  PROVE  List' = Append(Tail(List), r)
<1> USE RingAssumption DEF RingInv, TypeOK, Slot
<1> DEFINE Oldest(h, i) == IF i <= Cap - h THEN h + i - 1 ELSE h + i - 1 - Cap
<1>1. size' = Cap /\ ring' = [ring EXCEPT ![head] = r]
  BY DEF Add
<1>2. head' = IF head + 1 = Cap THEN 0 ELSE head + 1
  BY NextHead DEF Add
<1>3. List = [i \in 1 .. Cap |-> ring[Oldest(head, i)]]
  <2>1. List = [i \in 1 .. Cap |-> IF i <= Cap - head THEN ring[head + i - 1]
                                    ELSE ring[head + i - 1 - Cap]]
    BY DEF List
  <2> QED
    BY <2>1
<1>4. List' = [i \in 1 .. Cap |-> ring'[Oldest(head', i)]]
  <2>1. List' = [i \in 1 .. Cap |-> IF i <= Cap - head' THEN ring'[head' + i - 1]
                                      ELSE ring'[head' + i - 1 - Cap]]
    BY <1>1 DEF List
  <2> QED
    BY <2>1
<1>5. Oldest(head', Cap) = head
  BY <1>2
<1>6. \A i \in 1 .. Cap - 1 :
          /\ Oldest(head', i) = Oldest(head, i + 1)
          /\ Oldest(head, i + 1) \in Slot /\ Oldest(head, i + 1) # head
  BY <1>2
<1>7. \A i \in 1 .. Cap : List'[i] = IF i = Cap THEN r ELSE List[i + 1]
  BY <1>1, <1>3, <1>4, <1>5, <1>6
<1>8. List \in Seq(Requests \union {Blank}) /\ Len(List) = Cap
  BY ListIsSeq
<1>9. Append(Tail(List), r) = [i \in 1 .. Cap |-> IF i = Cap THEN r ELSE List[i + 1]]
  <2> DEFINE rest == Tail(List)
  <2>1. rest = [i \in 1 .. Cap - 1 |-> List[i + 1]]
    BY <1>8
  <2>2. rest \in Seq(Requests \union {Blank}) /\ Len(rest) = Cap - 1
    BY <1>8
  <2> HIDE DEF rest
  <2>3. Append(rest, r) = [i \in 1 .. Cap |-> IF i = Cap THEN r ELSE rest[i]]
    BY <2>2
  <2>4. \A i \in 1 .. Cap : i # Cap => rest[i] = List[i + 1]
    BY <2>1
  <2>5. Append(rest, r) = [i \in 1 .. Cap |-> IF i = Cap THEN r ELSE List[i + 1]]
    BY <2>3, <2>4
  <2> QED
    BY <2>5 DEF rest
<1> QED
  BY <1>4, <1>7, <1>9

(* Every operation of the ring is that operation of the log, or leaves the *)
(* log as it is: buffer.go is an implementation of UnmatchedLog.           *)
THEOREM RingImplementsLog == Spec => ImplementsLog
<1>1. Init => Log!Init
  BY RingAssumption DEF Init, Log!Init, List
<1>2. RingInv /\ [Next]_vars => [Log!Next]_List
  <2> SUFFICES ASSUME RingInv, [Next]_vars PROVE [Log!Next]_List
    OBVIOUS
  <2>1. List \in Seq(Requests \union {Blank}) /\ Len(List) = size
    BY ListIsSeq DEF RingInv
  <2>2. ASSUME NEW r \in Requests, Add(r) PROVE Log!Add(r)
    <3>1. CASE size < Cap
      BY <2>1, <2>2, <3>1, AddGrows DEF Log!Add
    <3>2. CASE size = Cap
      BY <2>1, <2>2, <3>2, AddRotates DEF Log!Add
    <3> QED
      BY <3>1, <3>2, RingAssumption DEF RingInv, TypeOK
  <2>3. ASSUME Clear PROVE Log!Clear
    BY <2>3, RingAssumption DEF Clear, List, Log!Clear
  <2>4. CASE UNCHANGED vars
    BY <2>4 DEF vars, List
  <2> QED
    BY <2>2, <2>3, <2>4 DEF Next, Log!Next
<1> QED
  BY <1>1, <1>2, RingInvInit, RingInvStep, PTL DEF Spec, ImplementsLog, Log!Spec

-----------------------------------------------------------------------------
(* The list without duplicates.                                            *)
Captured == Requests \union {Blank}
Entries == [request : Captured, count : Nat]
EntryOf(r) == [request |-> r, count |-> CountOf(r.key)]

LEMMA EntryFacts ==
  ASSUME TypeOK, NEW r \in Captured
  PROVE  EntryOf(r) \in Entries /\ EntryOf(r).request = r /\ EntryOf(r).count = CountOf(r.key)
<1> DEFINE with == {i \in DOMAIN List : List[i].key = r.key}
<1>1. Len(List) \in Nat /\ DOMAIN List = 1 .. Len(List)
  BY ListIsSeq
<1>2. with \in SUBSET (1 .. Len(List))
  BY <1>1
<1>3. CountOf(r.key) = Cardinality(with)
  BY DEF CountOf
<1> HIDE DEF with
<1>4. CountOf(r.key) \in Nat
  BY <1>1, <1>2, <1>3, PlacesAreFinite
<1> QED
  BY <1>4 DEF EntryOf, Entries

(* One step of the walk, from what was kept so far.                        *)
LEMMA KeptFacts ==
  ASSUME TypeOK, NEW q \in Seq(Entries), NEW r \in Captured
  PROVE  /\ Kept(q, r) \in Seq(Entries)
         /\ (\E y \in 1 .. Len(q) : q[y].request.key = r.key) => Kept(q, r) = q
         /\ (\A y \in 1 .. Len(q) : q[y].request.key # r.key) =>
                Kept(q, r) = Append(q, EntryOf(r))
<1>1. DOMAIN q = 1 .. Len(q)
  OBVIOUS
<1>2. EntryOf(r) \in Entries
  BY EntryFacts
<1>3. Append(q, EntryOf(r)) \in Seq(Entries)
  BY <1>2
<1>4. Kept(q, r) = IF \E y \in 1 .. Len(q) : q[y].request.key = r.key
                     THEN q ELSE Append(q, EntryOf(r))
  BY <1>1 DEF Kept, EntryOf
<1> QED
  BY <1>3, <1>4

(* The walk, as a run along the sequence.                                  *)
Walks(run, s, n) ==
    run[0] = << >> /\ \A i \in 1 .. n : run[i] = Kept(run[i - 1], s[i])

WalkIsRun(s) ==
    \E n \in Nat : \E run \in [0 .. n -> Seq(Entries)] :
        n = Len(s) /\ Walks(run, s, n) /\ run[n] = FoldLeft(Kept, << >>, s)

LEMMA WalkRuns ==
  ASSUME TypeOK, NEW s \in Seq(Captured)
  PROVE  WalkIsRun(s)
<1> DEFINE n == Len(s)
           step == [i \in 1 .. n |-> [q \in Seq(Entries) |-> Kept(q, s[i])]]
           Fix(f) == f = [t \in SUBSET (1 .. n) |->
                            IF t = {} THEN << >>
                            ELSE Kept(f[t \ {Max(t)}], s[Max(t)])]
           f == CHOOSE f : Fix(f)
<1>1. n \in Nat /\ DOMAIN s = 1 .. n /\ \A i \in 1 .. n : s[i] \in Captured
  OBVIOUS
<1>2. FoldLeft(Kept, << >>, s) = f[1 .. n]
  BY <1>1 DEF FoldLeft, MapThenFoldSet
<1>3. step \in [1 .. n -> [Seq(Entries) -> Seq(Entries)]]
  <2>1. \A i \in 1 .. n, q \in Seq(Entries) : Kept(q, s[i]) \in Seq(Entries)
    BY <1>1, KeptFacts
  <2> QED
    BY <2>1
<1>4. \A i \in 1 .. n, q \in Seq(Entries) : step[i][q] = Kept(q, s[i])
  OBVIOUS
<1> HIDE DEF n, step
<1>5. PICK g \in [SUBSET (1 .. n) -> Seq(Entries)] : FoldsOver(g, n, << >>, step)
  BY <1>1, <1>3, FoldExists, EmptySeq
<1>6. Fix(g)
  <2>1. ASSUME NEW t \in SUBSET (1 .. n), t # {}
        PROVE  g[t] = Kept(g[t \ {Max(t)}], s[Max(t)])
    <3>1. Max(t) \in 1 .. n
      BY <1>1, <2>1, MaxIsIn
    <3>2. t \ {Max(t)} \in SUBSET (1 .. n) /\ g[t \ {Max(t)}] \in Seq(Entries)
      BY <1>5
    <3> QED
      BY <1>4, <1>5, <2>1, <3>1, <3>2 DEF FoldsOver
  <2>2. \A t \in SUBSET (1 .. n) : t = {} => g[t] = << >>
    BY <1>5 DEF FoldsOver
  <2> QED
    BY <1>5, <2>1, <2>2
<1>7. Fix(f)
  <2> HIDE DEF Fix
  <2> QED
    BY <1>6
<1> HIDE DEF f
<1>8. f[{}] = << >>
  BY <1>7
<1>9. ASSUME NEW t \in SUBSET (1 .. n), t # {}, f[t \ {Max(t)}] \in Seq(Entries)
      PROVE  f[t] = step[Max(t)][f[t \ {Max(t)}]]
  <2>1. Max(t) \in 1 .. n
    BY <1>1, <1>9, MaxIsIn
  <2> QED
    BY <1>4, <1>7, <1>9, <2>1
<1> HIDE DEF Fix
<1>10. Solves(f, n, Seq(Entries), << >>, step)
  BY <1>1, <1>3, <1>8, <1>9, EmptySeq DEF Solves
<1>r. PICK run \in [0 .. n -> Seq(Entries)] : Follows(run, n, << >>, step) /\ run[n] = f[1 .. n]
  BY <1>10, FoldRuns DEF Runs
<1>11. ASSUME NEW i \in 1 .. n PROVE run[i] = Kept(run[i - 1], s[i])
  <2>1. run[i - 1] \in Seq(Entries)
    BY <1>1, <1>r
  <2> QED
    BY <1>4, <1>r, <2>1 DEF Follows
<1> QED
  BY <1>1, <1>2, <1>r, <1>11 DEF Walks, Follows, WalkIsRun, n

(* What the entries count together, as a running sum.                      *)
CountsAre(s, n) == [i \in 1 .. n |-> s[i].count]

TallyIsSum(s) ==
    \E n \in Nat : \E run :
        /\ n = Len(s) /\ SumsUp(run, CountsAre(s, n), n)
        /\ run[n] = FoldLeft(LAMBDA sum, e : sum + e.count, 0, s)

LEMMA TallySums ==
  ASSUME NEW s \in Seq(Entries)
  PROVE  TallyIsSum(s)
<1> DEFINE n == Len(s)
           step == [i \in 1 .. n |-> [k \in Nat |-> k + s[i].count]]
           Fix(f) == f = [t \in SUBSET (1 .. n) |->
                            IF t = {} THEN 0 ELSE f[t \ {Max(t)}] + s[Max(t)].count]
           f == CHOOSE f : Fix(f)
<1>1. n \in Nat /\ DOMAIN s = 1 .. n /\ \A i \in 1 .. n : s[i].count \in Nat
  <2>1. n \in Nat /\ DOMAIN s = 1 .. n /\ \A i \in 1 .. n : s[i] \in Entries
    OBVIOUS
  <2>2. \A e \in Entries : e.count \in Nat
    BY DEF Entries
  <2> QED
    BY <2>1, <2>2
<1>2. FoldLeft(LAMBDA sum, e : sum + e.count, 0, s) = f[1 .. n]
  BY <1>1 DEF FoldLeft, MapThenFoldSet
<1>3. step \in [1 .. n -> [Nat -> Nat]]
  BY <1>1
<1>4. \A i \in 1 .. n, k \in Nat : step[i][k] = k + s[i].count
  OBVIOUS
<1> HIDE DEF n, step
<1>5. PICK g \in [SUBSET (1 .. n) -> Nat] : FoldsOver(g, n, 0, step)
  BY <1>1, <1>3, FoldExists
<1>6. Fix(g)
  <2>1. ASSUME NEW t \in SUBSET (1 .. n), t # {}
        PROVE  g[t] = g[t \ {Max(t)}] + s[Max(t)].count
    <3>1. Max(t) \in 1 .. n
      BY <1>1, <2>1, MaxIsIn
    <3>2. t \ {Max(t)} \in SUBSET (1 .. n) /\ g[t \ {Max(t)}] \in Nat
      BY <1>5
    <3> QED
      BY <1>4, <1>5, <2>1, <3>1, <3>2 DEF FoldsOver
  <2>2. \A t \in SUBSET (1 .. n) : t = {} => g[t] = 0
    BY <1>5 DEF FoldsOver
  <2> QED
    BY <1>5, <2>1, <2>2
<1>7. Fix(f)
  <2> HIDE DEF Fix
  <2> QED
    BY <1>6
<1> HIDE DEF f
<1>8. f[{}] = 0
  BY <1>7
<1>9. ASSUME NEW t \in SUBSET (1 .. n), t # {}, f[t \ {Max(t)}] \in Nat
      PROVE  f[t] = step[Max(t)][f[t \ {Max(t)}]]
  <2>1. Max(t) \in 1 .. n
    BY <1>1, <1>9, MaxIsIn
  <2> QED
    BY <1>4, <1>7, <1>9, <2>1
<1> HIDE DEF Fix
<1>10. Solves(f, n, Nat, 0, step)
  BY <1>1, <1>3, <1>8, <1>9 DEF Solves
<1>r. PICK run \in [0 .. n -> Nat] : Follows(run, n, 0, step) /\ run[n] = f[1 .. n]
  BY <1>10, FoldRuns DEF Runs
<1>11. ASSUME NEW i \in 1 .. n PROVE run[i] = run[i - 1] + CountsAre(s, n)[i]
  <2>1. run[i - 1] \in Nat
    BY <1>1, <1>r
  <2> QED
    BY <1>4, <1>r, <2>1 DEF Follows, CountsAre
<1>12. SumsUp(run, CountsAre(s, n), n)
  BY <1>r, <1>11 DEF SumsUp, Follows
<1> QED
  BY <1>1, <1>2, <1>r, <1>12 DEF TallyIsSum, n

-----------------------------------------------------------------------------
(* The walk has passed the places after p: what it kept are the last ones  *)
(* there, the newest first.                                                *)
After(p) == {i \in LastOnes : i > p}
From(p) == {i \in LastOnes : i >= p}

Walked(q, p) ==
    /\ Len(q) = Cardinality(After(p))
    /\ \A i \in After(p) : q[Cardinality(From(i))] = EntryOf(List[i])
    /\ \A y \in 1 .. Len(q) : \E i \in After(p) : q[y] = EntryOf(List[i])
    /\ \A y, z \in 1 .. Len(q) : q[y].request.key = q[z].request.key => y = z

LEMMA Places ==
  ASSUME TypeOK
  PROVE  /\ Len(List) \in Nat /\ \A i \in 1 .. Len(List) : List[i] \in Captured
         /\ LastOnes \in SUBSET (1 .. Len(List))
         /\ \A i \in 1 .. Len(List) :
               i \in LastOnes <=> \A j \in i + 1 .. Len(List) : List[j].key # List[i].key
<1>1. List \in Seq(Captured)
  BY ListIsSeq DEF Captured
<1>2. DOMAIN List = 1 .. Len(List) /\ Len(List) \in Nat
  BY <1>1
<1> QED
  BY <1>1, <1>2 DEF LastOnes

(* The places of the last ones: a number of them, from the newest.         *)
LEMMA FromFacts ==
  ASSUME TypeOK, NEW p \in Nat
  PROVE  /\ IsFiniteSet(After(p)) /\ Cardinality(After(p)) \in Nat
         /\ \A i \in After(p) : Cardinality(From(i)) \in 1 .. Cardinality(After(p))
<1>1. Len(List) \in Nat /\ LastOnes \in SUBSET (1 .. Len(List))
  BY Places
<1>2. After(p) \in SUBSET (1 .. Len(List))
  BY <1>1 DEF After
<1>3. IsFiniteSet(After(p)) /\ Cardinality(After(p)) \in Nat
  BY <1>1, <1>2, PlacesAreFinite
<1>4. ASSUME NEW i \in After(p) PROVE Cardinality(From(i)) \in 1 .. Cardinality(After(p))
  <2>1. From(i) \in SUBSET After(p) /\ i \in From(i)
    <3>1. \A j \in LastOnes : j \in Nat
      BY <1>1
    <3>2. i \in LastOnes /\ i \in Nat /\ i > p
      BY <3>1 DEF After
    <3>3. \A j \in LastOnes : j >= i => j > p
      BY <3>1, <3>2
    <3>4. i \in From(i)
      BY <3>2 DEF From
    <3>5. \A j \in From(i) : j \in After(p)
      BY <3>3 DEF From, After
    <3> QED
      BY <3>4, <3>5
  <2>2. IsFiniteSet(From(i)) /\ Cardinality(From(i)) <= Cardinality(After(p))
    BY <1>3, <2>1, FS_Subset
  <2>3. Cardinality(From(i)) \in Nat /\ (Cardinality(From(i)) = 0 => From(i) = {})
    BY <2>2, FS_CardinalityType, FS_EmptySet
  <2> QED
    BY <1>3, <2>1, <2>2, <2>3
<1> QED
  BY <1>3, <1>4

(* A request that is not the last with its key has the last after it.      *)
LEMMA LastOfKey ==
  ASSUME TypeOK, NEW p \in 1 .. Len(List)
  PROVE  \E i \in LastOnes : i >= p /\ List[i].key = List[p].key
<1> DEFINE same == {j \in 1 .. Len(List) : List[j].key = List[p].key}
<1>1. Len(List) \in Nat
  BY Places
<1>2. same \in SUBSET (1 .. Len(List)) /\ p \in same
  OBVIOUS
<1>3. PICK i : i = Max(same)
  OBVIOUS
<1>4. i \in same /\ \A j \in same : i >= j
  <2> HIDE DEF same
  <2> QED
    BY <1>1, <1>2, <1>3, MaxIsIn
<1>5. i \in 1 .. Len(List) /\ i >= p /\ List[i].key = List[p].key
  BY <1>2, <1>4
<1>6. ASSUME NEW j \in i + 1 .. Len(List) PROVE List[j].key # List[i].key
  <2>1. j \in 1 .. Len(List) /\ ~(i >= j)
    BY <1>1, <1>5
  <2> QED
    BY <1>4, <1>5, <2>1
<1>7. i \in LastOnes
  BY <1>5, <1>6, Places
<1> QED
  BY <1>5, <1>7

LEMMA WalkStep ==
  ASSUME TypeOK, NEW p \in 1 .. Len(List), NEW q \in Seq(Entries), Walked(q, p)
  PROVE  Walked(Kept(q, List[p]), p - 1)
<1>1. /\ Len(List) \in Nat /\ List[p] \in Captured
      /\ LastOnes \in SUBSET (1 .. Len(List))
      /\ p \in LastOnes <=> \A j \in p + 1 .. Len(List) : List[j].key # List[p].key
  BY Places
<1>2. /\ Len(q) = Cardinality(After(p))
      /\ \A i \in After(p) : q[Cardinality(From(i))] = EntryOf(List[i])
      /\ \A y \in 1 .. Len(q) : \E i \in After(p) : q[y] = EntryOf(List[i])
      /\ \A y, z \in 1 .. Len(q) : q[y].request.key = q[z].request.key => y = z
  BY DEF Walked
<1>3. ASSUME NEW i \in After(p)
      PROVE  /\ Cardinality(From(i)) \in 1 .. Len(q)
             /\ i \in p + 1 .. Len(List) /\ EntryOf(List[i]).request = List[i]
  <2>1. p \in Nat /\ i \in 1 .. Len(List) /\ i > p
    BY <1>1 DEF After
  <2>2. EntryOf(List[i]).request = List[i]
    BY <2>1, Places, EntryFacts
  <2>3. Cardinality(From(i)) \in 1 .. Len(q)
    BY <1>2, <2>1, FromFacts
  <2> QED
    BY <1>1, <2>1, <2>2, <2>3
<1>0. \A i \in LastOnes : i > p - 1 <=> i > p \/ i = p
  <2>1. \A i \in LastOnes : i \in Nat
    BY <1>1
  <2> QED
    BY <2>1
<1>4. CASE p \notin LastOnes
  <2>1. After(p - 1) = After(p)
    BY <1>0, <1>4 DEF After
  <2>2. PICK i \in LastOnes : i >= p /\ List[i].key = List[p].key
    BY LastOfKey
  <2>3. i \in After(p)
    BY <1>1, <1>4, <2>2 DEF After
  <2>4. q[Cardinality(From(i))].request.key = List[p].key
    BY <1>2, <1>3, <2>2, <2>3
  <2>5. \E y \in 1 .. Len(q) : q[y].request.key = List[p].key
    BY <1>3, <2>3, <2>4
  <2>6. Kept(q, List[p]) = q
    BY <1>1, <2>5, KeptFacts
  <2> QED
    BY <2>1, <2>6 DEF Walked
<1>5. CASE p \in LastOnes
  <2>1. ASSUME NEW y \in 1 .. Len(q) PROVE q[y].request.key # List[p].key
    <3>1. PICK i \in After(p) : q[y] = EntryOf(List[i])
      BY <1>2
    <3>2. i \in p + 1 .. Len(List) /\ q[y].request = List[i]
      BY <1>3, <3>1
    <3> QED
      BY <1>1, <1>5, <3>2
  <2>2. PICK e : e = EntryOf(List[p])
    OBVIOUS
  <2>3. PICK q2 : q2 = Append(q, e)
    OBVIOUS
  <2>4. Kept(q, List[p]) = q2
    BY <1>1, <2>1, <2>2, <2>3, KeptFacts
  <2>5. PICK n \in Nat : n = Len(q)
    OBVIOUS
  <2>6. /\ Len(q2) = n + 1 /\ q2[n + 1] = e
        /\ \A y \in 1 .. n : q2[y] = q[y]
    BY <2>3, <2>5
  <2>7. After(p - 1) = After(p) \union {p} /\ p \notin After(p)
    <3>1. ~(p > p)
      BY <1>1
    <3>2. \A i : i \in After(p - 1) <=> i \in After(p) \/ i = p
      BY <1>0, <1>5 DEF After
    <3> QED
      BY <3>1, <3>2 DEF After
  <2>8. Cardinality(After(p - 1)) = n + 1
    <3>1. IsFiniteSet(After(p))
      BY <1>1, FromFacts
    <3> QED
      BY <1>2, <2>5, <2>7, <3>1, FS_AddElement
  <2>9. From(p) = After(p - 1)
    <3>1. \A i \in LastOnes : i >= p <=> i > p \/ i = p
      <4>1. \A i \in LastOnes : i \in Nat
        BY <1>1
      <4> QED
        BY <4>1
    <3> QED
      BY <1>0, <3>1 DEF From, After
  <2>10. \A i \in After(p - 1) : q2[Cardinality(From(i))] = EntryOf(List[i])
    <3> SUFFICES ASSUME NEW i \in After(p - 1) PROVE q2[Cardinality(From(i))] = EntryOf(List[i])
      OBVIOUS
    <3>1. CASE i = p
      BY <2>2, <2>6, <2>8, <2>9, <3>1
    <3>2. CASE i # p
      BY <1>2, <1>3, <2>5, <2>6, <2>7, <3>2
    <3> QED
      BY <3>1, <3>2
  <2>11. \A y \in 1 .. n + 1 : y \in 1 .. n \/ y = n + 1
    OBVIOUS
  <2>12. \A y \in 1 .. n + 1 : \E i \in After(p - 1) : q2[y] = EntryOf(List[i])
    BY <1>2, <2>2, <2>5, <2>6, <2>7, <2>11
  <2>13. e.request = List[p]
    BY <1>1, <2>2, EntryFacts
  <2>14. \A y, z \in 1 .. n + 1 : q2[y].request.key = q2[z].request.key => y = z
    BY <1>2, <2>1, <2>5, <2>6, <2>11, <2>13
  <2> QED
    BY <2>4, <2>6, <2>8, <2>10, <2>12, <2>14 DEF Walked
<1> QED
  BY <1>4, <1>5

(* The walk over the whole list keeps its last ones.                       *)
LEMMA WalkKeepsLastOnes ==
  ASSUME TypeOK
  PROVE  /\ FoldLeft(Kept, << >>, Reverse(List)) \in Seq(Entries)
         /\ Walked(FoldLeft(Kept, << >>, Reverse(List)), 0)
<1> DEFINE s == Reverse(List)
<1>1. List \in Seq(Captured) /\ Len(List) \in Nat
  BY ListIsSeq DEF Captured
<1>2. /\ s \in Seq(Captured) /\ Len(s) = Len(List)
      /\ \A k \in 1 .. Len(List) : s[k] = List[Len(List) - k + 1]
  BY <1>1 DEF Reverse
<1> HIDE DEF s
<1>3. PICK n \in Nat : \E run \in [0 .. n -> Seq(Entries)] :
          n = Len(s) /\ Walks(run, s, n) /\ run[n] = FoldLeft(Kept, << >>, s)
  BY <1>2, WalkRuns DEF WalkIsRun
<1>r. PICK run \in [0 .. n -> Seq(Entries)] :
          Walks(run, s, n) /\ run[n] = FoldLeft(Kept, << >>, s)
  BY <1>3
<1>4. n = Len(List)
  BY <1>2, <1>3
<1> DEFINE P == {k \in 0 .. n : Walked(run[k], n - k)}
<1>5. 0 \in P
  <2>1. After(n) = {}
    <3>1. LastOnes \in SUBSET (1 .. n)
      BY <1>4, Places
    <3>2. \A i \in 1 .. n : ~(i > n)
      OBVIOUS
    <3> QED
      BY <3>1, <3>2 DEF After
  <2>2. Cardinality(After(n)) = 0
    BY <2>1, FS_EmptySet
  <2>3. run[0] = << >> /\ Len(<< >>) = 0
    BY <1>r DEF Walks
  <2>4. Walked(run[0], n)
    BY <2>1, <2>2, <2>3 DEF Walked
  <2> QED
    BY <2>4
<1>6. ASSUME NEW k \in 1 .. n, k - 1 \in P PROVE k \in P
  <2>1. PICK p \in 1 .. n : p = n - (k - 1) /\ p - 1 = n - k
    OBVIOUS
  <2>2. Walked(run[k - 1], p) /\ run[k - 1] \in Seq(Entries)
    BY <1>6, <1>r, <2>1
  <2>3. s[k] = List[p]
    <3>1. Len(List) - k + 1 = p
      BY <1>4, <2>1
    <3> QED
      BY <1>2, <1>4, <3>1
  <2>4. run[k] = Kept(run[k - 1], List[p])
    BY <1>r, <2>3 DEF Walks
  <2>5. Walked(run[k], p - 1)
    BY <1>4, <2>2, <2>4, WalkStep
  <2> QED
    BY <2>1, <2>5
<1> HIDE DEF P
<1>7. \A k \in 0 .. n : k \in P
  BY <1>5, <1>6, Climb
<1>8. n \in P
  BY <1>7
<1>9. Walked(run[n], 0)
  <2>1. Walked(run[n], n - n) /\ n - n = 0
    BY <1>8 DEF P
  <2> QED
    BY <2>1
<1> QED
  BY <1>9, <1>r DEF s

(* The walk turned around: the k-th last one is the k-th entry.            *)
LEMMA DedupedFacts ==
  ASSUME TypeOK, NEW m \in Nat, m = Cardinality(LastOnes)
  PROVE  /\ ListDeduped \in Seq(Entries) /\ Len(ListDeduped) = m
         /\ \A i \in LastOnes :
               /\ Cardinality({j \in LastOnes : j <= i}) \in 1 .. m
               /\ ListDeduped[Cardinality({j \in LastOnes : j <= i})] = EntryOf(List[i])
         /\ \A y \in 1 .. m : \E i \in LastOnes : ListDeduped[y] = EntryOf(List[i])
         /\ \A y, z \in 1 .. m :
               ListDeduped[y].request.key = ListDeduped[z].request.key => y = z
<1>1. PICK q : q = FoldLeft(Kept, << >>, Reverse(List))
  OBVIOUS
<1>2. q \in Seq(Entries) /\ Walked(q, 0)
  BY <1>1, WalkKeepsLastOnes
<1>3. Len(List) \in Nat /\ LastOnes \in SUBSET (1 .. Len(List))
  BY Places
<1>4. \A i \in LastOnes : i \in Nat /\ i > 0
  BY <1>3
<1>5. After(0) = LastOnes
  BY <1>4 DEF After
<1>6. /\ Len(q) = m
      /\ \A i \in LastOnes : q[Cardinality(From(i))] = EntryOf(List[i])
      /\ \A y \in 1 .. m : \E i \in LastOnes : q[y] = EntryOf(List[i])
      /\ \A y, z \in 1 .. m : q[y].request.key = q[z].request.key => y = z
  BY <1>2, <1>5 DEF Walked
<1>7. PICK shown : shown = Reverse(q)
  OBVIOUS
<1>8. ListDeduped = shown
  BY <1>1, <1>7 DEF ListDeduped
<1>9. /\ shown \in Seq(Entries) /\ Len(shown) = m
      /\ \A y \in 1 .. m : shown[y] = q[m - y + 1] /\ m - y + 1 \in 1 .. m
  BY <1>2, <1>6, <1>7 DEF Reverse
<1>10. ASSUME NEW i \in LastOnes, NEW k, k = Cardinality({j \in LastOnes : j <= i})
       PROVE  k \in 1 .. m /\ shown[k] = EntryOf(List[i])
  <2> DEFINE Upto == {j \in LastOnes : j <= i}
  <2>1. PICK c : c = Cardinality(From(i))
    OBVIOUS
  <2>2. c \in 1 .. m
    <3>1. i \in After(0) /\ 0 \in Nat
      BY <1>5
    <3>2. Cardinality(From(i)) \in 1 .. Cardinality(After(0))
      BY <3>1, FromFacts
    <3> QED
      BY <1>5, <2>1, <3>2
  <2>3. Upto \union From(i) = LastOnes /\ Upto \cap From(i) = {i}
    <3>1. \A j \in LastOnes : /\ j <= i \/ j >= i
                              /\ j <= i /\ j >= i <=> j = i
      BY <1>4
    <3> QED
      BY <3>1 DEF From
  <2>4. IsFiniteSet(Upto) /\ IsFiniteSet(From(i)) /\ k \in Nat
    <3>1. Upto \in SUBSET (1 .. Len(List)) /\ From(i) \in SUBSET (1 .. Len(List))
      BY <1>3 DEF From
    <3> HIDE DEF Upto
    <3>2. IsFiniteSet(Upto) /\ IsFiniteSet(From(i)) /\ Cardinality(Upto) \in Nat
      BY <1>3, <3>1, PlacesAreFinite
    <3> QED
      BY <1>10, <3>2 DEF Upto
  <2>5. k + c = m + 1
    <3>1. k = Cardinality(Upto)
      BY <1>10
    <3> HIDE DEF Upto
    <3>2. Cardinality(Upto \union From(i)) = k + c - Cardinality(Upto \cap From(i))
      BY <2>1, <2>4, <3>1, FS_Union
    <3>3. Cardinality({i}) = 1
      BY FS_Singleton
    <3>4. m = k + c - 1
      BY <2>3, <3>2, <3>3
    <3> QED
      BY <2>2, <2>4, <3>4
  <2>6. k \in 1 .. m /\ m - k + 1 = c
    BY <2>2, <2>4, <2>5
  <2>7. shown[k] = q[c]
    BY <1>9, <2>6
  <2> QED
    BY <1>6, <2>1, <2>6, <2>7
<1>11. \A y \in 1 .. m : \E i \in LastOnes : shown[y] = EntryOf(List[i])
  BY <1>6, <1>9
<1>12. ASSUME NEW y \in 1 .. m, NEW z \in 1 .. m,
              shown[y].request.key = shown[z].request.key
       PROVE  y = z
  <2>1. PICK a \in 1 .. m : a = m - y + 1
    OBVIOUS
  <2>2. PICK b \in 1 .. m : b = m - z + 1
    OBVIOUS
  <2>3. shown[y] = q[a] /\ shown[z] = q[b]
    BY <1>9, <2>1, <2>2
  <2>4. a = b
    BY <1>6, <1>12, <2>3
  <2> QED
    BY <2>1, <2>2, <2>4
<1> QED
  BY <1>8, <1>9, <1>10, <1>11, <1>12

-----------------------------------------------------------------------------
(* Every request of the list is counted, by the one entry of its key.      *)
LEMMA TallyIsWhole ==
  ASSUME TypeOK
  PROVE  FoldLeft(LAMBDA sum, e : sum + e.count, 0, ListDeduped) = Len(List)
<1>1. PICK m \in Nat : m = Cardinality(LastOnes)
  <2>1. Len(List) \in Nat /\ LastOnes \in SUBSET (1 .. Len(List))
    BY Places
  <2>2. Cardinality(LastOnes) \in Nat
    BY <2>1, PlacesAreFinite
  <2> QED
    BY <2>2
<1>2. PICK shown : shown = ListDeduped
  OBVIOUS
<1>3. /\ shown \in Seq(Entries) /\ Len(shown) = m
      /\ \A i \in LastOnes : \E y \in 1 .. m : shown[y] = EntryOf(List[i])
      /\ \A y \in 1 .. m : \E i \in LastOnes : shown[y] = EntryOf(List[i])
      /\ \A y, z \in 1 .. m : shown[y].request.key = shown[z].request.key => y = z
  BY <1>1, <1>2, DedupedFacts
<1>4. /\ Len(List) \in Nat /\ LastOnes \in SUBSET (1 .. Len(List))
      /\ \A i \in 1 .. Len(List) : List[i] \in Captured
  BY Places
<1>5. \A i \in LastOnes : /\ EntryOf(List[i]).request.key = List[i].key
                          /\ EntryOf(List[i]).count = CountOf(List[i].key)
  BY <1>4, EntryFacts
<1> DEFINE N == Len(List)
           K(y) == shown[y].request.key
           Of(y) == {x \in 1 .. N : List[x].key = K(y)}
           Covered(k) == {x \in 1 .. N : \E y \in 1 .. k : List[x].key = K(y)}
<1>6. ASSUME NEW y \in 1 .. m
      PROVE  shown[y].count = Cardinality(Of(y)) /\ IsFiniteSet(Of(y))
  <2>1. PICK i \in LastOnes : shown[y] = EntryOf(List[i])
    BY <1>3
  <2>2. shown[y].count = CountOf(K(y))
    BY <1>5, <2>1
  <2>3. DOMAIN List = 1 .. N
    BY ListIsSeq
  <2>4. CountOf(K(y)) = Cardinality(Of(y))
    BY <2>3 DEF CountOf
  <2>5. Of(y) \in SUBSET (1 .. N)
    OBVIOUS
  <2> HIDE DEF Of
  <2>6. IsFiniteSet(Of(y))
    BY <1>4, <2>5, PlacesAreFinite
  <2> QED
    BY <2>2, <2>4, <2>6
<1>7. \A k \in 0 .. m : /\ Covered(k) \in SUBSET (1 .. N) /\ IsFiniteSet(Covered(k))
                        /\ Cardinality(Covered(k)) \in Nat
  <2> SUFFICES ASSUME NEW k \in 0 .. m
               PROVE  /\ Covered(k) \in SUBSET (1 .. N) /\ IsFiniteSet(Covered(k))
                      /\ Cardinality(Covered(k)) \in Nat
    OBVIOUS
  <2>1. Covered(k) \in SUBSET (1 .. N)
    OBVIOUS
  <2> HIDE DEF Covered
  <2> QED
    BY <1>4, <2>1, PlacesAreFinite
<1>8. ASSUME NEW k \in 1 .. m
      PROVE  Cardinality(Covered(k)) = Cardinality(Covered(k - 1)) + Cardinality(Of(k))
  <2>1. Covered(k) = Covered(k - 1) \union Of(k)
    <3>1. \A y \in 1 .. k : y \in 1 .. k - 1 \/ y = k
      OBVIOUS
    <3>2. 1 .. k - 1 \in SUBSET (1 .. k) /\ k \in 1 .. k
      OBVIOUS
    <3> HIDE DEF K
    <3> QED
      BY <3>1, <3>2
  <2>2. Covered(k - 1) \cap Of(k) = {}
    <3>1. \A y \in 1 .. k - 1 : y \in 1 .. m /\ y # k
      OBVIOUS
    <3>2. \A y \in 1 .. k - 1 : K(y) # K(k)
      BY <1>3, <3>1
    <3> HIDE DEF K
    <3> QED
      BY <3>2
  <2>3. /\ IsFiniteSet(Covered(k - 1)) /\ IsFiniteSet(Of(k))
        /\ Cardinality(Covered(k - 1)) \in Nat /\ Cardinality(Of(k)) \in Nat
    <3>1. k - 1 \in 0 .. m
      OBVIOUS
    <3> HIDE DEF Covered, Of
    <3> QED
      BY <1>6, <1>7, <3>1, FS_CardinalityType
  <2> HIDE DEF Covered, Of
  <2>4. Cardinality(Covered(k - 1) \cap Of(k)) = 0
    BY <2>2, FS_EmptySet
  <2>5. Cardinality(Covered(k - 1) \union Of(k))
            = Cardinality(Covered(k - 1)) + Cardinality(Of(k))
                  - Cardinality(Covered(k - 1) \cap Of(k))
    BY <2>3, FS_Union
  <2> QED
    BY <2>1, <2>3, <2>4, <2>5
<1>9. Covered(0) = {}
  OBVIOUS
<1>10. Covered(m) = 1 .. N
  <2>1. ASSUME NEW x \in 1 .. N PROVE \E y \in 1 .. m : List[x].key = K(y)
    <3>1. PICK i \in LastOnes : List[i].key = List[x].key
      BY LastOfKey
    <3>2. PICK y \in 1 .. m : shown[y] = EntryOf(List[i])
      BY <1>3
    <3> QED
      BY <1>5, <3>1, <3>2
  <2> QED
    BY <2>1
<1> HIDE DEF Covered, Of
<1>11. PICK n \in Nat : \E run :
           /\ n = Len(shown) /\ SumsUp(run, CountsAre(shown, n), n)
           /\ run[n] = FoldLeft(LAMBDA sum, e : sum + e.count, 0, shown)
  BY <1>3, TallySums DEF TallyIsSum
<1>r. PICK run : /\ SumsUp(run, CountsAre(shown, m), m)
                 /\ run[m] = FoldLeft(LAMBDA sum, e : sum + e.count, 0, shown)
  BY <1>3, <1>11
<1> DEFINE P == {k \in 0 .. m : run[k] = Cardinality(Covered(k))}
<1>12. 0 \in P
  <2>1. run[0] = 0
    BY <1>r DEF SumsUp
  <2>2. Cardinality(Covered(0)) = 0
    BY <1>9, FS_EmptySet
  <2> QED
    BY <2>1, <2>2
<1>13. ASSUME NEW k \in 1 .. m, k - 1 \in P PROVE k \in P
  <2>1. run[k] = run[k - 1] + shown[k].count
    BY <1>r DEF SumsUp, CountsAre
  <2> QED
    BY <1>6, <1>8, <1>13, <2>1
<1> HIDE DEF P
<1>14. \A k \in 0 .. m : k \in P
  BY <1>12, <1>13, Climb
<1>15. m \in P
  BY <1>14
<1>16. run[m] = Cardinality(Covered(m))
  BY <1>15 DEF P
<1>17. Cardinality(1 .. N) = N
  <2>1. PICK c \in Nat : c = Len(List)
    BY <1>4
  <2>2. Cardinality(1 .. c) = c
    BY FS_Interval
  <2> QED
    BY <2>1, <2>2
<1> QED
  BY <1>2, <1>10, <1>16, <1>17, <1>r

(* For any capacity and any requests: of the requests that share path and  *)
(* body the list without duplicates shows the last, in the order of        *)
(* capture, and counts every one of them once, wherever the ring has       *)
(* wrapped (ListDeduped).                                                  *)
THEOREM DedupCorrect == Spec => []DedupIsComplete
<1>1. TypeOK => DedupIsComplete
  <2> SUFFICES ASSUME TypeOK PROVE DedupIsComplete
    OBVIOUS
  <2>1. PICK m \in Nat : m = Cardinality(LastOnes)
    <3>1. Len(List) \in Nat /\ LastOnes \in SUBSET (1 .. Len(List))
      BY Places
    <3>2. Cardinality(LastOnes) \in Nat
      BY <3>1, PlacesAreFinite
    <3> QED
      BY <3>2
  <2>2. /\ Len(ListDeduped) = m
        /\ \A i \in LastOnes :
              ListDeduped[Cardinality({j \in LastOnes : j <= i})] = EntryOf(List[i])
    BY <2>1, DedupedFacts
  <2>3. \A i \in LastOnes : EntryOf(List[i]).request = List[i]
    BY DEF EntryOf
  <2>4. \A i \in LastOnes :
            ListDeduped[Cardinality({j \in LastOnes : j <= i})].request = List[i]
    BY <2>2, <2>3
  <2> QED
    BY <2>1, <2>2, <2>4, TallyIsWhole DEF DedupIsComplete
<1> QED
  BY <1>1, TypeCorrect, PTL
-----------------------------------------------------------------------------
(* The ring below the request threads, and the streams beside it.          *)
MissedType == missed \in [Threads -> Requests \union {Blank}]

(* Whatever the threads, the admins and the streams do, the ring takes a   *)
(* step of its own or none.                                                *)
LEMMA DashIsRing == DashSpec => Spec
<1>1. DashInit => Init /\ MissedType
  BY DEF DashInit, MissedType
<1>2. ASSUME MissedType, [DashNext]_dashVars PROVE [Next]_vars /\ MissedType'
  <2>1. CASE Hit \/ (StreamStep /\ UNCHANGED <<vars, missed>>)
    BY <1>2, <2>1 DEF Hit, MissedType
  <2>2. CASE ClearUnmatched
    BY <1>2, <2>2 DEF ClearUnmatched, Next, MissedType
  <2>3. ASSUME NEW t \in Threads, Miss(t) PROVE [Next]_vars /\ MissedType'
    BY <1>2, <2>3 DEF Miss, MissedType
  <2>4. ASSUME NEW t \in Threads, ListMissed(t) PROVE [Next]_vars /\ MissedType'
    <3>1. missed[t] \in Requests
      BY <1>2, <2>4 DEF ListMissed, MissedType
    <3>2. Next
      BY <2>4, <3>1 DEF ListMissed, Next
    <3>3. MissedType'
      BY <1>2, <2>4 DEF ListMissed, MissedType
    <3> QED
      BY <3>2, <3>3
  <2>5. CASE UNCHANGED dashVars
    BY <1>2, <2>5 DEF dashVars, MissedType
  <2> QED
    BY <1>2, <2>1, <2>2, <2>3, <2>4, <2>5 DEF DashNext
<1> QED
  BY <1>1, <1>2, PTL DEF DashSpec, Spec

(* Below any number of request threads, admins and streams, what is listed *)
(* of the unmatched requests is the log of them (Middleware.Execute).      *)
THEOREM DashboardImplementsLog == DashSpec => ImplementsLog
  BY DashIsRing, RingImplementsLog, PTL

(* And its list without duplicates is complete.                            *)
THEOREM DashboardDedups == DashSpec => []DedupIsComplete
  BY DashIsRing, DedupCorrect, PTL

(* A snapshot is of the past, a channel holds some in their order, and the *)
(* one shown is no newer.                                                  *)
StreamType == [open : BOOLEAN, channel : Seq(Nat), shown : Nat]

InOrder(st, last) ==
    /\ st.shown <= last
    /\ \A i \in DOMAIN st.channel : st.shown <= st.channel[i] /\ st.channel[i] <= last
    /\ \A i, j \in DOMAIN st.channel : i < j => st.channel[i] <= st.channel[j]

StreamInv ==
    /\ total \in Nat /\ broker.snapshot \in Nat /\ broker.snapshot <= total
    /\ broker \in [at : {"idle", "snapshot", "send"}, snapshot : Nat]
    /\ stream \in [Streams -> StreamType]
    /\ \A s \in Streams : /\ InOrder(stream[s], broker.snapshot)
                          /\ Len(stream[s].channel) <= Capacity

LEMMA StreamRecord ==
  ASSUME NEW B, NEW C, NEW S, NEW open \in B, NEW channel \in C, NEW shown \in S,
         NEW st, st = [open |-> open, channel |-> channel, shown |-> shown]
  PROVE  /\ st \in [open : B, channel : C, shown : S]
         /\ st.open = open /\ st.channel = channel /\ st.shown = shown
<1>1. st.open = open /\ st.channel = channel /\ st.shown = shown
  OBVIOUS
<1>2. st \in [open : B, channel : C, shown : S]
  OBVIOUS
<1> QED
  BY <1>1, <1>2

LEMMA StreamGoesOn ==
  ASSUME NEW st \in StreamType, NEW channel \in Seq(Nat), NEW shown \in Nat,
         NEW next, next = [open |-> st.open, channel |-> channel, shown |-> shown]
  PROVE  next \in StreamType /\ next.channel = channel /\ next.shown = shown
<1>1. st.open \in BOOLEAN
  BY DEF StreamType
<1> QED
  BY <1>1, StreamRecord DEF StreamType

LEMMA OpenedIsEmpty ==
  [Closed EXCEPT !.open = TRUE] = [open |-> TRUE, channel |-> << >>, shown |-> 0]
<1>1. PICK false : false = FALSE
  OBVIOUS
<1>2. PICK true : true = TRUE
  OBVIOUS
<1>3. PICK c : c = << >>
  OBVIOUS
<1>4. PICK st : st = Closed
  OBVIOUS
<1>5. st = [open |-> false, channel |-> c, shown |-> 0]
  BY <1>1, <1>3, <1>4 DEF Closed
<1>6. [st EXCEPT !.open = true] = [open |-> true, channel |-> c, shown |-> 0]
  BY <1>5
<1> QED
  BY <1>2, <1>3, <1>4, <1>6

LEMMA ClosedInOrder ==
  ASSUME NEW last \in Nat, NEW open \in BOOLEAN,
         NEW st, st = [open |-> open, channel |-> << >>, shown |-> 0]
  PROVE  st \in StreamType /\ InOrder(st, last) /\ Len(st.channel) <= Capacity
<1>1. PICK c \in Seq(Nat) : c = << >>
  BY EmptySeq
<1>2. st \in StreamType /\ st.channel = << >> /\ st.shown = 0
  <2>1. st = [open |-> open, channel |-> c, shown |-> 0]
    BY <1>1
  <2>2. st \in StreamType /\ st.channel = c /\ st.shown = 0
    BY <2>1, StreamRecord DEF StreamType
  <2> QED
    BY <1>1, <2>2
<1>3. DOMAIN st.channel = {} /\ Len(st.channel) = 0
  BY <1>2
<1>4. InOrder(st, last)
  BY <1>2, <1>3 DEF InOrder
<1> QED
  BY <1>2, <1>3, <1>4, StreamAssumption

(* What is taken for one stream is taken in order, what is put behind the  *)
(* rest is as new as the last snapshot.                                    *)
LEMMA ShownInOrder ==
  ASSUME NEW st \in StreamType, NEW last \in Nat, InOrder(st, last), st.channel # << >>,
         NEW next, next = [st EXCEPT !.channel = Tail(@), !.shown = Head(st.channel)]
  PROVE  /\ next \in StreamType /\ InOrder(next, last)
         /\ Len(next.channel) <= Len(st.channel) /\ st.shown <= next.shown
<1>1. PICK c \in Seq(Nat) : c = st.channel /\ c # << >>
  BY DEF StreamType
<1>2. PICK n \in Nat : n = Len(c) /\ n > 0 /\ DOMAIN c = 1 .. n
  BY <1>1, EmptySeq
<1>a. st.open \in BOOLEAN /\ st.shown \in Nat
  BY DEF StreamType
<1>b. st = [open |-> st.open, channel |-> st.channel, shown |-> st.shown]
  BY DEF StreamType
<1>3. next = [open |-> st.open, channel |-> Tail(c), shown |-> c[1]]
  <2>1. next = [st EXCEPT !.channel = Tail(c), !.shown = c[1]]
    BY <1>1
  <2> QED
    BY <1>b, <2>1
<1>4. /\ Tail(c) \in Seq(Nat) /\ Len(Tail(c)) = n - 1 /\ DOMAIN Tail(c) = 1 .. n - 1
      /\ \A i \in 1 .. n - 1 : Tail(c)[i] = c[i + 1] /\ i + 1 \in 1 .. n
  BY <1>1, <1>2
<1>5. 1 \in 1 .. n /\ \A i \in 1 .. n : c[i] \in Nat
  BY <1>2
<1>6. /\ \A i \in 1 .. n : st.shown <= c[i] /\ c[i] <= last
      /\ \A i, j \in 1 .. n : i < j => c[i] <= c[j]
  BY <1>1, <1>2 DEF InOrder
<1>7. next \in StreamType /\ next.channel = Tail(c) /\ next.shown = c[1]
  <2>1. PICK d \in Seq(Nat) : d = Tail(c)
    BY <1>4
  <2>2. PICK h \in Nat : h = c[1]
    BY <1>5, <1>2
  <2>3. PICK nx : nx = next
    OBVIOUS
  <2>4. nx = [open |-> st.open, channel |-> d, shown |-> h]
    BY <1>3, <2>1, <2>2, <2>3
  <2>5. nx \in StreamType /\ nx.channel = d /\ nx.shown = h
    BY <2>4, StreamGoesOn
  <2> QED
    BY <2>1, <2>2, <2>3, <2>5
<1>9. InOrder(next, last)
  <2>1. ASSUME NEW i \in 1 .. n - 1 PROVE c[1] <= Tail(c)[i] /\ Tail(c)[i] <= last
    <3>1. Tail(c)[i] = c[i + 1] /\ i + 1 \in 1 .. n /\ 1 < i + 1
      BY <1>4
    <3> QED
      BY <1>5, <1>6, <3>1
  <2>2. ASSUME NEW i \in 1 .. n - 1, NEW j \in 1 .. n - 1, i < j
        PROVE  Tail(c)[i] <= Tail(c)[j]
    <3>1. /\ Tail(c)[i] = c[i + 1] /\ i + 1 \in 1 .. n
          /\ Tail(c)[j] = c[j + 1] /\ j + 1 \in 1 .. n /\ i + 1 < j + 1
      BY <1>4, <2>2
    <3> QED
      BY <1>6, <3>1
  <2>3. c[1] <= last
    BY <1>5, <1>6
  <2> QED
    BY <1>4, <1>7, <2>1, <2>2, <2>3 DEF InOrder
<1>10. Len(next.channel) <= Len(st.channel)
  BY <1>1, <1>2, <1>4, <1>7
<1>11. st.shown <= next.shown
  BY <1>2, <1>5, <1>6, <1>7
<1> QED
  BY <1>7, <1>9, <1>10, <1>11

LEMMA SentInOrder ==
  ASSUME NEW st \in StreamType, NEW last \in Nat, InOrder(st, last),
         NEW next, next = [st EXCEPT !.channel = Append(@, last)]
  PROVE  /\ next \in StreamType /\ InOrder(next, last)
         /\ Len(next.channel) = Len(st.channel) + 1
         /\ next.shown = st.shown
<1>1. PICK c \in Seq(Nat) : c = st.channel
  BY DEF StreamType
<1>2. PICK n \in Nat : n = Len(c) /\ DOMAIN c = 1 .. n
  BY <1>1
<1>3. PICK d : d = Append(c, last)
  OBVIOUS
<1>4. /\ d \in Seq(Nat) /\ Len(d) = n + 1 /\ DOMAIN d = 1 .. n + 1 /\ d[n + 1] = last
      /\ \A i \in 1 .. n : d[i] = c[i]
  BY <1>2, <1>3, AppendProperties
<1>a. st.open \in BOOLEAN /\ st.shown \in Nat
  BY DEF StreamType
<1>b. st = [open |-> st.open, channel |-> st.channel, shown |-> st.shown]
  BY DEF StreamType
<1>5. next = [open |-> st.open, channel |-> d, shown |-> st.shown]
  <2>1. next = [st EXCEPT !.channel = d]
    BY <1>1, <1>3
  <2> QED
    BY <1>b, <2>1
<1>6. d \in Seq(Nat)
  BY <1>4
<1>7. next \in StreamType /\ next.channel = d /\ next.shown = st.shown
  <2>1. PICK nx : nx = next
    OBVIOUS
  <2>2. nx = [open |-> st.open, channel |-> d, shown |-> st.shown]
    BY <1>5, <2>1
  <2>3. nx \in StreamType /\ nx.channel = d /\ nx.shown = st.shown
    BY <1>a, <1>6, <2>2, StreamGoesOn
  <2> QED
    BY <2>1, <2>3
<1>8. /\ st.shown <= last
      /\ \A i \in 1 .. n : st.shown <= c[i] /\ c[i] <= last
      /\ \A i, j \in 1 .. n : i < j => c[i] <= c[j]
  BY <1>1, <1>2 DEF InOrder
<1>9. \A i \in 1 .. n + 1 : i \in 1 .. n \/ i = n + 1
  OBVIOUS
<1>10. ASSUME NEW i \in 1 .. n + 1 PROVE st.shown <= d[i] /\ d[i] <= last
  <2>1. CASE i \in 1 .. n
    BY <1>4, <1>8, <2>1
  <2>2. CASE i = n + 1
    BY <1>4, <1>8, <2>2
  <2> QED
    BY <1>9, <2>1, <2>2
<1>11. ASSUME NEW i \in 1 .. n + 1, NEW j \in 1 .. n + 1, i < j PROVE d[i] <= d[j]
  <2>1. i \in 1 .. n
    BY <1>11
  <2>2. CASE j \in 1 .. n
    BY <1>4, <1>8, <1>11, <2>1, <2>2
  <2>3. CASE j = n + 1
    BY <1>4, <1>8, <2>1, <2>3
  <2> QED
    BY <1>9, <2>2, <2>3
<1>12. InOrder(next, last)
  BY <1>4, <1>7, <1>8, <1>10, <1>11 DEF InOrder
<1> QED
  BY <1>1, <1>2, <1>4, <1>7, <1>12

(* A newer snapshot leaves a channel in order.                             *)
LEMMA StaysInOrder ==
  ASSUME NEW st \in StreamType, NEW last \in Nat, NEW newer \in Nat, last <= newer,
         InOrder(st, last)
  PROVE  InOrder(st, newer)
<1>1. PICK c \in Seq(Nat) : c = st.channel
  BY DEF StreamType
<1>2. st.shown \in Nat /\ \A i \in DOMAIN c : c[i] \in Nat
  BY DEF StreamType
<1> QED
  BY <1>1, <1>2 DEF InOrder

(* What a client sees never goes back while its stream is open.            *)
NoStreamGoesBack ==
    \A s \in Streams :
        stream[s].open /\ stream'[s].open => stream[s].shown <= stream'[s].shown

LEMMA StreamsStep == StreamInv /\ [DashNext]_dashVars => StreamInv' /\ NoStreamGoesBack
<1> SUFFICES ASSUME StreamInv, [DashNext]_dashVars PROVE StreamInv' /\ NoStreamGoesBack
  OBVIOUS
<1> DEFINE Good(s) == /\ stream'[s] \in StreamType
                      /\ InOrder(stream'[s], broker'.snapshot)
                      /\ Len(stream'[s].channel) <= Capacity
                      /\ stream[s].open /\ stream'[s].open => stream[s].shown <= stream'[s].shown
           Dated == /\ total' \in Nat /\ broker'.snapshot \in Nat /\ broker'.snapshot <= total'
                    /\ broker' \in [at : {"idle", "snapshot", "send"}, snapshot : Nat]
<1>1. /\ total \in Nat /\ broker.snapshot \in Nat /\ broker.snapshot <= total
      /\ broker \in [at : {"idle", "snapshot", "send"}, snapshot : Nat]
      /\ stream \in [Streams -> StreamType]
      /\ \A s \in Streams : /\ stream[s] \in StreamType /\ stream[s].shown \in Nat
                            /\ InOrder(stream[s], broker.snapshot)
                            /\ Len(stream[s].channel) <= Capacity
  BY DEF StreamInv, StreamType
<1>2. ASSUME Dated, stream' \in [Streams -> StreamType], \A s \in Streams : Good(s)
      PROVE  StreamInv' /\ NoStreamGoesBack
  BY <1>2 DEF StreamInv, NoStreamGoesBack
<1>3. ASSUME Dated, stream' = stream, broker.snapshot <= broker'.snapshot
      PROVE  StreamInv' /\ NoStreamGoesBack
  <2>1. ASSUME NEW s \in Streams PROVE Good(s)
    <3>1. InOrder(stream[s], broker'.snapshot)
      BY <1>1, <1>3, StaysInOrder
    <3> QED
      BY <1>1, <1>3, <3>1
  <2> QED
    BY <1>1, <1>2, <1>3, <2>1
<1>4. CASE UNCHANGED <<total, broker, stream>>
  BY <1>1, <1>3, <1>4
<1>5. CASE Count
  BY <1>1, <1>3, <1>5 DEF Count
<1>6. CASE Tick
  BY <1>1, <1>3, <1>6 DEF Tick
<1>7. CASE TakeSnapshot
  BY <1>1, <1>3, <1>7 DEF TakeSnapshot
<1>8. CASE Send
  <2>1. Dated /\ broker'.snapshot = broker.snapshot
    BY <1>1, <1>8 DEF Send
  <2>2. ASSUME NEW s \in Streams PROVE Good(s)
    <3>1. stream'[s] = IF stream[s].open /\ Len(stream[s].channel) < Capacity
                       THEN [stream[s] EXCEPT !.channel = Append(@, broker.snapshot)]
                       ELSE stream[s]
      BY <1>8 DEF Send
    <3>2. CASE stream[s].open /\ Len(stream[s].channel) < Capacity
      <4>1. PICK st \in StreamType :
                st = stream[s] /\ InOrder(st, broker.snapshot) /\ Len(st.channel) < Capacity
        BY <1>1, <3>2
      <4>2. PICK last \in Nat : last = broker.snapshot
        BY <1>1
      <4>3. stream'[s] = [st EXCEPT !.channel = Append(@, last)]
        BY <3>1, <3>2, <4>1, <4>2
      <4>4. /\ stream'[s] \in StreamType /\ InOrder(stream'[s], last)
            /\ Len(stream'[s].channel) = Len(st.channel) + 1
            /\ stream'[s].shown = st.shown
        BY <4>1, <4>2, <4>3, SentInOrder
      <4>5. Len(st.channel) \in Nat /\ Capacity \in Nat /\ st.shown \in Nat
        BY StreamAssumption DEF StreamType
      <4> QED
        BY <2>1, <4>1, <4>2, <4>4, <4>5
    <3>3. CASE ~(stream[s].open /\ Len(stream[s].channel) < Capacity)
      BY <1>1, <2>1, <3>1, <3>3
    <3> QED
      BY <3>2, <3>3
  <2>3. stream' \in [Streams -> StreamType]
    BY <1>8, <2>2 DEF Send
  <2> QED
    BY <1>2, <2>1, <2>2, <2>3
<1>9. ASSUME NEW u \in Streams, NEW st \in StreamType, UNCHANGED <<total, broker>>,
             stream' = [stream EXCEPT ![u] = st], InOrder(st, broker.snapshot),
             Len(st.channel) <= Capacity, stream[u].open /\ st.open => stream[u].shown <= st.shown
      PROVE  StreamInv' /\ NoStreamGoesBack
  <2>1. Dated /\ broker'.snapshot = broker.snapshot
    BY <1>1, <1>9
  <2>2. ASSUME NEW s \in Streams PROVE Good(s)
    <3>1. CASE s = u
      <4>1. stream'[s] = st
        BY <1>1, <1>9, <3>1
      <4> QED
        BY <1>9, <2>1, <3>1, <4>1
    <3>2. CASE s # u
      <4>1. stream'[s] = stream[s]
        BY <1>1, <1>9, <3>2
      <4> QED
        BY <1>1, <2>1, <4>1
    <3> QED
      BY <3>1, <3>2
  <2>3. stream' \in [Streams -> StreamType]
    BY <1>1, <1>9
  <2> QED
    BY <1>2, <2>1, <2>2, <2>3
<1>10. ASSUME NEW u \in Streams, Subscribe(u) PROVE StreamInv' /\ NoStreamGoesBack
  <2>1. PICK st \in StreamType : /\ st = [Closed EXCEPT !.open = TRUE]
                                 /\ InOrder(st, broker.snapshot) /\ Len(st.channel) <= Capacity
    BY <1>1, OpenedIsEmpty, ClosedInOrder
  <2> QED
    BY <1>9, <1>10, <2>1 DEF Subscribe
<1>11. ASSUME NEW u \in Streams, Unsubscribe(u) PROVE StreamInv' /\ NoStreamGoesBack
  <2>1. /\ Closed = [open |-> FALSE, channel |-> << >>, shown |-> 0]
        /\ Closed.open = FALSE
    BY DEF Closed
  <2>2. PICK st \in StreamType : /\ st = Closed /\ st.open = FALSE
                                 /\ InOrder(st, broker.snapshot) /\ Len(st.channel) <= Capacity
    BY <1>1, <2>1, ClosedInOrder
  <2> QED
    BY <1>9, <1>11, <2>2 DEF Unsubscribe
<1>12. ASSUME NEW u \in Streams, Show(u) PROVE StreamInv' /\ NoStreamGoesBack
  <2>1. PICK old \in StreamType : /\ old = stream[u] /\ InOrder(old, broker.snapshot)
                                  /\ Len(old.channel) <= Capacity /\ old.channel # << >>
    BY <1>1, <1>12 DEF Show
  <2>2. PICK st \in StreamType :
            /\ st = [old EXCEPT !.channel = Tail(@), !.shown = Head(old.channel)]
            /\ InOrder(st, broker.snapshot) /\ Len(st.channel) <= Len(old.channel)
            /\ old.shown <= st.shown
    BY <1>1, <2>1, ShownInOrder
  <2>3. Len(st.channel) <= Capacity
    <3>1. Len(st.channel) \in Nat /\ Len(old.channel) \in Nat /\ Capacity \in Nat
      BY StreamAssumption DEF StreamType
    <3> QED
      BY <2>1, <2>2, <3>1
  <2>4. stream' = [stream EXCEPT ![u] = st]
    <3>1. /\ stream' = [stream EXCEPT ![u].channel = Tail(@),
                                      ![u].shown = Head(stream[u].channel)]
          /\ UNCHANGED <<total, broker>>
      BY <1>12 DEF Show
    <3>2. st = [stream[u] EXCEPT !.channel = Tail(@), !.shown = Head(stream[u].channel)]
      BY <2>1, <2>2
    <3>3. stream' = [stream EXCEPT ![u] = [stream[u] EXCEPT !.channel = Tail(@),
                                                    !.shown = Head(stream[u].channel)]]
      BY <1>1, <3>1 DEF StreamType
    <3> QED
      BY <3>2, <3>3
  <2> QED
    BY <1>9, <1>12, <2>1, <2>2, <2>3, <2>4 DEF Show
<1> HIDE DEF Good, Dated
<1>13. CASE StreamStep
  BY <1>6, <1>7, <1>8, <1>10, <1>11, <1>12, <1>13 DEF StreamStep
<1>14. CASE Hit \/ ClearUnmatched \/ \E t \in Threads : Miss(t) \/ ListMissed(t)
  BY <1>4, <1>5, <1>14 DEF Hit, ClearUnmatched, Miss, ListMissed, streamVars
<1>15. CASE UNCHANGED dashVars
  BY <1>4, <1>15 DEF dashVars, streamVars
<1> QED
  BY <1>13, <1>14, <1>15 DEF DashNext

(* For any number of streams, channels of any capacity and any delay, a    *)
(* stream that stays open shows a total that is no more than the requests  *)
(* counted, and never a smaller one than before (Broker.Start,             *)
(* metricsStream).                                                         *)
THEOREM StreamsGoForward ==
  DashSpec => /\ [](\A s \in Streams : stream[s].shown <= total)
              /\ [][NoStreamGoesBack]_dashVars
<1>1. DashInit => StreamInv
  <2> SUFFICES ASSUME DashInit PROVE StreamInv
    OBVIOUS
  <2>1. Closed = [open |-> FALSE, channel |-> << >>, shown |-> 0]
    BY DEF Closed
  <2>2. Closed \in StreamType /\ InOrder(Closed, 0) /\ Len(Closed.channel) <= Capacity
    BY <2>1, ClosedInOrder
  <2> QED
    BY <2>2 DEF DashInit, StreamInit, StreamInv
<1>2. StreamInv => \A s \in Streams : stream[s].shown <= total
  <2> SUFFICES ASSUME StreamInv, NEW s \in Streams PROVE stream[s].shown <= total
    OBVIOUS
  <2>1. /\ stream[s].shown \in Nat /\ stream[s].shown <= broker.snapshot
        /\ broker.snapshot \in Nat /\ broker.snapshot <= total /\ total \in Nat
    BY DEF StreamInv, InOrder, StreamType
  <2> QED
    BY <2>1
<1> QED
  BY <1>1, <1>2, StreamsStep, PTL DEF DashSpec
=============================================================================
