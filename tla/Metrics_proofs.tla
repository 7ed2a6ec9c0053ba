--------------------------- MODULE Metrics_proofs ---------------------------
(***************************************************************************)
(* Proofs about Metrics, for any number of threads, rules, places, hits    *)
(* and minutes: a ring spends no more places than its minutes and twice    *)
(* its late stamps, what it shows is what it was given, and a snapshot     *)
(* reports the percentiles and the rate of what was recorded latest.       *)
(***************************************************************************)
EXTENDS Metrics, FoldLemmas

-----------------------------------------------------------------------------
Place == [ts : Int, count : Nat]

RingType ==
    [slots : [0 .. Slots - 1 -> Place], current : 0 .. Slots - 1, filled : BOOLEAN]

LogType ==
    [given : [0 .. MaxMinutes -> Nat], opened : Nat, minutes : Nat, late : Nat, top : Int]

(* A thread that is in its rings has one left.                             *)
ThreadType ==
    {t \in [at : {"idle", "stamp", "rings"}, rings : Seq(Rings), stamp : 0 .. MaxMinutes] :
        t.at # "idle" => t.rings # << >>}

(* The shape of the clock, the threads, the rings and their history.       *)
RingsTyped ==
    /\ minute \in 0 .. MaxMinutes
    /\ thread \in [Threads -> ThreadType]
    /\ ring \in [Rings -> RingType]
    /\ log \in [Rings -> LogType]

(* The latest place opened is not of a minute newer than any seen, so that *)
(* a stamp which opens one is late, is new, or brings the newest minute    *)
(* back and settles the place its late predecessor owed.                   *)
Latest(h, g) ==
    /\ h.filled => h.slots[h.current].ts <= g.top
    /\ ~h.filled => g.top = NoMinute

Owed(h, g) == IF h.filled /\ h.slots[h.current].ts < g.top THEN 1 ELSE 0

Frugal(h, g) == g.opened + Owed(h, g) <= g.minutes + 2 * g.late

PlacesInv == \A k \in Rings : Latest(ring[k], log[k]) /\ Frugal(ring[k], log[k])

IInv == RingsTyped /\ PlacesInv

-----------------------------------------------------------------------------
(* What the recording of one stamp does to a ring and its history.         *)
LEMMA RecordTypes ==
  ASSUME NEW h \in RingType, NEW g \in LogType, NEW opens \in BOOLEAN,
         NEW ts \in 0 .. MaxMinutes
  PROVE  /\ RingAfter(h, opens, ts) \in RingType
         /\ LogAfter(g, opens, ts) \in LogType
<1>1. RingAfter(h, opens, ts) \in RingType
  <2> DEFINE i == IF h.filled THEN (h.current + 1) % Slots ELSE h.current
  <2>1. i \in 0 .. Slots - 1
    BY MetricsAssumption DEF RingType
  <2>2. CASE ~opens
    <3>1. h.slots \in [0 .. Slots - 1 -> Place] /\ h.current \in 0 .. Slots - 1
      BY DEF RingType
    <3>2. [h.slots[h.current] EXCEPT !.count = @ + 1] \in Place
      <4>1. PICK p \in Place : p = h.slots[h.current]
        BY <3>1
      <4>2. p.count + 1 \in Nat /\ p.ts \in Int
        BY DEF Place
      <4>3. [p EXCEPT !.count = @ + 1] = [ts |-> p.ts, count |-> p.count + 1]
        BY DEF Place
      <4> QED
        BY <4>1, <4>2, <4>3 DEF Place
    <3>3. Bumped(h.slots, h.current) \in [0 .. Slots - 1 -> Place]
      BY <3>1, <3>2 DEF Bumped
    <3>4. RingAfter(h, opens, ts) = [h EXCEPT !.slots = Bumped(@, h.current)]
      BY <2>2 DEF RingAfter
    <3> QED
      BY <3>3, <3>4 DEF RingType
  <2>3. CASE opens
    <3>1. [h.slots EXCEPT ![i] = [ts |-> ts, count |-> 1]] \in [0 .. Slots - 1 -> Place]
      BY <2>1, MetricsAssumption DEF RingType, Place
    <3> QED
      BY <2>1, <2>3, <3>1 DEF RingAfter, RingType
  <2> QED
    BY <2>2, <2>3
<1>2. LogAfter(g, opens, ts) \in LogType
  <2>1. g.given[ts] \in Nat
    BY DEF LogType
  <2>2. [g.given EXCEPT ![ts] = @ + 1] \in [0 .. MaxMinutes -> Nat]
    BY <2>1 DEF LogType
  <2>3. /\ {g.opened, g.minutes, g.late} \subseteq Nat
        /\ g.top \in Int /\ ts \in Int
    BY MetricsAssumption DEF LogType
  <2>4. /\ g.opened + (IF opens THEN 1 ELSE 0) \in Nat
        /\ g.minutes + (IF ts > g.top THEN 1 ELSE 0) \in Nat
        /\ g.late + (IF ts < g.top THEN 1 ELSE 0) \in Nat
        /\ (IF ts > g.top THEN ts ELSE g.top) \in Int
    BY <2>3
  <2> QED
    BY <2>2, <2>4 DEF LogAfter, LogType
<1> QED
  BY <1>1, <1>2

LEMMA RecordKeeps ==
  ASSUME NEW h \in RingType, NEW g \in LogType, NEW ts \in 0 .. MaxMinutes,
         Latest(h, g), Frugal(h, g), NEW opens \in BOOLEAN,
         opens <=> ~h.filled \/ h.slots[h.current].ts # ts
  PROVE  /\ Latest(RingAfter(h, opens, ts), LogAfter(g, opens, ts))
         /\ Frugal(RingAfter(h, opens, ts), LogAfter(g, opens, ts))
<1> DEFINE after == RingAfter(h, opens, ts)
           cur == h.slots[h.current].ts
<1>1. cur \in Int /\ ts \in Nat
  BY MetricsAssumption DEF RingType, Place
<1>2. after.filled /\ after.slots[after.current].ts = ts
  <2>1. CASE ~opens
    BY <2>1 DEF RingAfter, Bumped, RingType, Place
  <2>2. CASE opens
    <3> DEFINE i == IF h.filled THEN (h.current + 1) % Slots ELSE h.current
    <3>1. i \in 0 .. Slots - 1
      BY MetricsAssumption DEF RingType
    <3> QED
      BY <2>2, <3>1 DEF RingAfter, RingType
  <2> QED
    BY <2>1, <2>2
<1>3. /\ {g.opened, g.minutes, g.late} \subseteq Nat
      /\ g.top \in Int
  BY DEF LogType
<1> HIDE DEF after
<1>4. Owed(after, LogAfter(g, opens, ts)) = IF ts < g.top THEN 1 ELSE 0
  BY <1>1, <1>2, <1>3 DEF Owed, LogAfter
<1>5. Latest(after, LogAfter(g, opens, ts))
  BY <1>1, <1>2, <1>3 DEF Latest, LogAfter
<1>6. Owed(h, g) \in {0, 1} /\ (opens /\ ts = g.top => Owed(h, g) = 1)
  BY <1>1, <1>3 DEF Owed, Latest, NoMinute
<1>7. opens \/ ts <= g.top
  BY <1>1, <1>3 DEF Latest
<1>8. Frugal(after, LogAfter(g, opens, ts))
  <2>1. /\ LogAfter(g, opens, ts).opened = g.opened + (IF opens THEN 1 ELSE 0)
        /\ LogAfter(g, opens, ts).minutes = g.minutes + (IF ts > g.top THEN 1 ELSE 0)
        /\ LogAfter(g, opens, ts).late = g.late + (IF ts < g.top THEN 1 ELSE 0)
    BY DEF LogAfter
  <2>2. g.opened + Owed(h, g) <= g.minutes + 2 * g.late
    BY DEF Frugal
  <2> QED
    BY <1>1, <1>3, <1>4, <1>6, <1>7, <2>1, <2>2 DEF Frugal
<1> QED
  BY <1>5, <1>8 DEF after

-----------------------------------------------------------------------------
LEMMA InvInit == Init => IInv
<1> SUFFICES ASSUME Init PROVE IInv
  OBVIOUS
<1> USE MetricsAssumption DEF Init
<1>1. minute \in 0 .. MaxMinutes
  OBVIOUS
<1>2. thread \in [Threads -> ThreadType]
  BY DEF ThreadType
<1>3. ring \in [Rings -> RingType]
  BY DEF RingType, Place, NoMinute
<1>4. log \in [Rings -> LogType]
  BY DEF LogType, NoMinute
<1>5. PlacesInv
  BY DEF PlacesInv, Latest, Frugal, Owed, NoMinute
<1> QED
  BY <1>1, <1>2, <1>3, <1>4, <1>5 DEF IInv, RingsTyped

LEMMA InvStep == IInv /\ [Next]_vars => IInv'
<1> SUFFICES ASSUME IInv, [Next]_vars PROVE IInv'
  OBVIOUS
<1> USE DEF IInv, RingsTyped
<1>1. ASSUME NEW t \in Threads, NEW rings, rings \in Seq(Rings) \ {<< >>}, Counted(t, rings)
      PROVE  IInv'
  <2>1. [at |-> "stamp", rings |-> rings, stamp |-> 0] \in ThreadType
    BY <1>1, MetricsAssumption DEF ThreadType
  <2>2. thread' \in [Threads -> ThreadType]
    BY <1>1, <2>1 DEF Counted
  <2> QED
    BY <1>1, <2>2 DEF Counted, ringVars, PlacesInv
<1>2. ASSUME NEW t \in Threads, CountHit(t) PROVE IInv'
  <2>1. PICK r \in Rules : Counted(t, <<Overall, r>>)
    BY <1>2 DEF CountHit
  <2>2. <<Overall, r>> \in Seq(Rings) \ {<< >>}
    BY DEF Rings
  <2> QED
    BY <1>1, <2>1, <2>2
<1>3. ASSUME NEW t \in Threads, CountMiss(t) PROVE IInv'
  <2>1. <<Overall>> \in Seq(Rings) \ {<< >>}
    BY DEF Rings
  <2> QED
    BY <1>1, <1>3, <2>1 DEF CountMiss
<1>4. ASSUME NEW t \in Threads, Stamp(t) PROVE IInv'
  <2>1. thread' \in [Threads -> ThreadType]
    BY <1>4 DEF Stamp, ThreadType
  <2> QED
    BY <1>4, <2>1 DEF Stamp, ringVars, PlacesInv
<1>5. ASSUME NEW t \in Threads, RecordMinute(t) PROVE IInv'
  <2> DEFINE k == Head(thread[t].rings)
             rest == Tail(thread[t].rings)
             ts == thread[t].stamp
  <2>1. thread[t] \in ThreadType /\ thread[t].rings # << >>
    BY <1>5 DEF RecordMinute, ThreadType
  <2>2. k \in Rings /\ rest \in Seq(Rings) /\ ts \in 0 .. MaxMinutes
    BY <2>1 DEF ThreadType
  <2> HIDE DEF k, ts
  <2>3. thread' \in [Threads -> ThreadType]
    <3>1. thread' = [thread EXCEPT ![t].rings = rest,
                                   ![t].at = IF rest = << >> THEN "idle" ELSE "rings"]
      BY <1>5 DEF RecordMinute
    <3> HIDE DEF rest
    <3> QED
      BY <2>1, <2>2, <3>1 DEF ThreadType
  <2>4. /\ ring' = [ring EXCEPT ![k] = RingAfter(@, Opens(k, ts), ts)]
        /\ log' = [log EXCEPT ![k] = LogAfter(@, Opens(k, ts), ts)]
        /\ minute' = minute
    BY <1>5 DEF RecordMinute, k, ts
  <2>5. ring[k] \in RingType /\ log[k] \in LogType
    BY <2>2
  <2>6. /\ Opens(k, ts) \in BOOLEAN
        /\ Opens(k, ts) <=> ~ring[k].filled \/ ring[k].slots[ring[k].current].ts # ts
    BY DEF Opens, Cur
  <2> HIDE DEF rest
  <2>7. ring' \in [Rings -> RingType] /\ log' \in [Rings -> LogType]
    BY <2>2, <2>4, <2>5, <2>6, RecordTypes
  <2>8. PlacesInv'
    <3>1. Latest(ring[k], log[k]) /\ Frugal(ring[k], log[k])
      BY <2>2 DEF PlacesInv
    <3>2. Latest(ring'[k], log'[k]) /\ Frugal(ring'[k], log'[k])
      BY <2>2, <2>4, <2>5, <2>6, <3>1, RecordKeeps
    <3>3. \A j \in Rings \ {k} : ring'[j] = ring[j] /\ log'[j] = log[j]
      BY <2>4
    <3> QED
      BY <3>2, <3>3 DEF PlacesInv
  <2> QED
    BY <2>3, <2>4, <2>7, <2>8
<1>6. CASE MinutePasses
  BY <1>6, MetricsAssumption DEF MinutePasses, ringVars, PlacesInv
<1>7. CASE UNCHANGED vars
  BY <1>7 DEF vars, ringVars, PlacesInv
<1> QED
  BY <1>2, <1>3, <1>4, <1>5, <1>6, <1>7 DEF Next

-----------------------------------------------------------------------------
(* The clock, the threads, the rings and their history keep their shape:   *)
(* an index of a ring is one of its places (histRing.record).              *)
THEOREM TypeCorrect == Spec => []RingsTyped
<1>1. IInv => RingsTyped
  BY DEF IInv
<1> QED
  BY <1>1, InvInit, InvStep, PTL DEF Spec

(* For any number of threads and whatever stamps come late, a ring opens   *)
(* no more places than there are minutes and twice as many late stamps.    *)
THEOREM PlacesBounded == Spec => []PlacesAreBounded
<1>1. IInv => PlacesAreBounded
  BY DEF IInv, PlacesInv, Frugal, Owed, PlacesAreBounded, Cur
<1> QED
  BY <1>1, InvInit, InvStep, PTL DEF Spec

-----------------------------------------------------------------------------
(* The history.  A place of the ring is as old as the places opened after  *)
(* it; what was spent on newer minutes and late stamps pays for them, and  *)
(* a place that is used again is as old as the ring is long.               *)
Newer(g, m) == {n \in m + 1 .. MaxMinutes : g.given[n] > 0}
Spent(g, m) == Cardinality(Newer(g, m)) + 2 * g.late

Age(h, i) == IF i <= h.current THEN h.current - i ELSE h.current - i + Slots

Paid(h, g) ==
    \A i \in 0 .. Slots - 1 :
        h.slots[i].ts # NoMinute =>
            /\ h.slots[i].ts \in 0 .. MaxMinutes /\ h.slots[i].ts <= g.top /\ h.filled
            /\ Age(h, i) + Owed(h, g) <= Spent(g, h.slots[i].ts)

(* No minute was met that is newer than the newest.                        *)
Met(g) == \A m \in 0 .. MaxMinutes : g.given[m] > 0 => m <= g.top

(* The counts of the minute m, place by place from 1.                      *)
Counts(h, m) ==
    [i \in 1 .. Slots |-> IF h.slots[i - 1].ts = m THEN h.slots[i - 1].count ELSE 0]

Held(h, g) ==
    \A m \in 0 .. MaxMinutes : \A sum :
        SumsUp(sum, Counts(h, m), Slots) =>
            /\ sum[Slots] <= g.given[m]
            /\ Spent(g, m) < Slots => sum[Slots] = g.given[m]

HistoryInv ==
    \A k \in Rings : Paid(ring[k], log[k]) /\ Met(log[k]) /\ Held(ring[k], log[k])

-----------------------------------------------------------------------------
(* What Shown adds up is the sum of the counts.                            *)
LEMMA ShownSumsUp ==
  ASSUME NEW k \in Rings, ring[k] \in RingType, NEW m
  PROVE  \E sum : SumsUp(sum, Counts(ring[k], m), Slots) /\ Shown(k, m) = sum[Slots]
<1> DEFINE w == Counts(ring[k], m)
           IsCount(s) == s = [i \in 0 .. Slots |->
                              IF i = 0 THEN 0
                              ELSE s[i - 1] + (IF ring[k].slots[i - 1].ts = m
                                               THEN ring[k].slots[i - 1].count ELSE 0)]
           c == CHOOSE s : IsCount(s)
<1>1. Shown(k, m) = c[Slots]
  BY DEF Shown
<1>2. Slots \in Nat
  BY MetricsAssumption
<1>3. \A i \in 1 .. Slots :
          /\ w[i] = IF ring[k].slots[i - 1].ts = m THEN ring[k].slots[i - 1].count ELSE 0
          /\ w[i] \in Nat
  BY <1>2 DEF Counts, RingType, Place
<1> HIDE DEF w
<1>4. PICK sum : SumsUp(sum, w, Slots)
  BY <1>2, <1>3, SumExists
<1>5. /\ sum = [i \in 0 .. Slots |-> sum[i]]
      /\ sum[0] = 0 /\ \A i \in 1 .. Slots : sum[i] = sum[i - 1] + w[i]
  BY <1>4 DEF SumsUp
<1>6. IsCount(sum)
  <2>1. ASSUME NEW i \in 0 .. Slots
        PROVE  sum[i] = IF i = 0 THEN 0
                        ELSE sum[i - 1] + (IF ring[k].slots[i - 1].ts = m
                                           THEN ring[k].slots[i - 1].count ELSE 0)
    <3>1. i = 0 \/ i \in 1 .. Slots
      BY <1>2
    <3> QED
      BY <1>3, <1>5, <3>1
  <2> QED
    BY <1>5, <2>1
<1>7. IsCount(c)
  <2> HIDE DEF IsCount
  <2> QED
    BY <1>6
<1>8. c = [i \in 0 .. Slots |-> c[i]] /\ c[0] = 0 /\ \A i \in 1 .. Slots : c[i] = c[i - 1] + w[i]
  <2>1. DOMAIN c = 0 .. Slots /\ c = [i \in 0 .. Slots |-> c[i]]
    BY <1>7
  <2>2. \A i \in 0 .. Slots :
            c[i] = IF i = 0 THEN 0
                   ELSE c[i - 1] + (IF ring[k].slots[i - 1].ts = m
                                    THEN ring[k].slots[i - 1].count ELSE 0)
    BY <1>7
  <2>3. 0 \in 0 .. Slots /\ \A i \in 1 .. Slots : i \in 0 .. Slots /\ i # 0
    BY <1>2
  <2> QED
    BY <1>3, <2>1, <2>2, <2>3
<1> HIDE DEF IsCount, c
<1> DEFINE P == {i \in 0 .. Slots : c[i] \in Nat}
<1>9. 0 \in P
  BY <1>2, <1>8
<1>10. ASSUME NEW i \in 1 .. Slots, i - 1 \in P PROVE i \in P
  <2>1. w[i] \in Nat /\ c[i - 1] \in Nat /\ c[i] = c[i - 1] + w[i]
    BY <1>3, <1>8, <1>10
  <2> QED
    BY <2>1
<1> HIDE DEF P
<1>11. \A i \in 0 .. Slots : i \in P
  BY <1>2, <1>9, <1>10, Climb
<1>12. \A i \in 0 .. Slots : c[i] \in Nat
  BY <1>11 DEF P
<1>13. SumsUp(c, w, Slots)
  BY <1>8, <1>12 DEF SumsUp
<1> QED
  BY <1>1, <1>13 DEF w

-----------------------------------------------------------------------------
(* What the recording of one stamp does to the history of a ring.          *)
LEMMA NextPlace ==
  ASSUME NEW c \in 0 .. Slots - 1
  PROVE  (c + 1) % Slots = IF c + 1 = Slots THEN 0 ELSE c + 1
BY MetricsAssumption

(* The place that is written.                                              *)
Written(h, opens) == IF opens /\ h.filled THEN (h.current + 1) % Slots ELSE h.current

LEMMA PlaceWritten ==
  ASSUME NEW h \in RingType, NEW opens \in BOOLEAN, NEW ts \in 0 .. MaxMinutes
  PROVE  LET after == RingAfter(h, opens, ts)
             p == Written(h, opens)
         IN  /\ p \in 0 .. Slots - 1 /\ after.current = p
             /\ \A i \in 0 .. Slots - 1 : i # p => after.slots[i] = h.slots[i]
             /\ after.slots[p].ts = IF opens THEN ts ELSE h.slots[p].ts
             /\ after.slots[p].count = IF opens THEN 1 ELSE h.slots[p].count + 1
             /\ after.filled <=> opens \/ h.filled
<1> DEFINE i == IF h.filled THEN (h.current + 1) % Slots ELSE h.current
<1>1. i \in 0 .. Slots - 1 /\ h.current \in 0 .. Slots - 1
  BY MetricsAssumption DEF RingType
<1>2. CASE ~opens
  BY <1>1, <1>2 DEF RingAfter, Bumped, RingType, Place, Written
<1>3. CASE opens
  BY <1>1, <1>3 DEF RingAfter, RingType, Place, Written
<1> QED
  BY <1>2, <1>3

(* What is spent on a minute stays spent; a late stamp spends two, and a   *)
(* minute newer than all before spends one.                                *)
LEMMA SpentAfter ==
  ASSUME NEW g \in LogType, NEW opens \in BOOLEAN, NEW ts \in 0 .. MaxMinutes,
         NEW m \in 0 .. MaxMinutes
  PROVE  LET after == LogAfter(g, opens, ts)
         IN  /\ Spent(g, m) \in Nat /\ Spent(after, m) \in Nat
             /\ Spent(g, m) + (IF ts < g.top THEN 2 ELSE 0) <= Spent(after, m)
             /\ Met(g) /\ ts > g.top /\ m <= g.top => Spent(g, m) + 1 <= Spent(after, m)
<1> DEFINE after == LogAfter(g, opens, ts)
<1>1. /\ g.given \in [0 .. MaxMinutes -> Nat] /\ g.late \in Nat /\ g.top \in Int
      /\ ts \in Nat /\ m \in Nat /\ MaxMinutes \in Nat
  BY MetricsAssumption DEF LogType
<1>2. /\ after.given = [g.given EXCEPT ![ts] = @ + 1]
      /\ after.late = g.late + (IF ts < g.top THEN 1 ELSE 0)
  BY DEF LogAfter
<1> HIDE DEF after
<1>3. IsFiniteSet(m + 1 .. MaxMinutes)
  BY <1>1, FS_Interval
<1>4. IsFiniteSet(Newer(g, m)) /\ IsFiniteSet(Newer(after, m))
  <2>1. Newer(g, m) \in SUBSET (m + 1 .. MaxMinutes) /\ Newer(after, m) \in SUBSET (m + 1 .. MaxMinutes)
    BY DEF Newer
  <2> QED
    BY <1>3, <2>1, FS_Subset
<1>5. /\ Cardinality(Newer(g, m)) \in Nat /\ Cardinality(Newer(after, m)) \in Nat
  BY <1>4, FS_CardinalityType
<1>6. \A n \in m + 1 .. MaxMinutes : after.given[n] = IF n = ts THEN g.given[n] + 1 ELSE g.given[n]
  <2> SUFFICES ASSUME NEW n \in m + 1 .. MaxMinutes
               PROVE  after.given[n] = IF n = ts THEN g.given[n] + 1 ELSE g.given[n]
    OBVIOUS
  <2>1. n \in 0 .. MaxMinutes
    BY <1>1
  <2> QED
    BY <1>1, <1>2, <2>1
<1>7. Newer(g, m) \in SUBSET Newer(after, m)
  <2> SUFFICES ASSUME NEW n \in m + 1 .. MaxMinutes, g.given[n] > 0 PROVE after.given[n] > 0
    BY DEF Newer
  <2>1. g.given[n] \in Nat
    BY <1>1
  <2> QED
    BY <1>6, <2>1
<1>8. Cardinality(Newer(g, m)) <= Cardinality(Newer(after, m))
  BY <1>4, <1>7, FS_Subset
<1>9. ASSUME Met(g), ts > g.top, m <= g.top
      PROVE  Cardinality(Newer(g, m)) + 1 <= Cardinality(Newer(after, m))
  <2>1. ts \in m + 1 .. MaxMinutes
    BY <1>1, <1>9
  <2>2. ts \notin Newer(g, m)
    BY <1>1, <1>9 DEF Newer, Met
  <2>3. ts \in Newer(after, m)
    BY <1>1, <1>6, <2>1 DEF Newer
  <2>4. /\ IsFiniteSet(Newer(g, m) \cup {ts})
        /\ Cardinality(Newer(g, m) \cup {ts}) = Cardinality(Newer(g, m)) + 1
    BY <1>4, <2>2, FS_AddElement
  <2>5. Newer(g, m) \cup {ts} \in SUBSET Newer(after, m)
    BY <1>7, <2>3
  <2>6. Cardinality(Newer(g, m) \cup {ts}) <= Cardinality(Newer(after, m))
    BY <1>4, <2>5, FS_Subset
  <2> QED
    BY <2>4, <2>6
<1>10. Spent(g, m) \in Nat /\ Spent(after, m) \in Nat
  <2>1. 2 * g.late \in Nat /\ after.late \in Nat /\ 2 * after.late \in Nat
    BY <1>1, <1>2
  <2> QED
    BY <1>5, <2>1 DEF Spent
<1>11. Spent(g, m) + (IF ts < g.top THEN 2 ELSE 0) <= Spent(after, m)
  BY <1>1, <1>2, <1>5, <1>8 DEF Spent
<1>12. ASSUME Met(g), ts > g.top, m <= g.top PROVE Spent(g, m) + 1 <= Spent(after, m)
  <2>1. Cardinality(Newer(g, m)) + 1 <= Cardinality(Newer(after, m))
    BY <1>9, <1>12
  <2> QED
    BY <1>1, <1>2, <1>5, <1>12, <2>1 DEF Spent
<1> QED
  BY <1>10, <1>11, <1>12 DEF after

(* A stamp that opens a place pays for it on behalf of every older one:    *)
(* with its minute, with its being late, or with the place that was owed.  *)
LEMMA AgePaid ==
  ASSUME NEW h \in RingType, NEW g \in LogType, NEW ts \in 0 .. MaxMinutes,
         Latest(h, g), Met(g), NEW opens \in BOOLEAN,
         opens <=> ~h.filled \/ h.slots[h.current].ts # ts,
         h.filled, NEW m \in 0 .. MaxMinutes, m <= g.top
  PROVE  Spent(g, m) + (IF opens THEN 1 ELSE 0)
             + Owed(RingAfter(h, opens, ts), LogAfter(g, opens, ts))
             <= Spent(LogAfter(g, opens, ts), m) + Owed(h, g)
<1> DEFINE after == LogAfter(g, opens, ts)
           cur == h.slots[h.current].ts
<1>1. cur \in Int /\ ts \in Nat /\ g.top \in Int
  BY MetricsAssumption DEF RingType, Place, LogType
<1>2. Owed(RingAfter(h, opens, ts), after) = IF ts < g.top THEN 1 ELSE 0
  <2>1. /\ RingAfter(h, opens, ts).filled
        /\ RingAfter(h, opens, ts).slots[RingAfter(h, opens, ts).current].ts = ts
    <3> DEFINE p == Written(h, opens)
    <3>1. /\ RingAfter(h, opens, ts).current = p
          /\ RingAfter(h, opens, ts).slots[p].ts = IF opens THEN ts ELSE h.slots[p].ts
          /\ RingAfter(h, opens, ts).filled <=> opens \/ h.filled
      BY PlaceWritten
    <3>2. ~opens => p = h.current /\ cur = ts
      BY DEF Written
    <3> HIDE DEF p
    <3> QED
      BY <3>1, <3>2
  <2>2. after.top = IF ts > g.top THEN ts ELSE g.top
    BY DEF LogAfter
  <2> QED
    BY <1>1, <2>1, <2>2 DEF Owed
<1>3. /\ Owed(h, g) = IF cur < g.top THEN 1 ELSE 0
      /\ cur <= g.top
      /\ opens <=> cur # ts
  BY DEF Owed, Latest
<1>4. /\ Spent(g, m) \in Nat /\ Spent(after, m) \in Nat
      /\ Spent(g, m) + (IF ts < g.top THEN 2 ELSE 0) <= Spent(after, m)
      /\ ts > g.top => Spent(g, m) + 1 <= Spent(after, m)
  BY SpentAfter
<1> HIDE DEF after, cur
<1> QED
  BY <1>1, <1>2, <1>3, <1>4 DEF after

(* Every place grows older by the place opened, and the place that is used *)
(* again was the oldest of the ring.                                       *)
LEMMA PaidKept ==
  ASSUME NEW h \in RingType, NEW g \in LogType, NEW ts \in 0 .. MaxMinutes,
         Latest(h, g), Met(g), Paid(h, g), NEW opens \in BOOLEAN,
         opens <=> ~h.filled \/ h.slots[h.current].ts # ts
  PROVE  /\ Paid(RingAfter(h, opens, ts), LogAfter(g, opens, ts))
         /\ Met(LogAfter(g, opens, ts))
         /\ \A m \in 0 .. MaxMinutes :
                opens /\ h.slots[Written(h, opens)].ts = m =>
                    Slots <= Spent(LogAfter(g, opens, ts), m)
<1> DEFINE hh == RingAfter(h, opens, ts)
           gg == LogAfter(g, opens, ts)
           p == Written(h, opens)
<1>1. /\ Slots \in Nat \ {0} /\ MaxMinutes \in Nat
      /\ h.current \in 0 .. Slots - 1 /\ h.filled \in BOOLEAN
      /\ g.top \in Int /\ g.given \in [0 .. MaxMinutes -> Nat] /\ ts \in Nat
  BY MetricsAssumption DEF RingType, LogType
<1>2. /\ p \in 0 .. Slots - 1 /\ hh.current = p
      /\ \A i \in 0 .. Slots - 1 : i # p => hh.slots[i] = h.slots[i]
      /\ hh.slots[p].ts = IF opens THEN ts ELSE h.slots[p].ts
      /\ hh.filled <=> opens \/ h.filled
  BY PlaceWritten
<1>3. p = IF opens /\ h.filled
          THEN IF h.current + 1 = Slots THEN 0 ELSE h.current + 1
          ELSE h.current
  BY <1>1, NextPlace DEF Written
<1>4. /\ gg.given = [g.given EXCEPT ![ts] = @ + 1]
      /\ gg.top = IF ts > g.top THEN ts ELSE g.top
  BY DEF LogAfter
<1>5. Owed(hh, gg) \in {0, 1} /\ Owed(h, g) \in {0, 1}
  BY DEF Owed
<1>6. \A m \in 0 .. MaxMinutes :
          /\ Spent(g, m) \in Nat /\ Spent(gg, m) \in Nat
          /\ Spent(g, m) + (IF ts < g.top THEN 2 ELSE 0) <= Spent(gg, m)
  BY SpentAfter
<1>7. ASSUME h.filled, NEW m \in 0 .. MaxMinutes, m <= g.top
      PROVE  Spent(g, m) + (IF opens THEN 1 ELSE 0) + Owed(hh, gg) <= Spent(gg, m) + Owed(h, g)
  BY <1>7, AgePaid
<1> HIDE DEF hh, gg, p
<1>8. ASSUME NEW i \in 0 .. Slots - 1, i # p
      PROVE  /\ Age(h, i) \in Nat
             /\ h.filled => Age(hh, i) = Age(h, i) + (IF opens THEN 1 ELSE 0)
  <2>1. /\ Age(h, i) = IF i <= h.current THEN h.current - i ELSE h.current - i + Slots
        /\ Age(hh, i) = IF i <= p THEN p - i ELSE p - i + Slots
    BY <1>2 DEF Age
  <2>2. PICK c \in 0 .. Slots - 1 : c = h.current
    BY <1>1
  <2>3. opens /\ h.filled => p = IF c + 1 = Slots THEN 0 ELSE c + 1
    BY <1>3, <2>2
  <2>4. ~opens => p = c
    BY <1>3, <2>2
  <2>5. PICK q \in 0 .. Slots - 1 : q = p
    BY <1>2
  <2>6. i # q /\ Slots \in Nat
    BY <1>1, <1>8, <2>5
  <2>7. Age(h, i) = IF i <= c THEN c - i ELSE c - i + Slots
    BY <2>1, <2>2
  <2>8. Age(hh, i) = IF i <= q THEN q - i ELSE q - i + Slots
    BY <2>1, <2>5
  <2>9. Age(h, i) \in Nat
    BY <2>6, <2>7
  <2>10. CASE ~opens
    BY <2>4, <2>5, <2>7, <2>8, <2>9, <2>10
  <2>11. ASSUME opens, h.filled PROVE Age(hh, i) = Age(h, i) + 1
    <3>1. q = IF c + 1 = Slots THEN 0 ELSE c + 1
      BY <2>3, <2>5, <2>11
    <3> QED
      BY <2>6, <2>7, <2>8, <3>1
  <2> QED
    BY <2>9, <2>10, <2>11
<1>9. ASSUME NEW i \in 0 .. Slots - 1, hh.slots[i].ts # NoMinute
      PROVE  /\ hh.slots[i].ts \in 0 .. MaxMinutes /\ hh.slots[i].ts <= gg.top /\ hh.filled
             /\ Age(hh, i) + Owed(hh, gg) <= Spent(gg, hh.slots[i].ts)
  <2> DEFINE m == h.slots[i].ts
  <2>1. m # NoMinute => /\ m \in 0 .. MaxMinutes /\ m <= g.top /\ h.filled
                        /\ Age(h, i) + Owed(h, g) <= Spent(g, m)
    BY DEF Paid
  <2>2. CASE i # p
    <3>1. hh.slots[i].ts = m /\ m # NoMinute
      BY <1>2, <1>9, <2>2
    <3>2. Age(hh, i) = Age(h, i) + (IF opens THEN 1 ELSE 0) /\ Age(h, i) \in Nat
      BY <1>8, <2>1, <2>2, <3>1
    <3>3. /\ Spent(g, m) + (IF opens THEN 1 ELSE 0) + Owed(hh, gg) <= Spent(gg, m) + Owed(h, g)
          /\ Spent(g, m) \in Nat /\ Spent(gg, m) \in Nat
      BY <1>6, <1>7, <2>1, <3>1
    <3> HIDE DEF m
    <3>4. Age(hh, i) + Owed(hh, gg) <= Spent(gg, m)
      BY <1>5, <2>1, <3>1, <3>2, <3>3
    <3>5. m <= gg.top /\ hh.filled /\ m \in 0 .. MaxMinutes
      BY <1>1, <1>2, <1>4, <2>1, <3>1
    <3> QED
      BY <3>1, <3>4, <3>5
  <2>3. CASE i = p /\ opens
    <3>1. hh.slots[i].ts = ts /\ hh.filled /\ Age(hh, i) = 0
      <4>1. Age(hh, i) = IF i <= p THEN p - i ELSE p - i + Slots
        BY <1>2 DEF Age
      <4> QED
        BY <1>1, <1>2, <2>3, <4>1
    <3>2. ts <= gg.top
      BY <1>1, <1>4
    <3>3. Owed(hh, gg) = IF ts < g.top THEN 1 ELSE 0
      BY <1>1, <1>2, <1>4, <2>3, <3>1 DEF Owed
    <3> QED
      BY <1>6, <3>1, <3>2, <3>3
  <2>4. CASE i = p /\ ~opens
    <3>1. h.filled /\ p = h.current /\ hh.slots[i].ts = m /\ m = ts
      BY <1>2, <1>3, <2>4
    <3>2. Age(hh, i) = Age(h, i) /\ Age(h, i) = 0
      BY <1>1, <1>2, <2>4, <3>1 DEF Age
    <3>3. m # NoMinute
      BY <1>9, <3>1
    <3>4. /\ Spent(g, m) + Owed(hh, gg) <= Spent(gg, m) + Owed(h, g)
          /\ Spent(g, m) \in Nat /\ Spent(gg, m) \in Nat
      BY <1>5, <1>6, <1>7, <2>1, <2>4, <3>3
    <3> HIDE DEF m
    <3>5. Age(hh, i) + Owed(hh, gg) <= Spent(gg, m)
      BY <1>5, <2>1, <3>2, <3>3, <3>4
    <3>6. m <= gg.top /\ hh.filled
      <4>1. hh.filled /\ m \in Nat /\ m <= g.top
        BY <1>1, <1>2, <2>1, <3>1, <3>3
      <4> QED
        BY <1>1, <1>4, <4>1
    <3> QED
      BY <2>1, <3>1, <3>3, <3>5, <3>6
  <2> QED
    BY <2>2, <2>3, <2>4
<1>10. Met(gg)
  <2> SUFFICES ASSUME NEW m \in 0 .. MaxMinutes, gg.given[m] > 0 PROVE m <= gg.top
    BY DEF Met
  <2>1. m # ts => gg.given[m] = g.given[m]
    BY <1>1, <1>4
  <2> QED
    BY <1>1, <1>4, <2>1 DEF Met
<1>11. ASSUME NEW m \in 0 .. MaxMinutes, opens, h.slots[p].ts = m PROVE Slots <= Spent(gg, m)
  <2>1. /\ m # NoMinute /\ m <= g.top /\ h.filled
        /\ Age(h, p) + Owed(h, g) <= Spent(g, m)
    BY <1>2, <1>11, MetricsAssumption DEF Paid, NoMinute
  <2>2. Age(h, p) = Slots - 1
    <3>1. PICK c \in 0 .. Slots - 1 : c = h.current
      BY <1>1
    <3>2. Age(h, p) = IF p <= c THEN c - p ELSE c - p + Slots
      BY <3>1 DEF Age
    <3>3. p = IF c + 1 = Slots THEN 0 ELSE c + 1
      BY <1>3, <1>11, <2>1, <3>1
    <3> QED
      BY <1>1, <3>1, <3>2, <3>3
  <2>3. /\ Spent(g, m) + 1 + Owed(hh, gg) <= Spent(gg, m) + Owed(h, g)
        /\ Spent(g, m) \in Nat /\ Spent(gg, m) \in Nat
    BY <1>6, <1>7, <1>11, <2>1
  <2> QED
    BY <1>1, <1>5, <2>1, <2>2, <2>3
<1>12. Paid(hh, gg)
  BY <1>9 DEF Paid
<1> QED
  BY <1>10, <1>11, <1>12 DEF hh, gg, p

(* So a minute within the window loses no count, and a count is never      *)
(* entered twice.                                                          *)
LEMMA HeldKept ==
  ASSUME NEW h \in RingType, NEW g \in LogType, NEW ts \in 0 .. MaxMinutes,
         Latest(h, g), Met(g), Paid(h, g), Held(h, g), NEW opens \in BOOLEAN,
         opens <=> ~h.filled \/ h.slots[h.current].ts # ts
  PROVE  Held(RingAfter(h, opens, ts), LogAfter(g, opens, ts))
<1> DEFINE hh == RingAfter(h, opens, ts)
           gg == LogAfter(g, opens, ts)
           p == Written(h, opens)
<1>1. hh \in RingType /\ gg \in LogType
  BY RecordTypes
<1>2. /\ p \in 0 .. Slots - 1
      /\ \A i \in 0 .. Slots - 1 : i # p => hh.slots[i] = h.slots[i]
      /\ hh.slots[p].ts = IF opens THEN ts ELSE h.slots[p].ts
      /\ hh.slots[p].count = IF opens THEN 1 ELSE h.slots[p].count + 1
      /\ ~opens => p = h.current /\ h.slots[p].ts = ts
  BY PlaceWritten DEF Written
<1>3. \A m \in 0 .. MaxMinutes : opens /\ h.slots[p].ts = m => Slots <= Spent(gg, m)
  BY PaidKept
<1>4. \A m \in 0 .. MaxMinutes :
          /\ Spent(g, m) \in Nat /\ Spent(gg, m) \in Nat
          /\ Spent(g, m) <= Spent(gg, m)
  <2> SUFFICES ASSUME NEW m \in 0 .. MaxMinutes
               PROVE  /\ Spent(g, m) \in Nat /\ Spent(gg, m) \in Nat
                      /\ Spent(g, m) <= Spent(gg, m)
    OBVIOUS
  <2>1. /\ Spent(g, m) \in Nat /\ Spent(gg, m) \in Nat
        /\ Spent(g, m) + (IF ts < g.top THEN 2 ELSE 0) <= Spent(gg, m)
    BY SpentAfter
  <2> HIDE DEF gg
  <2> QED
    BY <2>1
<1>5. \A m \in 0 .. MaxMinutes : /\ g.given[m] \in Nat
                                 /\ gg.given[m] = g.given[m] + (IF m = ts THEN 1 ELSE 0)
  <2>1. gg.given = [g.given EXCEPT ![ts] = @ + 1] /\ g.given \in [0 .. MaxMinutes -> Nat]
    BY DEF LogAfter, LogType
  <2> HIDE DEF gg
  <2>2. ASSUME NEW m \in 0 .. MaxMinutes
        PROVE  /\ g.given[m] \in Nat
               /\ gg.given[m] = IF m = ts THEN g.given[m] + 1 ELSE g.given[m]
    BY <2>1
  <2>3. ASSUME NEW m \in 0 .. MaxMinutes
        PROVE  gg.given[m] = g.given[m] + (IF m = ts THEN 1 ELSE 0)
    BY <2>2
  <2> QED
    BY <2>2, <2>3
<1>6. Slots \in Nat \ {0}
  BY MetricsAssumption
<1> HIDE DEF hh, gg, p
<1>7. ASSUME NEW m \in 0 .. MaxMinutes, NEW sum, SumsUp(sum, Counts(hh, m), Slots)
      PROVE  /\ sum[Slots] <= gg.given[m]
             /\ Spent(gg, m) < Slots => sum[Slots] = gg.given[m]
  <2> DEFINE w == Counts(hh, m)
             v == Counts(h, m)
  <2>1. \A i \in 1 .. Slots :
            /\ w[i] = IF hh.slots[i - 1].ts = m THEN hh.slots[i - 1].count ELSE 0
            /\ v[i] = IF h.slots[i - 1].ts = m THEN h.slots[i - 1].count ELSE 0
            /\ w[i] \in Nat /\ v[i] \in Nat
    <3> SUFFICES ASSUME NEW i \in 1 .. Slots
                 PROVE  /\ w[i] = IF hh.slots[i - 1].ts = m THEN hh.slots[i - 1].count ELSE 0
                        /\ v[i] = IF h.slots[i - 1].ts = m THEN h.slots[i - 1].count ELSE 0
                        /\ w[i] \in Nat /\ v[i] \in Nat
      OBVIOUS
    <3>1. i - 1 \in 0 .. Slots - 1
      BY <1>6
    <3>2. hh.slots[i - 1] \in Place /\ h.slots[i - 1] \in Place
      BY <1>1, <3>1 DEF RingType
    <3>3. hh.slots[i - 1].count \in Nat /\ h.slots[i - 1].count \in Nat
      BY <3>2 DEF Place
    <3> QED
      BY <3>3 DEF Counts
  <2> HIDE DEF w, v
  <2>2. PICK before : SumsUp(before, v, Slots)
    BY <1>6, <2>1, SumExists
  <2>3. SumsUp(sum, w, Slots)
    BY <1>7 DEF w
  <2>4. PICK q \in 1 .. Slots : q = p + 1
    BY <1>2, <1>6
  <2>5. \A i \in 1 .. Slots : i # q => w[i] = v[i]
    <3> SUFFICES ASSUME NEW i \in 1 .. Slots, i # q PROVE w[i] = v[i]
      OBVIOUS
    <3>1. i - 1 \in 0 .. Slots - 1 /\ i - 1 # p
      BY <1>2, <1>6, <2>4
    <3>2. hh.slots[i - 1] = h.slots[i - 1]
      BY <1>2, <3>1
    <3> QED
      BY <2>1, <3>2
  <2>6. sum[Slots] + v[q] = before[Slots] + w[q]
    <3>1. Slots \in Nat /\ \A i \in 1 .. Slots : w[i] \in Nat /\ v[i] \in Nat
      BY <1>6, <2>1
    <3> QED
      BY <2>2, <2>3, <2>5, <3>1, SumsDiffer
  <2>7. /\ before[Slots] <= g.given[m]
        /\ Spent(g, m) < Slots => before[Slots] = g.given[m]
    BY <2>2 DEF Held, v
  <2>8. sum[Slots] \in Nat /\ before[Slots] \in Nat
    BY <1>6, <2>2, <2>3 DEF SumsUp
  <2>9. /\ w[q] = IF hh.slots[p].ts = m THEN hh.slots[p].count ELSE 0
        /\ v[q] = IF h.slots[p].ts = m THEN h.slots[p].count ELSE 0
        /\ w[q] \in Nat /\ v[q] \in Nat
    <3>1. q - 1 = p
      BY <1>2, <2>4
    <3> QED
      BY <2>1, <3>1
  <2>10. CASE ~opens
    <3>1. w[q] = v[q] + (IF m = ts THEN 1 ELSE 0)
      BY <1>2, <2>9, <2>10
    <3> QED
      BY <1>4, <1>5, <1>6, <2>6, <2>7, <2>8, <2>9, <3>1
  <2>11. CASE opens
    <3>1. w[q] = IF m = ts THEN 1 ELSE 0
      BY <1>2, <2>9, <2>11
    <3>2. Spent(gg, m) < Slots => v[q] = 0
      BY <1>3, <1>4, <1>6, <2>9, <2>11
    <3> QED
      BY <1>4, <1>5, <1>6, <2>6, <2>7, <2>8, <2>9, <3>1, <3>2
  <2> QED
    BY <2>10, <2>11
<1> QED
  BY <1>7 DEF Held, hh, gg

-----------------------------------------------------------------------------
LEMMA HistoryInit == Init => HistoryInv
<1> SUFFICES ASSUME Init, NEW k \in Rings
             PROVE  Paid(ring[k], log[k]) /\ Met(log[k]) /\ Held(ring[k], log[k])
  BY DEF HistoryInv
<1>1. /\ ring[k].slots = [i \in 0 .. Slots - 1 |-> [ts |-> NoMinute, count |-> 0]]
      /\ log[k].given = [m \in 0 .. MaxMinutes |-> 0]
  BY DEF Init
<1>2. Slots \in Nat
  BY MetricsAssumption
<1>3. Paid(ring[k], log[k])
  BY <1>1 DEF Paid
<1>4. Met(log[k])
  BY <1>1 DEF Met
<1>5. Held(ring[k], log[k])
  <2> SUFFICES ASSUME NEW m \in 0 .. MaxMinutes, NEW sum,
                      SumsUp(sum, Counts(ring[k], m), Slots)
               PROVE  sum[Slots] = 0 /\ log[k].given[m] = 0
    BY DEF Held
  <2>1. \A i \in 1 .. Slots : Counts(ring[k], m)[i] = 0
    BY <1>1, <1>2 DEF Counts
  <2> QED
    BY <1>1, <1>2, <2>1, SumOfNothing
<1> QED
  BY <1>3, <1>4, <1>5

LEMMA HistoryStep == IInv /\ HistoryInv /\ [Next]_vars => HistoryInv'
<1> SUFFICES ASSUME IInv, HistoryInv, [Next]_vars PROVE HistoryInv'
  OBVIOUS
<1> USE DEF IInv, RingsTyped
<1>1. CASE UNCHANGED ringVars
  BY <1>1 DEF ringVars, HistoryInv
<1>2. ASSUME NEW t \in Threads, RecordMinute(t) PROVE HistoryInv'
  <2> DEFINE k == Head(thread[t].rings)
             ts == thread[t].stamp
  <2>1. thread[t] \in ThreadType /\ thread[t].rings # << >>
    BY <1>2 DEF RecordMinute, ThreadType
  <2>2. k \in Rings /\ ts \in 0 .. MaxMinutes
    BY <2>1 DEF ThreadType
  <2> HIDE DEF k, ts
  <2>3. /\ ring' = [ring EXCEPT ![k] = RingAfter(@, Opens(k, ts), ts)]
        /\ log' = [log EXCEPT ![k] = LogAfter(@, Opens(k, ts), ts)]
    BY <1>2 DEF RecordMinute, k, ts
  <2>4. ring[k] \in RingType /\ log[k] \in LogType
    BY <2>2
  <2>5. /\ Opens(k, ts) \in BOOLEAN
        /\ Opens(k, ts) <=> ~ring[k].filled \/ ring[k].slots[ring[k].current].ts # ts
    BY DEF Opens, Cur
  <2>6. /\ Latest(ring[k], log[k]) /\ Paid(ring[k], log[k])
        /\ Met(log[k]) /\ Held(ring[k], log[k])
    BY <2>2 DEF PlacesInv, HistoryInv
  <2>7. /\ ring'[k] = RingAfter(ring[k], Opens(k, ts), ts)
        /\ log'[k] = LogAfter(log[k], Opens(k, ts), ts)
        /\ \A j \in Rings \ {k} : ring'[j] = ring[j] /\ log'[j] = log[j]
    BY <2>2, <2>3
  <2>8. Paid(ring'[k], log'[k]) /\ Met(log'[k])
    BY <2>2, <2>4, <2>5, <2>6, <2>7, PaidKept
  <2>9. Held(ring'[k], log'[k])
    BY <2>2, <2>4, <2>5, <2>6, <2>7, HeldKept
  <2> QED
    BY <2>7, <2>8, <2>9 DEF HistoryInv
<1>3. ASSUME NEW t \in Threads, CountHit(t) \/ CountMiss(t) \/ Stamp(t) PROVE UNCHANGED ringVars
  BY <1>3 DEF CountHit, CountMiss, Stamp, Counted
<1>4. CASE MinutePasses
  BY <1>1, <1>4 DEF MinutePasses
<1>5. CASE UNCHANGED vars
  BY <1>1, <1>5 DEF vars
<1> QED
  BY <1>1, <1>2, <1>3, <1>4, <1>5 DEF Next

(* For any number of threads, places and minutes, and whatever stamps come *)
(* late: the dashboard never shows a request twice, and within the window  *)
(* of the ring it misses none (histRing.record, Snapshot).                 *)
THEOREM HistoryCorrect == Spec => []HistoryHolds
<1>1. IInv /\ HistoryInv => HistoryHolds
  <2> SUFFICES ASSUME IInv, HistoryInv, NEW k \in Rings, NEW m \in 0 .. MaxMinutes
               PROVE  /\ Shown(k, m) <= log[k].given[m]
                      /\ Cardinality(NewerMinutes(k, m)) + 2 * log[k].late < Slots =>
                             Shown(k, m) = log[k].given[m]
    BY DEF HistoryHolds
  <2>1. ring[k] \in RingType
    BY DEF IInv, RingsTyped
  <2>2. PICK sum : SumsUp(sum, Counts(ring[k], m), Slots) /\ Shown(k, m) = sum[Slots]
    BY <2>1, ShownSumsUp
  <2>3. Held(ring[k], log[k])
    BY DEF HistoryInv
  <2>4. Spent(log[k], m) = Cardinality(NewerMinutes(k, m)) + 2 * log[k].late
    BY DEF Spent, Newer, NewerMinutes
  <2> QED
    BY <2>2, <2>3, <2>4 DEF Held
<1> QED
  BY <1>1, InvInit, InvStep, HistoryInit, HistoryStep, PTL DEF Spec

-----------------------------------------------------------------------------
(* The place of a ring of latencies that is i after its oldest.            *)
Turned(next, i) == IF next + i < Samples THEN next + i ELSE next + i - Samples

(* The samples of a ring are the latest latencies, in turn from next on.   *)
InTurn(lr, all) ==
    /\ Len(all) < Samples => lr.buf = all /\ lr.next = 0
    /\ Len(all) >= Samples =>
           /\ Len(lr.buf) = Samples
           /\ \A i \in 0 .. Samples - 1 :
                  lr.buf[Turned(lr.next, i) + 1] = all[Len(all) - Samples + 1 + i]

(* A place that is used is of a minute met; and as long as no stamp came   *)
(* late, the latest place is of the newest minute and no minute has two.   *)
Sharp(h, g) ==
    /\ \A i \in 0 .. Slots - 1 :
           h.slots[i].ts # NoMinute => g.given[h.slots[i].ts] > 0
    /\ g.late = 0 =>
           /\ h.filled => h.slots[h.current].ts = g.top
           /\ \A i, j \in 0 .. Slots - 1 :
                  h.slots[i].ts # NoMinute /\ h.slots[i].ts = h.slots[j].ts => i = j

LatencyType == [buf : Seq(Latencies), next : 0 .. Samples - 1]

RecentInv ==
    /\ latency \in [Rules -> LatencyType] /\ took \in [Rules -> Seq(Latencies)]
    /\ \A t \in Threads : thread[t].stamp <= minute
    /\ \A k \in Rings : log[k].top <= minute /\ Sharp(ring[k], log[k])
    /\ \A r \in Rules : InTurn(latency[r], took[r])

-----------------------------------------------------------------------------
(* Percentiles.                                                            *)
Below(s, v) == Cardinality({i \in DOMAIN s : s[i] < v})

(* Turning a ring leaves as many samples of every value.                   *)
IsTurned(s, all, next) ==
    \A i \in 0 .. Samples - 1 : s[Turned(next, i) + 1] = all[i + 1]

LEMMA TurnedCounts ==
  ASSUME NEW next \in 0 .. Samples - 1, NEW s, NEW all, IsTurned(s, all, next), NEW K
  PROVE  Cardinality({i \in 1 .. Samples : s[i] \in K})
             = Cardinality({i \in 1 .. Samples : all[i] \in K})
<1> DEFINE S == {i \in 1 .. Samples : all[i] \in K}
           T == {i \in 1 .. Samples : s[i] \in K}
           f == [i \in S |-> Turned(next, i - 1) + 1]
<1>0. \A i \in 0 .. Samples - 1 : s[Turned(next, i) + 1] = all[i + 1]
  BY DEF IsTurned
<1>1. Samples \in Nat \ {0}
  BY MetricsAssumption
<1>2. IsFiniteSet(S)
  BY <1>1, PlacesAreFinite
<1>3. ASSUME NEW i \in 1 .. Samples
      PROVE  /\ Turned(next, i - 1) + 1 \in 1 .. Samples
             /\ s[Turned(next, i - 1) + 1] = all[i]
  <2>1. PICK j \in 0 .. Samples - 1 : j = i - 1 /\ j + 1 = i
    BY <1>1
  <2>2. Turned(next, j) + 1 \in 1 .. Samples
    BY <1>1 DEF Turned
  <2> QED
    BY <1>0, <2>1, <2>2
<1>4. f \in [S -> T]
  <2>1. ASSUME NEW i \in S PROVE Turned(next, i - 1) + 1 \in T
    BY <1>3
  <2> QED
    BY <2>1
<1>5. ASSUME NEW a \in S, NEW b \in S, f[a] = f[b] PROVE a = b
  <2>1. Turned(next, a - 1) + 1 = Turned(next, b - 1) + 1 /\ a \in 1 .. Samples /\ b \in 1 .. Samples
    BY <1>5
  <2> QED
    BY <1>1, <2>1 DEF Turned
<1>6. ASSUME NEW c \in T PROVE \E a \in S : f[a] = c
  <2> DEFINE a == IF c > next THEN c - next ELSE c - next + Samples
  <2>1. a \in 1 .. Samples /\ Turned(next, a - 1) + 1 = c
    <3>1. c \in 1 .. Samples
      OBVIOUS
    <3> QED
      BY <1>1, <3>1 DEF Turned
  <2> HIDE DEF a
  <2>2. all[a] = s[c] /\ s[c] \in K
    BY <1>3, <2>1
  <2>3. a \in S
    BY <2>1, <2>2
  <2> QED
    BY <2>1, <2>3
<1> HIDE DEF S, T, f
<1>7. Cardinality(S) = Cardinality(T)
  BY <1>2, <1>4, <1>5, <1>6, SameSize
<1> QED
  BY <1>7 DEF S, T

(* A sequence of numbers is bounded.                                       *)
LEMMA SeqIsBounded ==
  ASSUME NEW n \in Nat, NEW s, \A i \in 1 .. n : s[i] \in Nat
  PROVE  \E v \in Nat : \A i \in 1 .. n : s[i] <= v
<1> DEFINE P == {k \in 0 .. n : \E v \in Nat : \A i \in 1 .. k : s[i] <= v}
<1>1. 0 \in P
  OBVIOUS
<1>2. ASSUME NEW k \in 1 .. n, k - 1 \in P PROVE k \in P
  <2>1. PICK v \in Nat : \A i \in 1 .. k - 1 : s[i] <= v
    BY <1>2
  <2>2. PICK x \in Nat : x = s[k]
    OBVIOUS
  <2>3. PICK u \in Nat : u >= v /\ u >= x
    <3>1. v + x \in Nat /\ v + x >= v /\ v + x >= x
      OBVIOUS
    <3> QED
      BY <3>1
  <2>4. ASSUME NEW i \in 1 .. k PROVE s[i] <= u
    <3>1. i = k \/ i \in 1 .. k - 1
      OBVIOUS
    <3>2. s[i] \in Nat
      OBVIOUS
    <3> QED
      BY <2>1, <2>2, <2>3, <3>1, <3>2
  <2> QED
    BY <2>4
<1> HIDE DEF P
<1>3. \A k \in 0 .. n : k \in P
  BY <1>1, <1>2, Climb
<1>4. n \in P
  BY <1>3
<1> QED
  BY <1>4 DEF P

IsRow(s, n) == DOMAIN s = 1 .. n /\ \A i \in 1 .. n : s[i] \in Nat

Adds(s, n, v) ==
    /\ {Occurrences(s, v), AtMost(s, v), Below(s, v)} \subseteq Nat
    /\ AtMost(s, v) = Below(s, v) + Occurrences(s, v)
    /\ Occurrences(s, v) > 0 <=> \E i \in 1 .. n : s[i] = v

LEMMA CountsOfValues ==
  ASSUME NEW n \in Nat, NEW s, IsRow(s, n), NEW v \in Nat
  PROVE  Adds(s, n, v)
<1>0. DOMAIN s = 1 .. n /\ \A i \in 1 .. n : s[i] \in Nat
  BY DEF IsRow
<1> DEFINE eq == {i \in DOMAIN s : s[i] = v}
           le == {i \in DOMAIN s : s[i] <= v}
           lt == {i \in DOMAIN s : s[i] < v}
<1>1. /\ IsFiniteSet(eq) /\ IsFiniteSet(le) /\ IsFiniteSet(lt)
      /\ {Cardinality(eq), Cardinality(le), Cardinality(lt)} \subseteq Nat
  <2>1. eq \in SUBSET (1 .. n) /\ le \in SUBSET (1 .. n) /\ lt \in SUBSET (1 .. n)
    BY <1>0
  <2> HIDE DEF eq, le, lt
  <2> QED
    BY <2>1, PlacesAreFinite
<1>2. le = lt \cup eq /\ lt \cap eq = {}
  BY <1>0
<1>3. Cardinality(le) = Cardinality(lt) + Cardinality(eq)
  <2> HIDE DEF eq, le, lt
  <2>1. Cardinality(lt \cap eq) = 0
    BY <1>2, FS_EmptySet
  <2>2. Cardinality(lt \cup eq) = Cardinality(lt) + Cardinality(eq) - Cardinality(lt \cap eq)
    BY <1>1, FS_Union
  <2> QED
    BY <1>1, <1>2, <2>1, <2>2
<1>4. Cardinality(eq) = 0 <=> eq = {}
  BY <1>1, FS_EmptySet
<1>5. Cardinality(eq) > 0 <=> \E i \in 1 .. n : s[i] = v
  BY <1>0, <1>1, <1>4
<1>6. Occurrences(s, v) = Cardinality(eq) /\ AtMost(s, v) = Cardinality(le) /\ Below(s, v) = Cardinality(lt)
  BY DEF Occurrences, AtMost, Below
<1> HIDE DEF eq, le, lt
<1> QED
  BY <1>1, <1>3, <1>5, <1>6 DEF Adds

(* There is a sample at every place of the order: the least that more than *)
(* i samples do not exceed.                                                *)
LEMMA SortedExists ==
  ASSUME NEW n \in Nat, NEW s, IsRow(s, n), NEW i \in 0 .. n - 1
  PROVE  /\ \E j \in 1 .. n : Sorted(s, i) = s[j]
         /\ Below(s, Sorted(s, i)) <= i /\ i < AtMost(s, Sorted(s, i))
<1>0. DOMAIN s = 1 .. n /\ \A j \in 1 .. n : s[j] \in Nat
  BY DEF IsRow
<1> DEFINE V == {v \in Nat : i < AtMost(s, v)}
<1>1. V # {}
  <2>1. PICK v \in Nat : \A j \in 1 .. n : s[j] <= v
    BY <1>0, SeqIsBounded
  <2>2. {j \in DOMAIN s : s[j] <= v} = 1 .. n
    BY <1>0, <2>1
  <2>3. AtMost(s, v) = n
    <3>1. AtMost(s, v) = Cardinality(1 .. n)
      BY <2>2 DEF AtMost
    <3>2. Cardinality(1 .. n) = n
      BY FS_Interval
    <3> QED
      BY <3>1, <3>2
  <2>4. v \in V
    BY <2>3
  <2> QED
    BY <2>4
<1>2. PICK v \in V : \A u \in V : v <= u
  <2>1. V \in SUBSET Nat
    OBVIOUS
  <2> HIDE DEF V
  <2> QED
    BY <1>1, <2>1, NatHasLeast
<1>3. v \in Nat /\ i < AtMost(s, v)
  BY <1>2
<1>4. Below(s, v) <= i
  <2>1. CASE v = 0
    <3>1. {j \in DOMAIN s : s[j] < v} = {}
      BY <1>0, <2>1
    <3>2. Below(s, v) = Cardinality({})
      BY <3>1 DEF Below
    <3> QED
      BY <3>2, FS_EmptySet
  <2>2. CASE v # 0
    <3>1. PICK u \in Nat : u = v - 1
      BY <1>3, <2>2
    <3>2. ~(v <= u) /\ \A j \in 1 .. n : s[j] < v <=> s[j] <= u
      BY <1>0, <1>3, <3>1
    <3>3. {j \in DOMAIN s : s[j] < v} = {j \in DOMAIN s : s[j] <= u}
      BY <1>0, <3>2
    <3>4. Below(s, v) = AtMost(s, u) /\ AtMost(s, u) \in Nat
      <4>1. Below(s, v) = AtMost(s, u)
        BY <3>3 DEF Below, AtMost
      <4>2. Adds(s, n, u)
        BY CountsOfValues
      <4> QED
        BY <4>1, <4>2 DEF Adds
    <3>5. u \notin V
      BY <1>2, <3>2
    <3>6. ~(i < AtMost(s, u))
      BY <3>5
    <3> QED
      BY <3>4, <3>6
  <2> QED
    BY <2>1, <2>2
<1>5. Adds(s, n, v)
  BY <1>3, CountsOfValues
<1>6. v \in {s[j] : j \in DOMAIN s}
  BY <1>0, <1>3, <1>4, <1>5 DEF Adds
<1> DEFINE IsIt(x) == AtMost(s, x) - Occurrences(s, x) <= i /\ i < AtMost(s, x)
<1>7. IsIt(v)
  BY <1>3, <1>4, <1>5 DEF Adds
<1>8. Sorted(s, i) = CHOOSE x \in {s[j] : j \in DOMAIN s} : IsIt(x)
  BY DEF Sorted
<1>9. Sorted(s, i) \in {s[j] : j \in DOMAIN s} /\ IsIt(Sorted(s, i))
  <2> HIDE DEF IsIt
  <2> QED
    BY <1>6, <1>7, <1>8
<1>10. Sorted(s, i) \in Nat
  BY <1>0, <1>9
<1>11. Adds(s, n, Sorted(s, i))
  BY <1>10, CountsOfValues
<1>12. \E j \in 1 .. n : Sorted(s, i) = s[j]
  BY <1>0, <1>9
<1>13. Below(s, Sorted(s, i)) <= i /\ i < AtMost(s, Sorted(s, i))
  BY <1>9, <1>11 DEF Adds
<1> QED
  BY <1>12, <1>13

LEMMA Nearer ==
  ASSUME NEW x \in Nat, NEW i \in Nat, NEW a \in Nat, NEW b \in Nat,
         b <= i, i < a, 100 * (i + 1) >= x, 100 * i < x
  PROVE  100 * a >= x /\ 100 * b < x
OBVIOUS

(* A percentile is the nearest rank.                                       *)
LEMMA PercentileIsNearest ==
  ASSUME NEW n \in Nat \ {0}, NEW s \in Seq(Nat), Len(s) = n, NEW p \in {50, 95}
  PROVE  Percentile(s, p) \in Nat /\ NearestRank(s, p, Percentile(s, p))
<1> DEFINE i == (n * p + 99) \div 100 - 1
<1>1. IsRow(s, n) /\ (\A j \in 1 .. n : s[j] \in Nat) /\ s # << >>
  BY DEF IsRow
<1>2. i \in 0 .. n - 1 /\ 100 * (i + 1) >= p * n /\ 100 * i < p * n
  <2>1. CASE p = 50
    BY <2>1
  <2>2. CASE p = 95
    BY <2>2
  <2> QED
    BY <2>1, <2>2
<1>3. Percentile(s, p) = Sorted(s, i)
  BY <1>1, <1>2 DEF Percentile
<1> HIDE DEF i
<1> DEFINE v == Sorted(s, i)
<1>4. /\ \E j \in 1 .. n : v = s[j]
      /\ Below(s, v) <= i /\ i < AtMost(s, v)
  BY <1>1, <1>2, SortedExists
<1> HIDE DEF v
<1>5. v \in Nat
  BY <1>1, <1>4
<1>6. /\ {Occurrences(s, v), AtMost(s, v), Below(s, v)} \subseteq Nat
      /\ AtMost(s, v) = Below(s, v) + Occurrences(s, v)
      /\ Occurrences(s, v) > 0 <=> \E j \in 1 .. n : s[j] = v
  <2>1. Adds(s, n, v)
    BY <1>1, <1>5, CountsOfValues
  <2> QED
    BY <2>1 DEF Adds
<1>7. 100 * AtMost(s, v) >= p * n /\ 100 * (AtMost(s, v) - Occurrences(s, v)) < p * n
  <2>1. AtMost(s, v) - Occurrences(s, v) = Below(s, v)
    BY <1>6
  <2>2. p * n \in Nat
    OBVIOUS
  <2>3. i \in Nat /\ AtMost(s, v) \in Nat /\ Below(s, v) \in Nat
    BY <1>2, <1>6
  <2>4. 100 * AtMost(s, v) >= p * n /\ 100 * Below(s, v) < p * n
    BY <1>2, <1>4, <2>2, <2>3, Nearer
  <2> QED
    BY <2>1, <2>4
<1>8. Occurrences(s, v) > 0
  BY <1>4, <1>6
<1> QED
  BY <1>3, <1>5, <1>7, <1>8 DEF NearestRank, v

-----------------------------------------------------------------------------
LEMMA NextSample ==
  ASSUME NEW k \in 0 .. Samples - 1
  PROVE  (k + 1) % Samples = IF k + 1 = Samples THEN 0 ELSE k + 1
<1>1. Samples \in Nat \ {0}
  BY MetricsAssumption
<1>2. CASE k + 1 = Samples
  BY <1>1, <1>2
<1>3. CASE k + 1 < Samples
  BY <1>1, <1>3
<1> QED
  BY <1>1, <1>2, <1>3

(* From the place after, every sample is a place nearer.                   *)
LEMMA TurnedOn ==
  ASSUME NEW k \in 0 .. Samples - 1, NEW j \in 1 .. Samples - 1,
         NEW next, next = IF k + 1 = Samples THEN 0 ELSE k + 1
  PROVE  /\ Turned(next, j - 1) = Turned(k, j)
         /\ Turned(k, j) # k /\ Turned(k, j) \in 0 .. Samples - 1
<1>1. Samples \in Nat \ {0}
  BY MetricsAssumption
<1>2. CASE k + 1 = Samples
  BY <1>1, <1>2 DEF Turned
<1>3. CASE k + 1 # Samples
  <2>1. next = k + 1 /\ next + (j - 1) = k + j
    BY <1>1, <1>3
  <2> QED
    BY <1>1, <2>1 DEF Turned
<1> QED
  BY <1>2, <1>3

(* The samples stay in turn: a full ring gives up its oldest.              *)
LEMMA InTurnKept ==
  ASSUME NEW lr \in LatencyType, NEW all \in Seq(Latencies), NEW ms \in Latencies,
         InTurn(lr, all)
  PROVE  Recorded(lr, ms) \in LatencyType /\ InTurn(Recorded(lr, ms), Append(all, ms))
<1>1. Samples \in Nat \ {0}
  BY MetricsAssumption
<1>2. lr.buf \in Seq(Latencies) /\ lr.next \in 0 .. Samples - 1
  BY DEF LatencyType
<1> DEFINE next == IF lr.next + 1 = Samples THEN 0 ELSE lr.next + 1
           n == Len(all)
           more == Append(all, ms)
<1>3. (lr.next + 1) % Samples = next /\ next \in 0 .. Samples - 1
  <2>1. (lr.next + 1) % Samples = next
    BY <1>2, NextSample
  <2>2. next \in 0 .. Samples - 1
    BY <1>1, <1>2
  <2> QED
    BY <2>1, <2>2
<1>4. /\ n \in Nat /\ Len(more) = n + 1 /\ more[n + 1] = ms
      /\ \A i \in 1 .. n : more[i] = all[i]
  OBVIOUS
<1>7. Len(lr.buf) \in Nat
  BY <1>2
<1>5. CASE Len(lr.buf) < Samples
  <2>1. lr.buf = all /\ lr.next = 0 /\ n < Samples
    BY <1>1, <1>5 DEF InTurn
  <2>2. Recorded(lr, ms) = [lr EXCEPT !.buf = Append(@, ms)]
    BY <1>5 DEF Recorded
  <2>3. /\ Recorded(lr, ms) \in LatencyType
        /\ Recorded(lr, ms).buf = more /\ Recorded(lr, ms).next = 0
    <3>1. more \in Seq(Latencies) /\ 0 \in 0 .. Samples - 1
      BY <1>1
    <3>2. Append(lr.buf, ms) = more
      BY <2>1
    <3> HIDE DEF more
    <3>3. Recorded(lr, ms) = [buf |-> more, next |-> 0]
      BY <2>1, <2>2, <3>2 DEF LatencyType
    <3> QED
      BY <3>1, <3>3 DEF LatencyType
  <2> HIDE DEF more
  <2>4. \A i \in 0 .. Samples - 1 : Turned(0, i) = i
    BY <1>1 DEF Turned
  <2>5. InTurn(Recorded(lr, ms), more)
    <3>1. CASE n + 1 < Samples
      BY <1>1, <1>4, <2>3, <3>1 DEF InTurn
    <3>2. CASE n + 1 = Samples
      <4>1. ASSUME NEW i \in 0 .. Samples - 1
            PROVE  more[Turned(0, i) + 1] = more[Len(more) - Samples + 1 + i]
        <5>1. Len(more) - Samples + 1 + i = i + 1
          BY <1>1, <1>4, <3>2
        <5> QED
          BY <2>4, <5>1
      <4> QED
        BY <1>1, <1>4, <2>3, <3>2, <4>1 DEF InTurn
    <3> QED
      BY <1>1, <1>4, <2>1, <3>1, <3>2
  <2> QED
    BY <2>3, <2>5 DEF more
<1>6. CASE Len(lr.buf) >= Samples
  <2>1. /\ n >= Samples /\ Len(lr.buf) = Samples
        /\ \A i \in 0 .. Samples - 1 : lr.buf[Turned(lr.next, i) + 1] = all[n - Samples + 1 + i]
    BY <1>1, <1>6 DEF InTurn
  <2> DEFINE buf == [lr.buf EXCEPT ![lr.next + 1] = ms]
  <2>2. Recorded(lr, ms) = [buf |-> buf, next |-> next]
    <3>1. ~(Len(lr.buf) < Samples)
      BY <1>1, <1>6, <1>7
    <3> HIDE DEF buf, next
    <3> QED
      BY <1>3, <3>1 DEF Recorded, buf
  <2>3. /\ buf \in Seq(Latencies) /\ Len(buf) = Samples
        /\ \A i \in 1 .. Samples : buf[i] = IF i = lr.next + 1 THEN ms ELSE lr.buf[i]
    BY <1>1, <1>2, <2>1
  <2>4. Recorded(lr, ms) \in LatencyType
    BY <1>3, <2>2, <2>3 DEF LatencyType
  <2> HIDE DEF buf, more
  <2>5. ASSUME NEW i \in 0 .. Samples - 1
        PROVE  buf[Turned(next, i) + 1] = more[(n + 1) - Samples + 1 + i]
    <3>1. CASE i = Samples - 1
      <4>1. Turned(next, i) = lr.next
        BY <1>1, <1>2, <3>1 DEF Turned
      <4>2. (n + 1) - Samples + 1 + i = n + 1
        BY <1>1, <1>4, <3>1
      <4> QED
        BY <1>1, <1>2, <1>4, <2>3, <4>1, <4>2
    <3>2. CASE i # Samples - 1
      <4>1. PICK j \in 1 .. Samples - 1 : j = i + 1 /\ j - 1 = i /\ j \in 0 .. Samples - 1
        BY <1>1, <3>2
      <4>2. /\ Turned(next, i) = Turned(lr.next, j) /\ Turned(lr.next, j) # lr.next
            /\ Turned(lr.next, j) \in 0 .. Samples - 1
        <5>1. next = IF lr.next + 1 = Samples THEN 0 ELSE lr.next + 1
          OBVIOUS
        <5> HIDE DEF next
        <5>2. /\ Turned(next, j - 1) = Turned(lr.next, j)
              /\ Turned(lr.next, j) # lr.next /\ Turned(lr.next, j) \in 0 .. Samples - 1
          BY <1>2, <5>1, TurnedOn
        <5> QED
          BY <4>1, <5>2
      <4>3. PICK to \in 0 .. Samples - 1 : to = Turned(lr.next, j) /\ to # lr.next
        BY <4>2
      <4>4. buf[to + 1] = lr.buf[to + 1]
        <5>1. to + 1 \in 1 .. Samples /\ to + 1 # lr.next + 1
          BY <1>1, <1>2, <4>3
        <5> QED
          BY <2>3, <5>1
      <4>5. lr.buf[to + 1] = all[n - Samples + 1 + j]
        BY <2>1, <4>1, <4>3
      <4>6. PICK q \in 1 .. n : q = n - Samples + 1 + j /\ q = (n + 1) - Samples + 1 + i
        <5>1. n \in Nat /\ n >= Samples
          BY <1>4, <2>1
        <5> HIDE DEF n
        <5> QED
          BY <1>1, <4>1, <5>1
      <4>7. more[q] = all[q]
        BY <1>4
      <4> QED
        BY <4>2, <4>3, <4>4, <4>5, <4>6, <4>7
    <3> QED
      BY <3>1, <3>2
  <2>6. /\ Len(more) >= Samples /\ ~(Len(more) < Samples)
        /\ Len(more) = n + 1
    BY <1>1, <1>4, <2>1
  <2> HIDE DEF n, next
  <2> QED
    BY <2>2, <2>3, <2>4, <2>5, <2>6 DEF InTurn, more
<1> QED
  BY <1>1, <1>5, <1>6, <1>7

(* A stamp that is not late finds its minute at the latest place, or is of *)
(* a minute newer than all.                                                *)
LEMMA SharpKept ==
  ASSUME NEW h \in RingType, NEW g \in LogType, NEW ts \in 0 .. MaxMinutes,
         Paid(h, g), Sharp(h, g), NEW opens \in BOOLEAN,
         opens <=> ~h.filled \/ h.slots[h.current].ts # ts
  PROVE  Sharp(RingAfter(h, opens, ts), LogAfter(g, opens, ts))
<1> DEFINE hh == RingAfter(h, opens, ts)
           gg == LogAfter(g, opens, ts)
           p == Written(h, opens)
<1>1. /\ MaxMinutes \in Nat /\ ts \in Nat /\ g.top \in Int /\ g.late \in Nat
      /\ g.given \in [0 .. MaxMinutes -> Nat]
      /\ h.current \in 0 .. Slots - 1 /\ h.slots \in [0 .. Slots - 1 -> Place]
  BY MetricsAssumption DEF RingType, LogType
<1>2. /\ p \in 0 .. Slots - 1 /\ hh.current = p
      /\ \A i \in 0 .. Slots - 1 : i # p => hh.slots[i] = h.slots[i]
      /\ hh.slots[p].ts = IF opens THEN ts ELSE h.slots[p].ts
      /\ hh.filled <=> opens \/ h.filled
  BY PlaceWritten
<1>3. ~opens => p = h.current /\ h.filled /\ h.slots[p].ts = ts
  BY DEF Written
<1>4. /\ gg.given = [g.given EXCEPT ![ts] = @ + 1]
      /\ gg.top = IF ts > g.top THEN ts ELSE g.top
      /\ gg.late = g.late + (IF ts < g.top THEN 1 ELSE 0)
  BY DEF LogAfter
<1>5. hh.slots[p].ts = ts
  BY <1>2, <1>3
<1>6. \A i \in 0 .. Slots - 1 :
          h.slots[i].ts # NoMinute =>
              /\ h.slots[i].ts \in 0 .. MaxMinutes /\ h.slots[i].ts <= g.top /\ h.filled
              /\ g.given[h.slots[i].ts] > 0
  BY DEF Paid, Sharp
<1> HIDE DEF hh, gg, p
<1>7. ASSUME NEW i \in 0 .. Slots - 1, hh.slots[i].ts # NoMinute
      PROVE  gg.given[hh.slots[i].ts] > 0
  <2>1. \A m \in 0 .. MaxMinutes :
            gg.given[m] = IF m = ts THEN g.given[m] + 1 ELSE g.given[m]
    BY <1>1, <1>4
  <2>2. gg.given[ts] > 0
    BY <1>1, <2>1
  <2>3. CASE i # p
    <3>1. PICK m \in 0 .. MaxMinutes : m = hh.slots[i].ts /\ g.given[m] > 0
      BY <1>2, <1>6, <1>7, <2>3
    <3> QED
      BY <1>1, <2>1, <2>2, <3>1
  <2> QED
    BY <1>5, <2>2, <2>3
<1>8. ASSUME gg.late = 0
      PROVE  /\ hh.slots[hh.current].ts = gg.top
             /\ \A i, j \in 0 .. Slots - 1 :
                    hh.slots[i].ts # NoMinute /\ hh.slots[i].ts = hh.slots[j].ts => i = j
  <2>1. g.late = 0 /\ ts >= g.top /\ gg.top = ts
    BY <1>1, <1>4, <1>8
  <2>2. /\ h.filled => h.slots[h.current].ts = g.top
        /\ \A i, j \in 0 .. Slots - 1 :
               h.slots[i].ts # NoMinute /\ h.slots[i].ts = h.slots[j].ts => i = j
    BY <2>1 DEF Sharp
  <2>3. ASSUME opens, NEW i \in 0 .. Slots - 1, h.slots[i].ts = ts PROVE FALSE
    <3>1. ts # NoMinute
      BY <1>1 DEF NoMinute
    <3>2. h.filled /\ ts <= g.top
      BY <1>6, <2>3, <3>1
    <3>3. ts = g.top
      BY <1>1, <2>1, <3>2
    <3> QED
      BY <2>2, <2>3, <3>2, <3>3
  <2>4. ASSUME NEW i \in 0 .. Slots - 1, NEW j \in 0 .. Slots - 1,
               hh.slots[i].ts # NoMinute, hh.slots[i].ts = hh.slots[j].ts
        PROVE  i = j
    <3>1. CASE ~opens
      <4>1. hh.slots[i].ts = h.slots[i].ts /\ hh.slots[j].ts = h.slots[j].ts
        BY <1>2, <3>1
      <4> QED
        BY <2>2, <2>4, <4>1
    <3>2. CASE opens /\ i # p /\ j # p
      BY <1>2, <2>2, <2>4, <3>2
    <3>3. CASE opens /\ i = p /\ j # p
      BY <1>2, <1>5, <2>3, <2>4, <3>3
    <3>4. CASE opens /\ i # p /\ j = p
      BY <1>2, <1>5, <2>3, <2>4, <3>4
    <3> QED
      BY <3>1, <3>2, <3>3, <3>4
  <2> QED
    BY <1>2, <1>5, <2>1, <2>4
<1> QED
  BY <1>7, <1>8 DEF Sharp, hh, gg

-----------------------------------------------------------------------------
LEMMA RecentInit == Init => RecentInv
<1> SUFFICES ASSUME Init PROVE RecentInv
  OBVIOUS
<1> USE MetricsAssumption
<1>1. latency \in [Rules -> LatencyType] /\ took \in [Rules -> Seq(Latencies)]
  BY DEF Init, LatencyType
<1>2. \A t \in Threads : thread[t].stamp <= minute
  BY DEF Init
<1>3. \A k \in Rings : log[k].top <= minute
  BY DEF Init, NoMinute
<1>4. ASSUME NEW k \in Rings PROVE Sharp(ring[k], log[k])
  <2>1. /\ ring[k].slots = [i \in 0 .. Slots - 1 |-> [ts |-> NoMinute, count |-> 0]]
        /\ ring[k].filled = FALSE
    BY DEF Init
  <2> QED
    BY <2>1 DEF Sharp
<1>5. ASSUME NEW r \in Rules PROVE InTurn(latency[r], took[r])
  <2>1. /\ latency[r].buf = << >> /\ latency[r].next = 0
        /\ took[r] = << >> /\ Len(took[r]) = 0
    BY DEF Init
  <2> QED
    BY <2>1 DEF InTurn
<1> QED
  BY <1>1, <1>2, <1>3, <1>4, <1>5 DEF RecentInv

LEMMA RecentStep == IInv /\ HistoryInv /\ RecentInv /\ [Next]_vars => RecentInv'
<1> SUFFICES ASSUME IInv, HistoryInv, RecentInv, [Next]_vars PROVE RecentInv'
  OBVIOUS
<1> USE DEF RecentInv
<1>t. minute \in Nat /\ thread \in [Threads -> ThreadType]
  BY MetricsAssumption DEF IInv, RingsTyped
<1>1. ASSUME NEW t \in Threads, NEW rings, Counted(t, rings)
      PROVE  /\ \A u \in Threads : thread'[u].stamp <= minute'
             /\ UNCHANGED <<minute, ringVars>>
  BY <1>t, <1>1 DEF Counted
<1>2. ASSUME NEW t \in Threads, CountHit(t) PROVE RecentInv'
  <2>1. PICK r \in Rules, ms \in Latencies :
            /\ Counted(t, <<Overall, r>>)
            /\ latency' = [latency EXCEPT ![r] = Recorded(@, ms)]
            /\ took' = [took EXCEPT ![r] = Append(@, ms)]
    BY <1>2 DEF CountHit
  <2>2. /\ Recorded(latency[r], ms) \in LatencyType
        /\ InTurn(Recorded(latency[r], ms), Append(took[r], ms))
    BY InTurnKept
  <2>3. latency' \in [Rules -> LatencyType] /\ took' \in [Rules -> Seq(Latencies)]
    BY <2>1, <2>2
  <2>4. \A q \in Rules : InTurn(latency'[q], took'[q])
    <3>1. latency'[r] = Recorded(latency[r], ms) /\ took'[r] = Append(took[r], ms)
      BY <2>1
    <3>2. \A q \in Rules \ {r} : latency'[q] = latency[q] /\ took'[q] = took[q]
      BY <2>1
    <3> QED
      BY <2>2, <3>1, <3>2
  <2>5. (\A u \in Threads : thread'[u].stamp <= minute') /\ UNCHANGED <<minute, ringVars>>
    BY <1>1, <2>1
  <2> QED
    BY <2>3, <2>4, <2>5 DEF ringVars
<1>3. ASSUME NEW t \in Threads, CountMiss(t) PROVE RecentInv'
  <2>1. (\A u \in Threads : thread'[u].stamp <= minute') /\ UNCHANGED <<minute, ringVars>>
    BY <1>1, <1>3 DEF CountMiss
  <2> QED
    BY <1>3, <2>1 DEF CountMiss, ringVars
<1>4. ASSUME NEW t \in Threads, Stamp(t) PROVE RecentInv'
  <2>1. /\ thread' = [thread EXCEPT ![t].at = "rings", ![t].stamp = minute]
        /\ UNCHANGED <<countVars, minute, ringVars>>
    BY <1>4 DEF Stamp
  <2>2. thread'[t].stamp = minute /\ \A u \in Threads \ {t} : thread'[u] = thread[u]
    BY <1>t, <2>1 DEF ThreadType
  <2>3. \A u \in Threads : thread'[u].stamp <= minute'
    BY <1>t, <2>1, <2>2
  <2> QED
    BY <2>1, <2>3 DEF countVars, ringVars
<1>5. ASSUME NEW t \in Threads, RecordMinute(t) PROVE RecentInv'
  <2> DEFINE k == Head(thread[t].rings)
             rest == Tail(thread[t].rings)
             ts == thread[t].stamp
  <2>1. thread[t] \in ThreadType /\ thread[t].rings # << >>
    BY <1>t, <1>5 DEF RecordMinute, ThreadType
  <2>2. k \in Rings /\ ts \in 0 .. MaxMinutes /\ ts <= minute
    BY <2>1 DEF ThreadType
  <2>3. /\ thread' = [thread EXCEPT ![t].rings = rest,
                                    ![t].at = IF rest = << >> THEN "idle" ELSE "rings"]
        /\ UNCHANGED <<countVars, minute>>
    BY <1>5 DEF RecordMinute
  <2> HIDE DEF k, ts, rest
  <2>4. \A u \in Threads : thread'[u].stamp = thread[u].stamp
    BY <1>t, <2>1, <2>3 DEF ThreadType
  <2>5. /\ ring' = [ring EXCEPT ![k] = RingAfter(@, Opens(k, ts), ts)]
        /\ log' = [log EXCEPT ![k] = LogAfter(@, Opens(k, ts), ts)]
    BY <1>5 DEF RecordMinute, k, ts
  <2>6. /\ ring[k] \in RingType /\ log[k] \in LogType
        /\ ring \in [Rings -> RingType] /\ log \in [Rings -> LogType]
    BY <2>2 DEF IInv, RingsTyped
  <2>7. /\ Opens(k, ts) \in BOOLEAN
        /\ Opens(k, ts) <=> ~ring[k].filled \/ ring[k].slots[ring[k].current].ts # ts
    BY DEF Opens, Cur
  <2>8. /\ ring'[k] = RingAfter(ring[k], Opens(k, ts), ts)
        /\ log'[k] = LogAfter(log[k], Opens(k, ts), ts)
        /\ \A j \in Rings \ {k} : ring'[j] = ring[j] /\ log'[j] = log[j]
    BY <2>2, <2>5, <2>6
  <2>9. Paid(ring[k], log[k]) /\ Sharp(ring[k], log[k]) /\ log[k].top <= minute
    BY <2>2 DEF HistoryInv
  <2>10. Sharp(ring'[k], log'[k])
    BY <2>2, <2>6, <2>7, <2>8, <2>9, SharpKept
  <2>11. log'[k].top <= minute'
    <3>1. log'[k].top = IF ts > log[k].top THEN ts ELSE log[k].top
      BY <2>8 DEF LogAfter
    <3> QED
      BY <2>2, <2>3, <2>9, <3>1
  <2> QED
    BY <2>3, <2>4, <2>8, <2>10, <2>11 DEF countVars
<1>6. CASE MinutePasses
  <2>1. minute' = minute + 1 /\ UNCHANGED <<countVars, thread, ringVars>>
    BY <1>6 DEF MinutePasses
  <2>2. \A t \in Threads : thread[t].stamp \in Nat
    BY <1>t, MetricsAssumption DEF ThreadType
  <2>3. \A k \in Rings : log[k].top \in Int
    BY DEF IInv, RingsTyped, LogType
  <2> QED
    BY <1>t, <2>1, <2>2, <2>3 DEF countVars, ringVars
<1>7. CASE UNCHANGED vars
  BY <1>7 DEF vars, countVars, ringVars
<1> QED
  BY <1>2, <1>3, <1>4, <1>5, <1>6, <1>7 DEF Next

-----------------------------------------------------------------------------
(* What a snapshot reads off.                                              *)
(* As many of s as of t among the first n, whatever the values.            *)
SameMakeup(s, t, n) ==
    \A K : Cardinality({i \in 1 .. n : s[i] \in K}) = Cardinality({i \in 1 .. n : t[i] \in K})

LEMMA SameCounts ==
  ASSUME NEW n \in Nat, NEW s, NEW t, IsRow(s, n), IsRow(t, n), SameMakeup(s, t, n),
         NEW v \in Nat
  PROVE  Occurrences(s, v) = Occurrences(t, v) /\ AtMost(s, v) = AtMost(t, v)
<1>1. /\ DOMAIN s = 1 .. n /\ DOMAIN t = 1 .. n
      /\ \A i \in 1 .. n : s[i] \in Nat /\ t[i] \in Nat
  BY DEF IsRow
<1> DEFINE K == {x \in Nat : x <= v}
<1>2. /\ {i \in DOMAIN s : s[i] = v} = {i \in 1 .. n : s[i] \in {v}}
      /\ {i \in DOMAIN t : t[i] = v} = {i \in 1 .. n : t[i] \in {v}}
  BY <1>1
<1>3. /\ {i \in DOMAIN s : s[i] <= v} = {i \in 1 .. n : s[i] \in K}
      /\ {i \in DOMAIN t : t[i] <= v} = {i \in 1 .. n : t[i] \in K}
  BY <1>1
<1> HIDE DEF K
<1>4. /\ Cardinality({i \in 1 .. n : s[i] \in {v}}) = Cardinality({i \in 1 .. n : t[i] \in {v}})
      /\ Cardinality({i \in 1 .. n : s[i] \in K}) = Cardinality({i \in 1 .. n : t[i] \in K})
  BY DEF SameMakeup
<1> QED
  BY <1>2, <1>3, <1>4 DEF Occurrences, AtMost

LEMMA TurnedMakeup ==
  ASSUME NEW next \in 0 .. Samples - 1, NEW s, NEW all, IsTurned(s, all, next)
  PROVE  SameMakeup(s, all, Samples)
  BY TurnedCounts DEF SameMakeup

LEMMA LatenciesMakeARow ==
  ASSUME NEW s \in Seq(Latencies)
  PROVE  s \in Seq(Nat) /\ Len(s) \in Nat /\ IsRow(s, Len(s))
<1>1. Latencies \subseteq Nat
  BY MetricsAssumption
<1>2. Len(s) \in Nat /\ DOMAIN s = 1 .. Len(s) /\ s \in [1 .. Len(s) -> Latencies]
  OBVIOUS
<1>3. \A i \in 1 .. Len(s) : s[i] \in Nat
  BY <1>1, <1>2
<1>4. s \in [1 .. Len(s) -> Nat]
  BY <1>2, <1>3
<1> QED
  BY <1>2, <1>3, <1>4 DEF IsRow

(* The samples of a ring, whichever way it stands, are the latest.         *)
LatestOf(all) ==
    SubSeq(all, (IF Len(all) > Samples THEN Len(all) - Samples ELSE 0) + 1, Len(all))

MakesUp(s, late, n) ==
    n \in Nat /\ IsRow(s, n) /\ IsRow(late, n) /\ Len(late) = n /\ SameMakeup(s, late, n)

LEMMA RecentMakeup ==
  ASSUME NEW lr \in LatencyType, NEW all \in Seq(Latencies), InTurn(lr, all)
  PROVE  MakesUp(lr.buf, LatestOf(all), Len(lr.buf))
<1> DEFINE late == LatestOf(all)
           n == Len(lr.buf)
<1>1. /\ Samples \in Nat \ {0} /\ Latencies \subseteq Nat
      /\ lr.buf \in Seq(Latencies) /\ lr.next \in 0 .. Samples - 1 /\ Len(all) \in Nat
  BY MetricsAssumption DEF LatencyType
<1>2. ASSUME NEW s \in Seq(Latencies) PROVE IsRow(s, Len(s)) /\ Len(s) \in Nat
  BY LatenciesMakeARow
<1>3. CASE Len(all) < Samples
  <2>1. lr.buf = all
    BY <1>3 DEF InTurn
  <2>2. late = SubSeq(all, 1, Len(all))
    <3>1. (IF Len(all) > Samples THEN Len(all) - Samples ELSE 0) + 1 = 1
      BY <1>1, <1>3
    <3> QED
      BY <3>1 DEF LatestOf
  <2>3. SubSeq(all, 1, Len(all)) = all
    OBVIOUS
  <2>4. late = lr.buf
    BY <2>1, <2>2, <2>3
  <2>5. SameMakeup(lr.buf, lr.buf, n)
    BY DEF SameMakeup
  <2> HIDE DEF late
  <2> QED
    BY <1>1, <1>2, <2>4, <2>5 DEF MakesUp, late
<1>4. CASE Len(all) >= Samples
  <2>1. PICK from \in Nat : from = Len(all) - Samples /\ Len(all) = from + Samples
    BY <1>1, <1>4
  <2>2. Len(lr.buf) = Samples
    BY <1>4 DEF InTurn
  <2>3. \A i \in 0 .. Samples - 1 : lr.buf[Turned(lr.next, i) + 1] = all[from + 1 + i]
    BY <1>4, <2>1 DEF InTurn
  <2>4. late = SubSeq(all, from + 1, Len(all))
    <3>1. (IF Len(all) > Samples THEN Len(all) - Samples ELSE 0) = from
      BY <1>1, <1>4, <2>1
    <3> QED
      BY <3>1 DEF LatestOf
  <2>5. /\ late \in Seq(Latencies) /\ Len(late) = Samples
        /\ \A i \in 1 .. Samples : late[i] = all[from + i]
    <3>1. from + 1 \in 1 .. Len(all) /\ Len(all) \in 1 .. Len(all)
      BY <1>1, <2>1
    <3>2. Len(all) - (from + 1) + 1 = Samples
      BY <1>1, <2>1
    <3>3. PICK sub : sub = SubSeq(all, from + 1, Len(all))
      OBVIOUS
    <3>4. sub \in Seq(Latencies)
      BY <3>1, <3>3
    <3>5. sub = [i \in 1 .. Samples |-> all[from + 1 + i - 1]]
      BY <3>2, <3>3
    <3>6. Len(sub) = Samples
      BY <1>1, <3>5
    <3>7. \A i \in 1 .. Samples : sub[i] = all[from + i]
      <4> SUFFICES ASSUME NEW i \in 1 .. Samples PROVE sub[i] = all[from + i]
        OBVIOUS
      <4>1. from + 1 + i - 1 = from + i
        BY <2>1
      <4> QED
        BY <3>5, <4>1
    <3> HIDE DEF late
    <3> QED
      BY <2>4, <3>3, <3>4, <3>6, <3>7
  <2>6. \A i \in 0 .. Samples - 1 : lr.buf[Turned(lr.next, i) + 1] = late[i + 1]
    <3> SUFFICES ASSUME NEW i \in 0 .. Samples - 1
                 PROVE  lr.buf[Turned(lr.next, i) + 1] = late[i + 1]
      OBVIOUS
    <3>1. i + 1 \in 1 .. Samples /\ from + (i + 1) = from + 1 + i
      BY <1>1, <2>1
    <3>2. late[i + 1] = all[from + (i + 1)]
      BY <2>5, <3>1
    <3> QED
      BY <2>3, <3>1, <3>2
  <2>7. SameMakeup(lr.buf, late, Samples)
    <3>1. IsTurned(lr.buf, late, lr.next)
      BY <2>6 DEF IsTurned
    <3> HIDE DEF late
    <3> QED
      BY <1>1, <3>1, TurnedMakeup
  <2> HIDE DEF late
  <2>8. IsRow(lr.buf, Samples) /\ IsRow(late, Samples) /\ Samples \in Nat
    BY <1>1, <1>2, <2>2, <2>5
  <2>9. MakesUp(lr.buf, late, Samples)
    BY <2>5, <2>7, <2>8 DEF MakesUp
  <2> QED
    BY <2>2, <2>9 DEF late
<1>5. Len(all) < Samples \/ Len(all) >= Samples
  BY <1>1
<1> QED
  BY <1>3, <1>4, <1>5

LEMMA PercentileOfRecent ==
  ASSUME RecentInv, NEW r \in Rules, Recent(r) # << >>, NEW p \in {50, 95}
  PROVE  NearestRank(Recent(r), p, Percentile(latency[r].buf, p))
<1>1. PICK late : late = LatestOf(took[r])
  OBVIOUS
<1>2. PICK lr \in LatencyType : lr = latency[r]
  BY DEF RecentInv
<1>3. PICK n : n = Len(lr.buf)
  OBVIOUS
<1>0. late = Recent(r)
  BY <1>1 DEF LatestOf, Recent
<1>4. /\ n \in Nat /\ IsRow(lr.buf, n) /\ IsRow(late, n) /\ Len(late) = n
      /\ SameMakeup(lr.buf, late, n)
  <2>1. took[r] \in Seq(Latencies) /\ InTurn(lr, took[r])
    BY <1>2 DEF RecentInv
  <2>2. MakesUp(lr.buf, LatestOf(took[r]), Len(lr.buf))
    BY <2>1, RecentMakeup
  <2> QED
    BY <1>1, <1>3, <2>2 DEF MakesUp
<1>5. lr.buf \in Seq(Nat)
  <2>1. lr.buf \in Seq(Latencies)
    BY DEF LatencyType
  <2> QED
    BY <2>1, LatenciesMakeARow
<1>6. n \in Nat \ {0}
  <2>1. took[r] \in Seq(Latencies)
    BY DEF RecentInv
  <2>2. late \in Seq(Latencies)
    <3> DEFINE from == (IF Len(took[r]) > Samples THEN Len(took[r]) - Samples ELSE 0) + 1
    <3>1. late = SubSeq(took[r], from, Len(took[r]))
      BY <1>1 DEF LatestOf
    <3>2. from \in 1 .. Len(took[r]) + 1
      BY <2>1, MetricsAssumption
    <3> HIDE DEF from
    <3> QED
      BY <2>1, <3>1, <3>2
  <2> QED
    BY <1>0, <1>4, <2>2
<1> DEFINE v == Percentile(lr.buf, p)
<1>7. v \in Nat /\ NearestRank(lr.buf, p, v)
  BY <1>3, <1>5, <1>6, PercentileIsNearest
<1> HIDE DEF v
<1>8. Occurrences(lr.buf, v) = Occurrences(late, v) /\ AtMost(lr.buf, v) = AtMost(late, v)
  BY <1>4, <1>7, SameCounts
<1>9. NearestRank(late, p, v)
  BY <1>3, <1>4, <1>7, <1>8 DEF NearestRank
<1> QED
  BY <1>0, <1>2, <1>9 DEF v

LEMMA RateOfLatest ==
  ASSUME IInv, HistoryInv, RecentInv, Slots > 1, NEW r \in Rules, log[r].late = 0,
         NEW m \in HitMinutes(r, minute), \A n \in HitMinutes(r, minute) : n <= m
  PROVE  LastCompleted(ring[r], minute) = log[r].given[m]
<1> DEFINE h == ring[r]
           g == log[r]
<1>1. /\ r \in Rings /\ h \in RingType /\ g \in LogType
      /\ minute \in 0 .. MaxMinutes /\ MaxMinutes \in Nat /\ Slots \in Nat
  BY MetricsAssumption DEF IInv, RingsTyped, Rings
<1>2. /\ Paid(h, g) /\ Met(g) /\ Held(h, g) /\ Sharp(h, g) /\ g.top <= minute
  BY <1>1 DEF HistoryInv, RecentInv
<1>3. /\ g.given \in [0 .. MaxMinutes -> Nat] /\ g.top \in Int /\ g.late = 0
      /\ h.slots \in [0 .. Slots - 1 -> Place]
  BY <1>1 DEF LogType, RingType
<1>4. /\ m \in 0 .. minute - 1 /\ m \in 0 .. MaxMinutes /\ g.given[m] > 0
      /\ \A n \in 0 .. minute - 1 : g.given[n] > 0 => n <= m
  BY <1>1 DEF HitMinutes
<1>h. LastCompleted(ring[r], minute) = LastCompleted(h, minute) /\ log[r].given[m] = g.given[m]
  OBVIOUS
<1> HIDE DEF h, g
<1>5. Spent(g, m) < Slots
  <2>1. Newer(g, m) \subseteq {minute}
    <3> SUFFICES ASSUME NEW n \in m + 1 .. MaxMinutes, g.given[n] > 0 PROVE n = minute
      BY DEF Newer
    <3>1. n \in 0 .. MaxMinutes /\ n <= g.top
      BY <1>1, <1>2, <1>4 DEF Met
    <3>2. n <= minute
      BY <1>1, <1>2, <1>3, <3>1
    <3>3. n \notin 0 .. minute - 1
      BY <1>1, <1>4
    <3> QED
      BY <1>1, <3>1, <3>2, <3>3
  <2>2. IsFiniteSet({minute}) /\ Cardinality({minute}) = 1
    BY FS_Singleton
  <2>3. Newer(g, m) \in SUBSET {minute}
    BY <2>1
  <2>4. Cardinality(Newer(g, m)) <= 1 /\ Cardinality(Newer(g, m)) \in Nat
    BY <2>2, <2>3, FS_Subset, FS_CardinalityType
  <2> QED
    BY <1>1, <1>3, <2>4 DEF Spent
<1> DEFINE w == Counts(h, m)
<1>6. \A i \in 1 .. Slots : /\ w[i] = IF h.slots[i - 1].ts = m THEN h.slots[i - 1].count ELSE 0
                            /\ w[i] \in Nat
  <2> SUFFICES ASSUME NEW i \in 1 .. Slots
               PROVE  /\ w[i] = IF h.slots[i - 1].ts = m THEN h.slots[i - 1].count ELSE 0
                      /\ w[i] \in Nat
    OBVIOUS
  <2>1. i - 1 \in 0 .. Slots - 1
    BY <1>1
  <2>2. h.slots[i - 1].count \in Nat
    BY <1>3, <2>1 DEF Place
  <2> QED
    BY <2>2 DEF Counts
<1> HIDE DEF w
<1>7. PICK sum : SumsUp(sum, w, Slots)
  BY <1>1, <1>6, SumExists
<1>8. sum[Slots] = g.given[m]
  BY <1>2, <1>4, <1>5, <1>7 DEF Held, w
<1>9. PICK p \in 0 .. Slots - 1 : h.slots[p].ts = m
  <2>1. ASSUME \A p \in 0 .. Slots - 1 : h.slots[p].ts # m PROVE FALSE
    <3>1. \A i \in 1 .. Slots : w[i] = 0
      <4> SUFFICES ASSUME NEW i \in 1 .. Slots PROVE w[i] = 0
        OBVIOUS
      <4>1. i - 1 \in 0 .. Slots - 1
        BY <1>1
      <4> QED
        BY <1>6, <2>1, <4>1
    <3>2. sum[Slots] = 0
      BY <1>1, <1>7, <3>1, SumOfNothing
    <3> QED
      BY <1>4, <1>8, <3>2
  <2> QED
    BY <2>1
<1>10. m # NoMinute
  BY <1>4 DEF NoMinute
<1>11. \A i \in 0 .. Slots - 1 : h.slots[i].ts = m => i = p
  BY <1>2, <1>3, <1>9, <1>10 DEF Sharp
<1>12. h.slots[p].count = g.given[m]
  <2>1. PICK q \in 1 .. Slots : q = p + 1 /\ q - 1 = p
    BY <1>1
  <2>2. w[q] = h.slots[p].count /\ w[q] \in Nat
    BY <1>6, <1>9, <2>1
  <2>3. \A i \in 1 .. Slots : i # q => w[i] = 0
    <3> SUFFICES ASSUME NEW i \in 1 .. Slots, i # q PROVE w[i] = 0
      OBVIOUS
    <3>1. i - 1 \in 0 .. Slots - 1 /\ i - 1 # p
      BY <1>1, <2>1
    <3> QED
      BY <1>6, <1>11, <3>1
  <2>4. sum[Slots] = w[q]
    BY <1>1, <1>7, <2>2, <2>3, SumOfOne
  <2> QED
    BY <1>8, <2>2, <2>4
<1> DEFINE done == {i \in Used(h) : h.slots[i].ts < minute}
           latest == {i \in done : \A j \in done : h.slots[j].ts <= h.slots[i].ts}
<1>13. \A i : i \in done <=> /\ i \in 0 .. Slots - 1 /\ h.slots[i].ts # NoMinute
                             /\ h.slots[i].ts < minute
  BY <1>3 DEF Used
<1> HIDE DEF done
<1>14. p \in done
  BY <1>1, <1>4, <1>9, <1>10, <1>13
<1>15. ASSUME NEW j \in done PROVE h.slots[j].ts <= m
  <2>1. /\ j \in 0 .. Slots - 1 /\ h.slots[j].ts # NoMinute /\ h.slots[j].ts < minute
    BY <1>13
  <2>2. h.slots[j].ts \in 0 .. MaxMinutes /\ g.given[h.slots[j].ts] > 0
    BY <1>2, <2>1 DEF Paid, Sharp
  <2>3. h.slots[j].ts \in 0 .. minute - 1
    BY <1>1, <2>1, <2>2
  <2> QED
    BY <1>4, <2>2, <2>3
<1>16. latest = {p}
  <2>1. p \in latest
    BY <1>9, <1>14, <1>15
  <2>2. ASSUME NEW i \in latest PROVE i = p
    <3>1. i \in done /\ i \in 0 .. Slots - 1 /\ m <= h.slots[i].ts
      BY <1>9, <1>13, <1>14
    <3>2. h.slots[i].ts <= m
      BY <1>15, <3>1
    <3>3. h.slots[i].ts \in Int
      BY <1>3, <3>1 DEF Place
    <3>4. h.slots[i].ts = m
      BY <1>4, <3>1, <3>2, <3>3
    <3> QED
      BY <1>11, <3>1, <3>4
  <2> QED
    BY <2>1, <2>2
<1> HIDE DEF latest
<1>17. LastCompleted(h, minute) = h.slots[CHOOSE i \in latest : \A j \in latest : i <= j].count
  <2>1. LastCompleted(h, minute) =
            IF done = {} THEN 0
            ELSE h.slots[CHOOSE i \in latest : \A j \in latest : i <= j].count
    BY DEF LastCompleted, done, latest
  <2> QED
    BY <1>14, <2>1
<1>18. (CHOOSE i \in latest : \A j \in latest : i <= j) = p
  <2>1. p <= p
    BY <1>1
  <2> QED
    BY <1>16, <2>1
<1> QED
  BY <1>12, <1>17, <1>18, <1>h

(* For any number of threads, samples, places and minutes: a snapshot has  *)
(* the percentiles of the latest latencies, by nearest rank, however the   *)
(* ring of samples has turned; and, with a place for the minute under way  *)
(* beside the one before, the rate of the latest complete minute that had  *)
(* a hit, unless a stamp came late (latencyRing, percentile, Snapshot).    *)
THEOREM SnapshotCorrect == Slots > 1 => (Spec => []SnapshotReportsRecent)
<1> SUFFICES ASSUME Slots > 1 PROVE Spec => []SnapshotReportsRecent
  OBVIOUS
<1>1. IInv /\ HistoryInv /\ RecentInv => SnapshotReportsRecent
  <2> SUFFICES ASSUME IInv, HistoryInv, RecentInv PROVE SnapshotReportsRecent
    OBVIOUS
  <2>1. ASSUME NEW r \in Rules, Recent(r) # << >>
        PROVE  /\ NearestRank(Recent(r), 50, Snapshot(r, minute).p50)
               /\ NearestRank(Recent(r), 95, Snapshot(r, minute).p95)
    <3>1. /\ Snapshot(r, minute).p50 = Percentile(latency[r].buf, 50)
          /\ Snapshot(r, minute).p95 = Percentile(latency[r].buf, 95)
      BY DEF Snapshot
    <3>2. /\ NearestRank(Recent(r), 50, Percentile(latency[r].buf, 50))
          /\ NearestRank(Recent(r), 95, Percentile(latency[r].buf, 95))
      BY <2>1, PercentileOfRecent
    <3> QED
      BY <3>1, <3>2
  <2>2. ASSUME NEW r \in Rules, log[r].late = 0, NEW m \in HitMinutes(r, minute),
               \A n \in HitMinutes(r, minute) : n <= m
        PROVE  Snapshot(r, minute).rate = log[r].given[m]
    <3>1. Snapshot(r, minute).rate = LastCompleted(ring[r], minute)
      BY DEF Snapshot
    <3>2. LastCompleted(ring[r], minute) = log[r].given[m]
      BY <2>2, RateOfLatest
    <3> QED
      BY <3>1, <3>2
  <2> QED
    BY <2>1, <2>2 DEF SnapshotReportsRecent
<1> QED
  BY <1>1, InvInit, InvStep, HistoryInit, HistoryStep, RecentInit, RecentStep, PTL DEF Spec
=============================================================================
