------------------------- MODULE ConfigReload_proofs -------------------------
(***************************************************************************)
(* Proofs about ConfigReload, for any pods, writers and bounds, any number *)
(* of failed bumps, failed rebuilds and crashes.                           *)
(***************************************************************************)
EXTENDS ConfigReload, TLAPS

USE DEF NeverReloaded, Table

-----------------------------------------------------------------------------
(* Which thread is whose. *)
LEMMA Threads ==
  /\ \A p \in Pods : ReloaderOf(p) \in Thread /\ ReloaderOf(p)[1] = p
  /\ \A h \in Handler : h \in Thread /\ h[1] \in Writers
  /\ \A h \in Handler, p \in Pods : h # ReloaderOf(p)
  /\ \A th \in Thread : th[1] \in Pods
  /\ \A th \in Thread : th[1] \in Readers => th = ReloaderOf(th[1])
BY ReloadAssumption DEF Thread, Handler, ReloaderOf, Readers

(* The initial revisions, and those a read may answer, are revisions. *)
LEMMA ReadableIsPast ==
  ASSUME NEW n \in 0 .. MaxWrites
  PROVE  Readable(n) \subseteq 0 .. n
BY ReloadAssumption DEF Readable

LEMMA EnterTypes ==
  ASSUME TypeOK, NEW threads,
         NEW location \in {"down", "idle", "bump", "read"}, Enter(threads, location)
  PROVE  /\ at' \in [Thread -> {"down", "idle", "bump", "read"}]
         /\ got' \in [Thread -> 0 .. 2]
         /\ snap' \in [Thread -> [Table -> -1 .. MaxWrites]]
<1>1. Unloaded \in [Table -> -1 .. MaxWrites]
  BY ReloadAssumption DEF Unloaded
<1> QED
  BY <1>1 DEF TypeOK, Enter

(* A step of a rebuild reads the rules first, and then what they refer to. *)
NextTable(th) == IF got[th] = 0 THEN "rules" ELSE "refs"

LEMMA ReadTableReads ==
  ASSUME TypeOK, NEW th \in Thread, ReadTable(th)
  PROVE  /\ NextTable(th) \in Table
         /\ \E n \in Readable(data[NextTable(th)]) :
                n \in 0 .. MaxWrites /\ snap' = [snap EXCEPT ![th][NextTable(th)] = n]
<1>1. got[th] \in {0, 1}
  BY DEF ReadTable, TypeOK
<1>2. Tables[got[th] + 1] = NextTable(th)
  BY <1>1 DEF Tables, NextTable
<1>3. data[NextTable(th)] \in 0 .. MaxWrites
  BY DEF TypeOK, NextTable
<1>4. PICK n \in Readable(data[NextTable(th)]) : snap' = [snap EXCEPT ![th][NextTable(th)] = n]
  BY <1>2, Zenon DEF ReadTable
<1>5. n \in 0 .. MaxWrites
  BY <1>3, <1>4, ReadableIsPast, ReloadAssumption
<1> QED
  BY <1>4, <1>5 DEF NextTable

LEMMA TypeInit == Init => TypeOK
<1> SUFFICES ASSUME Init PROVE TypeOK
  OBVIOUS
<1>1. Unloaded \in [Table -> -1 .. MaxWrites]
  BY ReloadAssumption DEF Unloaded
<1>2. data \in [Table -> 0 .. MaxWrites] /\ marked \in [Table -> 0 .. MaxWrites]
  BY ReloadAssumption DEF Init
<1> QED
  BY <1>1, <1>2, ReloadAssumption DEF Init, TypeOK

LEMMA TypeStep == TypeOK /\ [Next]_vars => TypeOK'
<1> SUFFICES ASSUME TypeOK, [Next]_vars PROVE TypeOK'
  OBVIOUS
<1> USE ReloadAssumption DEF storeVars, reloaderVars, boundVars
<1>1. ASSUME NEW h \in Handler, NEW t \in Table, WriteData(h, t) PROVE TypeOK'
  <2>1. data' \in [Table -> 0 .. MaxWrites]
    BY <1>1 DEF WriteData, TypeOK
  <2>2. refsAt' \in [0 .. MaxWrites -> 0 .. MaxWrites]
    BY <1>1 DEF WriteData, TypeOK
  <2> QED
    BY <1>1, <2>1, <2>2, EnterTypes DEF WriteData, TypeOK
<1>2. ASSUME NEW h \in Handler, BumpVersion(h) PROVE TypeOK'
  <2>1. /\ at' \in [Thread -> {"down", "idle", "bump", "read"}]
        /\ got' \in [Thread -> 0 .. 2] /\ snap' \in [Thread -> [Table -> -1 .. MaxWrites]]
    BY <1>2, EnterTypes DEF BumpVersion
  <2>2. version' \in Nat /\ marked' \in [Table -> 0 .. MaxWrites]
    BY <1>2 DEF BumpVersion, TypeOK
  <2> QED
    BY <1>2, <2>1, <2>2 DEF BumpVersion, TypeOK
<1>3. ASSUME NEW h \in Handler, BumpFails(h) PROVE TypeOK'
  BY <1>3, EnterTypes DEF BumpFails, TypeOK
<1>4. ASSUME NEW h \in Handler, RequestReload(h) PROVE TypeOK'
  BY <1>4, EnterTypes DEF RequestReload, TypeOK
<1>5. ASSUME NEW p \in Pods, Poll(p) PROVE TypeOK'
  <2>1. seen' \in [Pods -> Int]
    BY <1>5 DEF Poll, Readable, TypeOK
  <2> QED
    BY <1>5, <2>1, EnterTypes DEF Poll, TypeOK
<1>6. ASSUME NEW th \in Thread, ReadTable(th) PROVE TypeOK'
  <2>1. PICK n \in 0 .. MaxWrites : snap' = [snap EXCEPT ![th][NextTable(th)] = n]
    BY <1>6, ReadTableReads
  <2>2. snap' \in [Thread -> [Table -> -1 .. MaxWrites]]
    <3>1. NextTable(th) \in Table /\ snap \in [Thread -> [Table -> -1 .. MaxWrites]]
      BY <1>6, ReadTableReads DEF TypeOK
    <3>2. n \in -1 .. MaxWrites
      BY <2>1
    <3>3. [snap[th] EXCEPT ![NextTable(th)] = n] \in [Table -> -1 .. MaxWrites]
      BY <3>1, <3>2
    <3>4. snap' = [snap EXCEPT ![th] = [snap[th] EXCEPT ![NextTable(th)] = n]]
      BY <2>1, <3>1
    <3> QED
      BY <3>1, <3>3, <3>4
  <2>3. got' \in [Thread -> 0 .. 2]
    <3>1. got \in [Thread -> 0 .. 2] /\ got[th] < 2 /\ got' = [got EXCEPT ![th] = @ + 1]
      BY <1>6 DEF ReadTable, TypeOK
    <3> QED
      BY <3>1
  <2> QED
    BY <1>6, <2>2, <2>3 DEF ReadTable, TypeOK
<1>7. ASSUME NEW th \in Thread, RebuildFails(th) PROVE TypeOK'
  <2>1. failures' \in Nat
    BY <1>7 DEF RebuildFails, TypeOK
  <2>2. CASE Up(th[1])
    BY <1>7, <2>1, <2>2, EnterTypes DEF RebuildFails, TypeOK
  <2>3. CASE ~Up(th[1])
    BY <1>7, <2>1, <2>3, EnterTypes DEF RebuildFails, TypeOK
  <2> QED
    BY <2>2, <2>3
<1>8. ASSUME NEW th \in Thread, Swap(th) PROVE TypeOK'
  <2>1. th[1] \in Pods
    BY Threads
  <2>2. served' \in [Pods -> [Table -> -1 .. MaxWrites]] /\ last' \in [Pods -> Int]
    BY <1>8, <2>1 DEF Swap, TypeOK
  <2> QED
    BY <1>8, <2>2, EnterTypes DEF Swap, TypeOK
<1>9. ASSUME NEW p \in Pods, Start(p) PROVE TypeOK'
  <2>1. seen' \in [Pods -> Int]
    BY <1>9 DEF Start, TypeOK
  <2> QED
    BY <1>9, <2>1, EnterTypes DEF Start, TypeOK
<1>10. ASSUME NEW p \in Pods, Crash(p) PROVE TypeOK'
  <2>1. Unloaded \in [Table -> -1 .. MaxWrites]
    BY DEF Unloaded
  <2>2. /\ served' \in [Pods -> [Table -> -1 .. MaxWrites]]
        /\ last' \in [Pods -> Int]
        /\ crashes' \in Nat
    BY <1>10, <2>1 DEF Crash, TypeOK
  <2> QED
    BY <1>10, <2>2, EnterTypes DEF Crash, TypeOK
<1>11. CASE UNCHANGED vars
  BY <1>11 DEF vars, threadVars, TypeOK
<1> QED
  BY <1>1, <1>2, <1>3, <1>4, <1>5, <1>6, <1>7, <1>8, <1>9, <1>10, <1>11 DEF Next

(* Every reachable state has the types of the code's fields. *)
THEOREM TypeCorrect == Spec => []TypeOK
BY TypeInit, TypeStep, PTL DEF Spec

-----------------------------------------------------------------------------
(* What a step changes of a thread it is not a step of. *)
LEMMA EnterKeepsOthers ==
  ASSUME TypeOK, NEW threads, NEW location, Enter(threads, location),
         NEW th \in Thread, th \notin threads
  PROVE  at'[th] = at[th] /\ got'[th] = got[th] /\ snap'[th] = snap[th]
BY DEF Enter

LEMMA EnterResets ==
  ASSUME TypeOK, NEW threads, NEW location, Enter(threads, location),
         NEW th \in Thread, th \in threads
  PROVE  at'[th] = location /\ got'[th] = 0 /\ snap'[th] = Unloaded
BY DEF Enter

(* The table t has been read by the rebuild of th. *)
HasRead(th, t) == got[th] >= (IF t = "rules" THEN 1 ELSE 2)

(* A consistent read adds the current revision of one table to what the    *)
(* rebuild has read.                                                       *)
LEMMA ConsistentRead ==
  ASSUME TypeOK, ~ReadsLag, NEW th \in Thread, ReadTable(th)
  PROVE  \A t \in Table :
            HasRead(th, t)' => \/ HasRead(th, t) /\ snap'[th][t] = snap[th][t]
                               \/ snap'[th][t] = data[t]
<1>1. PICK n \in Readable(data[NextTable(th)]) :
          n \in 0 .. MaxWrites /\ snap' = [snap EXCEPT ![th][NextTable(th)] = n]
  BY ReadTableReads
<1>2. n = data[NextTable(th)]
  BY <1>1 DEF Readable
<1>3. got[th] \in {0, 1} /\ got'[th] = got[th] + 1
  BY DEF ReadTable, TypeOK
<1>4. snap[th] \in [Table -> -1 .. MaxWrites]
  BY DEF TypeOK
<1>5. snap'[th] = [snap[th] EXCEPT ![NextTable(th)] = data[NextTable(th)]]
  BY <1>1, <1>2 DEF TypeOK
<1>6. CASE got[th] = 0
  BY <1>3, <1>4, <1>5, <1>6 DEF HasRead, NextTable
<1>7. CASE got[th] = 1
  BY <1>3, <1>4, <1>5, <1>7 DEF HasRead, NextTable
<1> QED
  BY <1>3, <1>6, <1>7

(* A rebuild that is swapped in has read every table. *)
LEMMA SwapHasRead ==
  ASSUME TypeOK, NEW th \in Thread, Swap(th)
  PROVE  /\ at[th] = "read" /\ \A t \in Table : HasRead(th, t)
         /\ served'[th[1]] = snap[th]
         /\ \A p \in Pods : p # th[1] => served'[p] = served[p]
<1>1. th[1] \in Pods /\ served' = [served EXCEPT ![th[1]] = snap[th]]
  BY Threads DEF Swap
<1>2. at[th] = "read" /\ got[th] = 2
  BY DEF Swap
<1> QED
  BY <1>1, <1>2 DEF HasRead, TypeOK

-----------------------------------------------------------------------------
(* A reader that has caught up is fresh.  What makes it inductive is what  *)
(* its reloader has read so far: nothing older than the bump it saw.       *)

(* The data is written before the bump, and versions only grow. *)
BumpedLast ==
  /\ Covers(data, marked)
  /\ \A p \in Pods : seen[p] <= version /\ last[p] <= version

(* What the reloader of p reads, or serves, for the current version covers *)
(* that version's writes; it only rebuilds when it has not caught up. *)
FreshAt(p) ==
  LET th == ReloaderOf(p)
  IN  /\ at[th] # "idle" => last[p] # version
      /\ at[th] = "read" /\ seen[p] = version =>
             \A t \in Table : HasRead(th, t) => snap[th][t] >= marked[t]
      /\ at[th] = "idle" /\ last[p] = version => Covers(served[p], marked)

FreshInv == TypeOK /\ BumpedLast /\ \A p \in Readers : FreshAt(p)

LEMMA FreshInit == Init => FreshInv
<1> SUFFICES ASSUME Init PROVE FreshInv
  OBVIOUS
<1>1. BumpedLast
  BY DEF Init, BumpedLast, Covers
<1>2. \A p \in Readers : at[ReloaderOf(p)] = "down" /\ last[p] # version
  <2> SUFFICES ASSUME NEW p \in Readers
               PROVE  at[ReloaderOf(p)] = "down" /\ last[p] # version
    OBVIOUS
  <2>1. p \in Pods /\ ReloaderOf(p) \in Thread
    BY Threads DEF Readers
  <2>2. at[ReloaderOf(p)] = "down"
    BY <2>1 DEF Init
  <2>3. last[p] = -1 /\ version = 0
    BY <2>1 DEF Init
  <2> QED
    BY <2>2, <2>3
<1> QED
  BY <1>1, <1>2, TypeInit DEF FreshInv, FreshAt

LEMMA BumpedLastStep == TypeOK /\ BumpedLast /\ [Next]_vars => BumpedLast'
<1> SUFFICES ASSUME TypeOK, BumpedLast, [Next]_vars PROVE BumpedLast'
  OBVIOUS
<1>0. version \in Nat /\ \A p \in Pods : seen[p] \in Int /\ last[p] \in Int
  BY DEF TypeOK
<1>t. \A t \in Table : data[t] \in 0 .. MaxWrites /\ marked[t] \in 0 .. MaxWrites
  BY DEF TypeOK
<1> USE ReloadAssumption DEF storeVars, reloaderVars, boundVars
<1>1. ASSUME NEW h \in Handler, NEW t \in Table, WriteData(h, t) PROVE BumpedLast'
  BY <1>1, <1>t DEF WriteData, BumpedLast, Covers, TypeOK
<1>2. ASSUME NEW h \in Handler, BumpVersion(h) PROVE BumpedLast'
  BY <1>0, <1>2, <1>t DEF BumpVersion, BumpedLast, Covers
<1>3. ASSUME NEW p \in Pods, Poll(p) PROVE BumpedLast'
  <2>1. PICK v \in Readable(version) : seen' = [seen EXCEPT ![p] = v]
    BY <1>3 DEF Poll
  <2>2. v <= version
    BY <1>0, <2>1 DEF Readable
  <2> QED
    BY <1>3, <2>1, <2>2 DEF Poll, BumpedLast, Covers, TypeOK
<1>4. ASSUME NEW th \in Thread, Swap(th) PROVE BumpedLast'
  <2>1. \A p \in Pods : last'[p] \in {last[p], seen[p]}
    BY <1>4 DEF Swap, TypeOK
  <2> QED
    BY <1>4, <2>1 DEF Swap, BumpedLast, Covers
<1>5. ASSUME NEW p \in Pods, Start(p) PROVE BumpedLast'
  <2>1. \A q \in Pods : seen'[q] \in {seen[q], -1}
    BY <1>5 DEF Start, TypeOK
  <2> QED
    BY <1>0, <1>5, <2>1 DEF Start, BumpedLast, Covers
<1>6. ASSUME NEW p \in Pods, Crash(p) PROVE BumpedLast'
  <2>1. \A q \in Pods : last'[q] \in {last[q], -1}
    BY <1>6 DEF Crash, TypeOK
  <2> QED
    BY <1>0, <1>6, <2>1 DEF Crash, BumpedLast, Covers
<1>7. ASSUME UNCHANGED <<data, version, marked, seen, last>> PROVE BumpedLast'
  BY <1>7 DEF BumpedLast, Covers
<1>8. ASSUME NEW h \in Handler, BumpFails(h) \/ RequestReload(h) PROVE BumpedLast'
  BY <1>7, <1>8 DEF BumpFails, RequestReload
<1>9. ASSUME NEW th \in Thread, ReadTable(th) \/ RebuildFails(th) PROVE BumpedLast'
  BY <1>7, <1>9 DEF ReadTable, RebuildFails
<1> QED
  BY <1>1, <1>2, <1>3, <1>4, <1>5, <1>6, <1>7, <1>8, <1>9 DEF Next, vars

LEMMA FreshStep == FreshInv /\ [Next]_vars /\ ~ReadsLag => FreshInv'
<1> SUFFICES ASSUME FreshInv, [Next]_vars, ~ReadsLag, NEW p \in Readers
             PROVE  FreshAt(p)'
  BY TypeStep, BumpedLastStep DEF FreshInv, Readers
<1> DEFINE own == ReloaderOf(p)
<1>a. TypeOK /\ BumpedLast /\ FreshAt(p)
  BY DEF FreshInv
<1>b. p \in Pods /\ own \in Thread /\ own[1] = p
  BY Threads DEF Readers
<1>c. /\ version \in Nat /\ seen[p] \in Int /\ last[p] \in Int
      /\ seen[p] <= version /\ last[p] <= version
  BY <1>a, <1>b DEF TypeOK, BumpedLast
<1>d. \A h \in Handler : h # own /\ h \in Thread /\ h[1] # p
  BY <1>b, Threads DEF Readers
<1>e. ASSUME UNCHANGED <<at[own], got[own], snap[own], version, marked, seen[p], last[p], served[p]>>
      PROVE  FreshAt(p)'
  BY <1>a, <1>e DEF FreshAt, HasRead, Covers
<1> HIDE DEF own
<1> USE DEF storeVars, reloaderVars, boundVars
<1>1. ASSUME NEW h \in Handler, NEW t \in Table, WriteData(h, t) PROVE FreshAt(p)'
  BY <1>1, <1>a, <1>b, <1>d, <1>e, EnterKeepsOthers DEF WriteData
<1>2. ASSUME NEW h \in Handler, BumpVersion(h) PROVE FreshAt(p)'
  BY <1>2, <1>c DEF BumpVersion, FreshAt
<1>3. ASSUME NEW h \in Handler, BumpFails(h) \/ RequestReload(h) PROVE FreshAt(p)'
  BY <1>3, <1>a, <1>b, <1>d, <1>e, EnterKeepsOthers DEF BumpFails, RequestReload
<1>4. ASSUME NEW q \in Pods, Poll(q) PROVE FreshAt(p)'
  <2>1. CASE q = p
    <3>1. at'[own] = "read" /\ got'[own] = 0
      BY <1>4, <2>1, <1>a, <1>b, EnterResets DEF Poll, own
    <3>2. last'[p] # version'
      BY <1>4, <2>1 DEF Poll, Readable
    <3> QED
      BY <3>1, <3>2 DEF FreshAt, HasRead, own
  <2>2. CASE q # p
    <3>1. ReloaderOf(q) # own
      BY <2>2 DEF ReloaderOf, own
    <3>2. UNCHANGED <<at[own], got[own], snap[own]>>
      BY <1>4, <3>1, <1>a, <1>b, EnterKeepsOthers DEF Poll
    <3>3. UNCHANGED <<version, marked, seen[p], last[p], served[p]>>
      BY <1>4, <2>2, <1>a, <1>b DEF Poll, TypeOK
    <3> QED
      BY <3>2, <3>3, <1>e
  <2> QED
    BY <2>1, <2>2
<1>5. ASSUME NEW th \in Thread, ReadTable(th) PROVE FreshAt(p)'
  <2>1. CASE th = own
    <3>1. /\ at[own] = "read" /\ at' = at
          /\ UNCHANGED <<version, seen, last, marked, data>>
      BY <1>5, <2>1 DEF ReadTable
    <3>2. \A t \in Table : data[t] >= marked[t]
      BY <1>a DEF BumpedLast, Covers
    <3>3. \A t \in Table : HasRead(own, t)' =>
              \/ HasRead(own, t) /\ snap'[own][t] = snap[own][t]
              \/ snap'[own][t] = data[t]
      BY <1>5, <2>1, <1>a, <1>b, ConsistentRead
    <3> QED
      BY <3>1, <3>2, <3>3, <1>a DEF FreshAt, own
  <2>2. CASE th # own
    BY <1>5, <2>2, <1>b, <1>e DEF ReadTable
  <2> QED
    BY <2>1, <2>2
<1>6. ASSUME NEW th \in Thread, RebuildFails(th) PROVE FreshAt(p)'
  <2>1. CASE th = own
    <3>1. at[own] = "read" /\ at'[own] = IF Up(p) THEN "idle" ELSE "down"
      BY <1>6, <2>1, <1>a, <1>b, EnterResets DEF RebuildFails
    <3>2. UNCHANGED <<version, marked, seen, last, served>>
      BY <1>6 DEF RebuildFails
    <3>3. last[p] # version
      BY <3>1, <1>a DEF FreshAt, own
    <3> QED
      BY <3>1, <3>2, <3>3 DEF FreshAt, own
  <2>2. CASE th # own
    BY <1>6, <2>2, <1>a, <1>b, <1>e, EnterKeepsOthers DEF RebuildFails
  <2> QED
    BY <2>1, <2>2
<1>7. ASSUME NEW th \in Thread, Swap(th) PROVE FreshAt(p)'
  <2>1. CASE th = own
    <3>1. /\ at'[own] = "idle" /\ last'[p] = seen[p]
          /\ UNCHANGED <<version, marked>>
      <4>1. own \in IF Up(p) THEN {own} ELSE ThreadsOf(p)
        BY <1>b DEF ThreadsOf
      <4>2. Enter(IF Up(p) THEN {own} ELSE ThreadsOf(p), "idle")
        BY <1>7, <2>1, <1>b DEF Swap
      <4>3. at'[own] = "idle"
        BY <4>1, <4>2, <1>b DEF Enter
      <4>4. last' = [last EXCEPT ![p] = seen[p]]
        BY <1>7, <2>1, <1>b DEF Swap, own
      <4> QED
        BY <4>3, <4>4, <1>7, <1>a, <1>b DEF Swap, TypeOK
    <3>2. /\ served'[p] = snap[own] /\ at[own] = "read"
          /\ \A t \in Table : HasRead(own, t)
      BY <1>7, <2>1, <1>a, <1>b, SwapHasRead
    <3>3. seen[p] = version => Covers(snap[own], marked)
      BY <3>2, <1>a DEF FreshAt, Covers, own
    <3> QED
      BY <3>1, <3>2, <3>3 DEF FreshAt, own
  <2>2. CASE th # own
    <3>1. th[1] # p /\ th[1] \in Pods
      BY <2>2, <1>b, Threads DEF own
    <3>2. UNCHANGED <<at[own], got[own], snap[own]>>
      <4>1. own \notin IF Up(th[1]) THEN {th} ELSE ThreadsOf(th[1])
        BY <2>2, <3>1, <1>b DEF ThreadsOf
      <4> QED
        BY <4>1, <1>7, <1>b DEF Swap, Enter
    <3>3. UNCHANGED <<version, marked, seen[p], last[p], served[p]>>
      <4>1. last'[p] = last[p] /\ served'[p] = served[p]
        BY <1>7, <3>1, <1>a, <1>b DEF Swap, TypeOK
      <4> QED
        BY <1>7, <4>1 DEF Swap
    <3> QED
      BY <3>2, <3>3, <1>e
  <2> QED
    BY <2>1, <2>2
<1>8. ASSUME NEW q \in Pods, Start(q) PROVE FreshAt(p)'
  <2>1. CASE q = p
    <3>1. at[own] = "down" /\ at'[own] = "read" /\ got'[own] = 0
      BY <1>8, <2>1, <1>a, <1>b, EnterResets DEF Start, own
    <3>2. last'[p] # version'
      BY <1>8, <3>1, <1>a DEF Start, FreshAt, own
    <3> QED
      BY <3>1, <3>2 DEF FreshAt, HasRead, own
  <2>2. CASE q # p
    <3>1. ReloaderOf(q) # own
      BY <2>2 DEF ReloaderOf, own
    <3>2. UNCHANGED <<at[own], got[own], snap[own]>>
      BY <1>8, <3>1, <1>a, <1>b, EnterKeepsOthers DEF Start
    <3>3. UNCHANGED <<version, marked, seen[p], last[p], served[p]>>
      BY <1>8, <2>2, <1>a, <1>b DEF Start, TypeOK
    <3> QED
      BY <3>2, <3>3, <1>e
  <2> QED
    BY <2>1, <2>2
<1>9. ASSUME NEW q \in Pods, Crash(q) PROVE FreshAt(p)'
  <2>1. CASE q = p
    <3>1. at'[own] = "down"
      BY <1>9, <2>1, <1>b DEF Crash, Enter, ThreadsOf
    <3>2. last'[p] = -1 /\ version' = version
      BY <1>9, <2>1, <1>a, <1>b DEF Crash, TypeOK
    <3> QED
      BY <3>1, <3>2, <1>c DEF FreshAt, own
  <2>2. CASE q # p
    <3>2. UNCHANGED <<at[own], got[own], snap[own]>>
      BY <1>9, <2>2, <1>b DEF Crash, Enter, ThreadsOf
    <3>3. UNCHANGED <<version, marked, seen[p], last[p], served[p]>>
      BY <1>9, <2>2, <1>a, <1>b DEF Crash, TypeOK
    <3> QED
      BY <3>2, <3>3, <1>e
  <2> QED
    BY <2>1, <2>2
<1>10. CASE UNCHANGED vars
  BY <1>10, <1>e DEF vars, threadVars
<1> QED
  BY <1>1, <1>2, <1>3, <1>4, <1>5, <1>6, <1>7, <1>8, <1>9, <1>10 DEF Next

(* With a store whose reads are consistent, a pod that only polls and has  *)
(* caught up with the version serves every write the version was bumped    *)
(* for, whatever failed or crashed (bumpVersion, Reloader.Run, rebuild).   *)
THEOREM ReadersAreFresh == ~ReadsLag => (Spec => []CaughtUpReadersAreFresh)
<1> SUFFICES ASSUME ~ReadsLag PROVE Spec => []CaughtUpReadersAreFresh
  OBVIOUS
<1>1. FreshInv /\ [Next]_vars => FreshInv'
  BY FreshStep
<1>2. FreshInv => CaughtUpReadersAreFresh
  BY DEF FreshInv, FreshAt, CaughtUpReadersAreFresh, CaughtUp
<1> QED
  BY FreshInit, <1>1, <1>2, PTL DEF Spec

-----------------------------------------------------------------------------
(* Rules find their references.  The invariant follows a rebuild through   *)
(* its two reads: the rules it has are rules of the store, and references  *)
(* are only ever added to those they could refer to.                       *)

(* A pair of revisions is one a pipeline may be built from. *)
Sound(snapshot) ==
  /\ snapshot["rules"] \in 0 .. data["rules"]
  /\ snapshot["refs"] >= refsAt[snapshot["rules"]]

RefsAtArePast ==
  \A n \in 0 .. MaxWrites : n <= data["rules"] => refsAt[n] <= data["refs"]

SnapSound(th) ==
  /\ got[th] >= 1 => snap[th]["rules"] \in 0 .. data["rules"]
  /\ got[th] = 2 => Sound(snap[th])

RefInv ==
  /\ TypeOK
  /\ RefsAtArePast
  /\ \A th \in Thread : SnapSound(th)
  /\ \A p \in Pods : Up(p) => Sound(served[p])

LEMMA RefInit == Init => RefInv
<1> SUFFICES ASSUME Init PROVE RefInv
  OBVIOUS
<1>1. RefsAtArePast
  BY ReloadAssumption DEF Init, RefsAtArePast
<1>2. \A th \in Thread : SnapSound(th)
  BY DEF Init, SnapSound
<1>3. \A p \in Pods : ~Up(p)
  BY DEF Init, Up
<1> QED
  BY <1>1, <1>2, <1>3, TypeInit DEF RefInv

(* What is sound stays so: a table is only written at its young end. *)
LEMMA SoundStays ==
  ASSUME TypeOK, RefsAtArePast,
         \/ UNCHANGED <<data, refsAt>>
         \/ \E h \in Handler, t \in Table : WriteData(h, t),
         NEW s \in [Table -> -1 .. MaxWrites]
  PROVE  /\ RefsAtArePast'
         /\ s["rules"] \in 0 .. data["rules"] => s["rules"] \in 0 .. data'["rules"]
         /\ Sound(s) => Sound(s)'
<1> USE ReloadAssumption
<1>1. CASE UNCHANGED <<data, refsAt>>
  BY <1>1 DEF RefsAtArePast, Sound
<1>2. ASSUME NEW h \in Handler, WriteData(h, "rules")
      PROVE  /\ RefsAtArePast'
             /\ s["rules"] \in 0 .. data["rules"] => s["rules"] \in 0 .. data'["rules"]
             /\ Sound(s) => Sound(s)'
  <2>1. /\ data["rules"] < MaxWrites
        /\ data' = [data EXCEPT !["rules"] = @ + 1]
        /\ refsAt' = [refsAt EXCEPT ![data["rules"] + 1] = data["refs"]]
    BY <1>2 DEF WriteData
  <2>2. data["rules"] \in 0 .. MaxWrites /\ data["refs"] \in 0 .. MaxWrites
    BY DEF TypeOK
  <2>3. data'["rules"] = data["rules"] + 1 /\ data'["refs"] = data["refs"]
    BY <2>1 DEF TypeOK
  <2>4. \A n \in 0 .. MaxWrites :
            refsAt'[n] = IF n = data["rules"] + 1 THEN data["refs"] ELSE refsAt[n]
    BY <2>1 DEF TypeOK
  <2>5. RefsAtArePast'
    BY <2>2, <2>3, <2>4 DEF RefsAtArePast
  <2> QED
    BY <2>2, <2>3, <2>4, <2>5 DEF Sound
<1>3. ASSUME NEW h \in Handler, WriteData(h, "refs")
      PROVE  /\ RefsAtArePast'
             /\ s["rules"] \in 0 .. data["rules"] => s["rules"] \in 0 .. data'["rules"]
             /\ Sound(s) => Sound(s)'
  <2>1. data' = [data EXCEPT !["refs"] = @ + 1] /\ refsAt' = refsAt
    BY <1>3 DEF WriteData
  <2>2. data["rules"] \in 0 .. MaxWrites /\ data["refs"] \in 0 .. MaxWrites
    BY DEF TypeOK
  <2>3. data'["rules"] = data["rules"] /\ data'["refs"] = data["refs"] + 1
    BY <2>1 DEF TypeOK
  <2>4. \A n \in 0 .. MaxWrites : refsAt[n] \in 0 .. MaxWrites
    BY DEF TypeOK
  <2> QED
    BY <2>1, <2>2, <2>3, <2>4 DEF RefsAtArePast, Sound
<1> QED
  BY <1>1, <1>2, <1>3

(* The steps that only move threads and forget what they have read. *)
LEMMA EnterStaysSound ==
  ASSUME RefInv, NEW threads, NEW location, Enter(threads, location),
         \/ UNCHANGED <<data, refsAt>>
         \/ \E h \in Handler, t \in Table : WriteData(h, t)
  PROVE  \A th \in Thread : SnapSound(th)'
<1> SUFFICES ASSUME NEW th \in Thread PROVE SnapSound(th)'
  OBVIOUS
<1>1. CASE th \in threads
  BY <1>1, EnterResets DEF SnapSound, RefInv
<1>2. CASE th \notin threads
  <2>1. got'[th] = got[th] /\ snap'[th] = snap[th]
    BY <1>2, EnterKeepsOthers DEF RefInv
  <2>2. snap[th] \in [Table -> -1 .. MaxWrites]
    BY DEF RefInv, TypeOK
  <2>3. SnapSound(th)
    BY DEF RefInv
  <2>4. /\ snap[th]["rules"] \in 0 .. data["rules"] => snap[th]["rules"] \in 0 .. data'["rules"]
        /\ Sound(snap[th]) => snap[th]["rules"] \in 0 .. data'["rules"]
                              /\ snap[th]["refs"] >= refsAt'[snap[th]["rules"]]
    BY <2>2, SoundStays DEF RefInv, Sound
  <2> QED
    BY <2>1, <2>3, <2>4 DEF SnapSound, Sound
<1> QED
  BY <1>1, <1>2

(* What pods serve stays sound while they serve it. *)
LEMMA ServedStaysSound ==
  ASSUME RefInv, UNCHANGED served,
         \/ UNCHANGED <<data, refsAt>>
         \/ \E h \in Handler, t \in Table : WriteData(h, t)
  PROVE  RefsAtArePast' /\ \A p \in Pods : Up(p)' => Sound(served[p])'
<1>1. RefsAtArePast'
  BY SoundStays, ReloadAssumption DEF RefInv, TypeOK, Unloaded
<1>2. ASSUME NEW p \in Pods, Up(p)' PROVE Sound(served[p])'
  <2>1. served[p] \in [Table -> -1 .. MaxWrites] /\ Sound(served[p])
    BY <1>2 DEF RefInv, TypeOK, Up
  <2>2. /\ served[p]["rules"] \in 0 .. data'["rules"]
        /\ served[p]["refs"] >= refsAt'[served[p]["rules"]]
    BY <2>1, SoundStays DEF RefInv, Sound
  <2> QED
    BY <2>2 DEF Sound
<1> QED
  BY <1>1, <1>2

LEMMA RefStep == RefInv /\ [Next]_vars /\ ~ReadsLag => RefInv'
<1> SUFFICES ASSUME RefInv, [Next]_vars, ~ReadsLag
             PROVE  /\ RefsAtArePast'
                    /\ \A th \in Thread : SnapSound(th)'
                    /\ \A p \in Pods : Up(p)' => Sound(served[p])'
  BY TypeStep DEF RefInv
<1> DEFINE Goal == /\ RefsAtArePast'
                   /\ \A th \in Thread : SnapSound(th)'
                   /\ \A p \in Pods : Up(p)' => Sound(served[p])'
<1>t. TypeOK
  BY DEF RefInv
<1> USE DEF storeVars, reloaderVars, boundVars
<1>1. ASSUME NEW h \in Handler, NEW t \in Table, WriteData(h, t) PROVE Goal
  BY <1>1, EnterStaysSound, ServedStaysSound DEF WriteData
<1>2. ASSUME NEW threads, NEW location, Enter(threads, location),
             UNCHANGED <<data, refsAt, served>>
      PROVE  Goal
  BY <1>2, EnterStaysSound, ServedStaysSound
<1>3. ASSUME NEW h \in Handler, BumpVersion(h) \/ BumpFails(h) \/ RequestReload(h)
      PROVE  Goal
  BY <1>2, <1>3 DEF BumpVersion, BumpFails, RequestReload
<1>4. ASSUME NEW p \in Pods, Poll(p) \/ Start(p) PROVE Goal
  BY <1>2, <1>4 DEF Poll, Start
<1>5. ASSUME NEW th \in Thread, RebuildFails(th) PROVE Goal
  BY <1>2, <1>5 DEF RebuildFails
<1>6. ASSUME NEW th \in Thread, ReadTable(th) PROVE Goal
  <2>1. UNCHANGED <<data, refsAt, served>>
    BY <1>6 DEF ReadTable
  <2>2. ASSUME NEW u \in Thread, u # th PROVE SnapSound(u)'
    <3>1. got'[u] = got[u] /\ snap'[u] = snap[u]
      BY <1>6, <1>t, <2>2, ReadTableReads DEF ReadTable, TypeOK
    <3> QED
      BY <2>1, <3>1 DEF RefInv, SnapSound, Sound
  <2>3. SnapSound(th)'
    <3>1. snap'[th] = [snap[th] EXCEPT ![NextTable(th)] = data[NextTable(th)]]
      <4>1. \E n \in Readable(data[NextTable(th)]) :
                snap' = [snap EXCEPT ![th][NextTable(th)] = n]
        BY <1>6, <1>t, ReadTableReads
      <4> QED
        BY <4>1, <1>t DEF Readable, TypeOK
    <3>2. got[th] \in {0, 1} /\ got'[th] = got[th] + 1
      BY <1>6, <1>t DEF ReadTable, TypeOK
    <3>3. snap[th] \in [Table -> -1 .. MaxWrites] /\ data \in [Table -> 0 .. MaxWrites]
          /\ refsAt \in [0 .. MaxWrites -> 0 .. MaxWrites]
      BY <1>t DEF TypeOK
    <3>4. CASE got[th] = 0
      BY <2>1, <3>1, <3>2, <3>3, <3>4 DEF SnapSound, NextTable
    <3>5. CASE got[th] = 1
      <4>1. snap[th]["rules"] \in 0 .. data["rules"]
        BY <3>5 DEF RefInv, SnapSound
      <4>2. /\ snap'[th]["rules"] = snap[th]["rules"]
            /\ snap'[th]["refs"] = data["refs"]
        BY <3>1, <3>3, <3>5 DEF NextTable
      <4>3. refsAt[snap[th]["rules"]] <= data["refs"]
        BY <4>1, <3>3, ReloadAssumption DEF RefInv, RefsAtArePast
      <4>4. refsAt[snap[th]["rules"]] \in Nat /\ data["refs"] \in Nat
        BY <4>1, <3>3, ReloadAssumption
      <4> QED
        BY <2>1, <3>2, <3>5, <4>1, <4>2, <4>3, <4>4 DEF SnapSound, Sound
    <3> QED
      BY <3>2, <3>4, <3>5
  <2>4. RefsAtArePast' /\ \A p \in Pods : Up(p)' => Sound(served[p])'
    BY <2>1, ServedStaysSound
  <2> QED
    BY <2>2, <2>3, <2>4
<1>7. ASSUME NEW th \in Thread, Swap(th) PROVE Goal
  <2>1. UNCHANGED <<data, refsAt>> /\ \A u \in Thread : SnapSound(u)'
    BY <1>7, EnterStaysSound DEF Swap
  <2>2. Sound(snap[th])
    BY <1>7 DEF Swap, RefInv, SnapSound
  <2>3. \A p \in Pods : served'[p] = IF p = th[1] THEN snap[th] ELSE served[p]
    BY <1>7, <1>t, SwapHasRead
  <2>4. ASSUME NEW p \in Pods, Up(p)' PROVE Sound(served[p])'
    <3>1. CASE p = th[1]
      BY <2>1, <2>2, <2>3, <3>1 DEF Sound
    <3>2. CASE p # th[1]
      BY <2>1, <2>3, <2>4, <3>2 DEF Sound, RefInv, Up
    <3> QED
      BY <3>1, <3>2
  <2> QED
    BY <2>1, <2>4 DEF RefInv, RefsAtArePast
<1>8. ASSUME NEW q \in Pods, Crash(q) PROVE Goal
  <2>1. UNCHANGED <<data, refsAt>> /\ \A u \in Thread : SnapSound(u)'
    BY <1>8, EnterStaysSound DEF Crash
  <2>2. \A p \in Pods : served'[p] = IF p = q THEN Unloaded ELSE served[p]
    BY <1>8, <1>t DEF Crash, TypeOK
  <2>3. ASSUME NEW p \in Pods, Up(p)' PROVE Sound(served[p])'
    BY <2>1, <2>2, <2>3 DEF Sound, RefInv, Up, Unloaded
  <2> QED
    BY <2>1, <2>3 DEF RefInv, RefsAtArePast
<1>9. CASE UNCHANGED vars
  BY <1>9 DEF vars, threadVars, RefInv, RefsAtArePast, SnapSound, Sound, Up
<1> QED
  BY <1>1, <1>3, <1>4, <1>5, <1>6, <1>7, <1>8, <1>9 DEF Next

(* With a store whose reads are consistent, no pod ever serves rules       *)
(* without the simulations and fault profiles stored before them, however  *)
(* many rebuilds race (rebuild).                                           *)
THEOREM ReferencesAreServed == ~ReadsLag => (Spec => []RulesFindTheirReferences)
<1> SUFFICES ASSUME ~ReadsLag PROVE Spec => []RulesFindTheirReferences
  OBVIOUS
<1>1. RefInv /\ [Next]_vars => RefInv'
  BY RefStep
<1>2. RefInv => RulesFindTheirReferences
  BY DEF RefInv, RulesFindTheirReferences, Sound
<1> QED
  BY RefInit, <1>1, <1>2, PTL DEF Spec

-----------------------------------------------------------------------------
(* A reader never goes back.  What its only rebuild has read is no older   *)
(* than what the pod serves, because both come from a store that only      *)
(* moves forward and the swap comes last.                                  *)
ForwardAt(p) ==
  LET th == ReloaderOf(p)
  IN  /\ Covers(data, served[p])
      /\ at[th] = "read" =>
             \A t \in Table : HasRead(th, t) => /\ snap[th][t] >= served[p][t]
                                              /\ snap[th][t] <= data[t]

ForwardInv == TypeOK /\ \A p \in Readers : ForwardAt(p)

LEMMA ForwardInit == Init => ForwardInv
<1> SUFFICES ASSUME Init, NEW p \in Readers PROVE ForwardAt(p)
  BY TypeInit DEF ForwardInv
<1>1. p \in Pods /\ ReloaderOf(p) \in Thread
  BY Threads DEF Readers
<1>2. at[ReloaderOf(p)] = "down" /\ served[p] = Unloaded
  BY <1>1 DEF Init
<1>3. \A t \in Table : data[t] = 0 /\ Unloaded[t] = -1
  BY DEF Init, Unloaded
<1> QED
  BY <1>2, <1>3 DEF ForwardAt, Covers

LEMMA ForwardStep == ForwardInv /\ [Next]_vars /\ ~ReadsLag => ForwardInv'
<1> SUFFICES ASSUME ForwardInv, [Next]_vars, ~ReadsLag, NEW p \in Readers
             PROVE  ForwardAt(p)'
  BY TypeStep DEF ForwardInv, Readers
<1> DEFINE own == ReloaderOf(p)
<1>a. TypeOK /\ ForwardAt(p)
  BY DEF ForwardInv
<1>b. p \in Pods /\ own \in Thread /\ own[1] = p
  BY Threads DEF Readers
<1>c. \A h \in Handler : h # own /\ h \in Thread /\ h[1] # p
  BY <1>b, Threads DEF Readers
<1>d. /\ data \in [Table -> 0 .. MaxWrites]
      /\ served[p] \in [Table -> -1 .. MaxWrites]
      /\ snap[own] \in [Table -> -1 .. MaxWrites]
  BY <1>a, <1>b DEF TypeOK
<1>e. ASSUME UNCHANGED <<at[own], got[own], snap[own], served[p]>>,
             \A t \in Table : data'[t] \in Int /\ data'[t] >= data[t]
      PROVE  ForwardAt(p)'
  <2> HIDE DEF own
  <2>1. Covers(data', served[p])
    BY <1>a, <1>d, <1>e DEF ForwardAt, Covers
  <2>2. ASSUME at[own] = "read", NEW t \in Table, HasRead(own, t)
        PROVE  snap[own][t] >= served[p][t] /\ snap[own][t] <= data'[t]
    <3>1. snap[own][t] >= served[p][t] /\ snap[own][t] <= data[t]
      BY <1>a, <2>2 DEF ForwardAt, own
    <3>2. snap[own][t] \in Int /\ data[t] \in Int /\ data'[t] \in Int /\ data'[t] >= data[t]
      BY <1>d, <1>e
    <3> QED
      BY <3>1, <3>2
  <2> QED
    BY <1>e, <2>1, <2>2 DEF ForwardAt, HasRead, Covers, own
<1>f. ASSUME UNCHANGED data PROVE \A t \in Table : data'[t] \in Int /\ data'[t] >= data[t]
  BY <1>d, <1>f
<1>g. ASSUME at'[own] # "read", Covers(data', served'[p]) PROVE ForwardAt(p)'
  BY <1>g DEF ForwardAt, Covers
<1>h. ASSUME at'[own] = "read", got'[own] = 0, Covers(data', served'[p])
      PROVE  ForwardAt(p)'
  BY <1>h DEF ForwardAt, Covers, HasRead
<1>i. Covers(data, served[p])
  BY <1>a DEF ForwardAt
<1> HIDE DEF own
<1> USE DEF storeVars, reloaderVars, boundVars
<1>1. ASSUME NEW h \in Handler, NEW u \in Table, WriteData(h, u) PROVE ForwardAt(p)'
  <2>1. \A t \in Table : data'[t] \in Int /\ data'[t] >= data[t]
    BY <1>1, <1>d DEF WriteData
  <2>2. UNCHANGED <<at[own], got[own], snap[own], served[p]>>
    BY <1>1, <1>a, <1>b, <1>c, EnterKeepsOthers DEF WriteData
  <2> QED
    BY <2>1, <2>2, <1>e
<1>2. ASSUME NEW h \in Handler, BumpVersion(h) \/ BumpFails(h) \/ RequestReload(h)
      PROVE  ForwardAt(p)'
  <2>1. PICK location : Enter({h}, location)
    BY <1>2 DEF BumpVersion, BumpFails, RequestReload
  <2>2. UNCHANGED <<data, served>>
    BY <1>2 DEF BumpVersion, BumpFails, RequestReload
  <2> QED
    BY <2>1, <2>2, <1>a, <1>b, <1>c, <1>e, <1>f, EnterKeepsOthers
<1>3. ASSUME NEW q \in Pods, Poll(q) \/ Start(q) PROVE ForwardAt(p)'
  <2>1. Enter({ReloaderOf(q)}, "read") /\ UNCHANGED <<data, served>>
    BY <1>3 DEF Poll, Start
  <2>2. CASE own = ReloaderOf(q)
    BY <2>1, <2>2, <1>a, <1>b, <1>h, <1>i, EnterResets
  <2>3. CASE own # ReloaderOf(q)
    BY <2>1, <2>3, <1>a, <1>b, <1>e, <1>f, EnterKeepsOthers
  <2> QED
    BY <2>2, <2>3
<1>4. ASSUME NEW th \in Thread, RebuildFails(th) PROVE ForwardAt(p)'
  <2>1. PICK location \in {"idle", "down"} : Enter({th}, location)
    BY <1>4 DEF RebuildFails
  <2>2. UNCHANGED <<data, served>>
    BY <1>4 DEF RebuildFails
  <2>3. CASE own = th
    BY <2>1, <2>2, <2>3, <1>a, <1>b, <1>g, <1>i, EnterResets
  <2>4. CASE own # th
    BY <2>1, <2>2, <2>4, <1>a, <1>b, <1>e, <1>f, EnterKeepsOthers
  <2> QED
    BY <2>3, <2>4
<1>5. ASSUME NEW th \in Thread, ReadTable(th) PROVE ForwardAt(p)'
  <2>1. UNCHANGED <<at, data, served>>
    BY <1>5 DEF ReadTable
  <2>2. CASE own = th
    <3>1. ASSUME at[own] = "read", NEW t \in Table, HasRead(own, t)'
          PROVE  snap'[own][t] >= served[p][t] /\ snap'[own][t] <= data[t]
      <4>1. \/ HasRead(own, t) /\ snap'[own][t] = snap[own][t]
            \/ snap'[own][t] = data[t]
        BY <1>5, <1>a, <2>2, <3>1, ConsistentRead
      <4>2. data[t] >= served[p][t] /\ data[t] \in Int
        BY <1>i, <1>d DEF Covers
      <4>3. HasRead(own, t) => snap[own][t] >= served[p][t] /\ snap[own][t] <= data[t]
        BY <1>a, <3>1 DEF ForwardAt, own
      <4> QED
        BY <4>1, <4>2, <4>3
    <3> QED
      BY <2>1, <3>1, <1>i DEF ForwardAt, Covers, own
  <2>3. CASE own # th
    <3>1. UNCHANGED <<got[own], snap[own]>>
      BY <1>5, <1>a, <1>b, <2>3, ReadTableReads DEF ReadTable, TypeOK
    <3> QED
      BY <2>1, <3>1, <1>e, <1>f
  <2> QED
    BY <2>2, <2>3
<1>6. ASSUME NEW th \in Thread, Swap(th) PROVE ForwardAt(p)'
  <2>1. PICK threads : Enter(threads, "idle") /\ threads \in {{th}, ThreadsOf(th[1])}
    BY <1>6 DEF Swap
  <2>2. UNCHANGED data
    BY <1>6 DEF Swap
  <2>3. CASE th[1] = p
    <3>1. own = th /\ own \in threads
      BY <2>1, <2>3, <1>b, Threads DEF ThreadsOf, own
    <3>2. at'[own] = "idle"
      BY <2>1, <3>1, <1>a, <1>b, EnterResets
    <3>3. /\ at[own] = "read" /\ served'[p] = snap[own]
          /\ \A t \in Table : HasRead(own, t)
      BY <1>6, <1>a, <2>3, <3>1, SwapHasRead
    <3>4. Covers(data', served'[p])
      <4>1. \A t \in Table : snap[own][t] <= data[t]
        BY <3>3, <1>a DEF ForwardAt, own
      <4> QED
        BY <2>2, <3>3, <4>1, <1>d DEF Covers
    <3> QED
      BY <3>2, <3>4, <1>g
  <2>4. CASE th[1] # p
    <3>1. own \notin threads
      BY <2>1, <2>4, <1>b DEF ThreadsOf
    <3>2. served'[p] = served[p]
      BY <1>6, <1>a, <1>b, <2>4, SwapHasRead
    <3> QED
      BY <2>1, <2>2, <3>1, <3>2, <1>a, <1>b, <1>e, <1>f, EnterKeepsOthers
  <2> QED
    BY <2>3, <2>4
<1>7. ASSUME NEW q \in Pods, Crash(q) PROVE ForwardAt(p)'
  <2>1. Enter(ThreadsOf(q), "down") /\ UNCHANGED data
    BY <1>7 DEF Crash
  <2>2. served' = [served EXCEPT ![q] = Unloaded]
    BY <1>7 DEF Crash
  <2>3. CASE q = p
    <3>1. at'[own] = "down"
      BY <2>1, <2>3, <1>a, <1>b, EnterResets DEF ThreadsOf
    <3>2. served'[p] = Unloaded
      BY <2>2, <2>3, <1>a, <1>b DEF TypeOK
    <3>3. Covers(data', served'[p])
      BY <2>1, <3>2, <1>d DEF Covers, Unloaded
    <3> QED
      BY <3>1, <3>3, <1>g
  <2>4. CASE q # p
    <3>1. own \notin ThreadsOf(q) /\ served'[p] = served[p]
      BY <2>2, <2>4, <1>a, <1>b DEF ThreadsOf, TypeOK
    <3> QED
      BY <2>1, <3>1, <1>a, <1>b, <1>e, <1>f, EnterKeepsOthers
  <2> QED
    BY <2>3, <2>4
<1>8. CASE UNCHANGED vars
  BY <1>8, <1>e, <1>f DEF vars, threadVars
<1> QED
  BY <1>1, <1>2, <1>3, <1>4, <1>5, <1>6, <1>7, <1>8 DEF Next

(* With a store whose reads are consistent, a pod that only polls never    *)
(* replaces a table it serves by an older one, whatever writes, failures   *)
(* and restarts come between (the single goroutine of Reloader.Run).       *)
THEOREM ReadersGoForward == ~ReadsLag => (Spec => ReadersNeverGoBack)
<1> SUFFICES ASSUME ~ReadsLag PROVE Spec => ReadersNeverGoBack
  OBVIOUS
<1> DEFINE Forward == \A p \in Readers : Up(p) /\ Up(p)' => Covers(served'[p], served[p])
<1>1. ForwardInv /\ [Next]_vars => ForwardInv'
  BY ForwardStep
<1>2. ForwardInv /\ [Next]_vars => [Forward]_served
  <2> SUFFICES ASSUME ForwardInv, [Next]_vars, served' # served,
                      NEW p \in Readers, Up(p)'
               PROVE  Covers(served'[p], served[p])
    OBVIOUS
  <2>1. TypeOK /\ ForwardAt(p) /\ p \in Pods /\ ReloaderOf(p) \in Thread
    BY Threads DEF ForwardInv, Readers
  <2>2. served[p] \in [Table -> -1 .. MaxWrites]
    BY <2>1 DEF TypeOK
  <2>3. ASSUME served'[p] = served[p] PROVE Covers(served'[p], served[p])
    BY <2>2, <2>3 DEF Covers
  <2>4. CASE \E th \in Thread : Swap(th)
    <3>1. PICK th \in Thread : Swap(th)
      BY <2>4
    <3>2. CASE th[1] = p
      <4>1. th = ReloaderOf(p)
        BY <3>2, Threads
      <4>2. at[th] = "read" /\ served'[p] = snap[th] /\ \A t \in Table : HasRead(th, t)
        BY <2>1, <3>1, <3>2, SwapHasRead
      <4> QED
        BY <2>1, <4>1, <4>2 DEF ForwardAt, Covers
    <3>3. CASE th[1] # p
      BY <2>1, <2>3, <3>1, <3>3, SwapHasRead
    <3> QED
      BY <3>2, <3>3
  <2>5. CASE \E q \in Pods : Crash(q)
    <3>1. PICK q \in Pods : served' = [served EXCEPT ![q] = Unloaded]
      BY <2>5 DEF Crash
    <3>2. q # p
      BY <2>1, <3>1 DEF Up, TypeOK
    <3> QED
      BY <2>1, <2>3, <3>1, <3>2 DEF TypeOK
  <2> QED
    BY <2>4, <2>5 DEF Next, vars, WriteData, BumpVersion, BumpFails, RequestReload,
       Poll, ReadTable, RebuildFails, Start
<1> QED
  BY ForwardInit, <1>1, <1>2, PTL DEF Spec, ReadersNeverGoBack
=============================================================================
