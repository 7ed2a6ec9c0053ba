---------------------------- MODULE ConfigReload ----------------------------
(***************************************************************************)
(* How a change of the configuration reaches the pipelines of the pods.    *)
(*                                                                         *)
(* Each pod serves requests from a snapshot of the store.  An admin write  *)
(* changes the store, then its config version, then rebuilds the snapshot  *)
(* of the pod it was made through; the other pods poll the version and     *)
(* rebuild when it has changed.  A rebuild reads one table after another   *)
(* without a transaction and only swaps the pipeline in under a lock; the  *)
(* rebuilds of one pod are not serialized.  The store implements           *)
(* VersionedStore: DynamoDB or MongoDB.                                    *)
(*                                                                         *)
(* A table is abstracted to its revision, the number of writes made to it. *)
(***************************************************************************)
EXTENDS Integers

CONSTANTS
    Pods,         \* server processes that share the store
    Writers,      \* pods whose admin API is used
    Slots,        \* admin requests a writer may serve at the same time
    ReadsLag,     \* may a read of the store miss the latest write?
    BumpMayFail,  \* may bumpVersion fail?
    MaxWrites,    \* bound on writes per table
    MaxFailures,  \* bound on rebuilds that fail
    MaxCrashes    \* bound on ends of a process

Reloader == "reloader"

ASSUME ReloadAssumption ==
    /\ Writers \subseteq Pods
    /\ Reloader \notin Slots
    /\ {ReadsLag, BumpMayFail} \subseteq BOOLEAN
    /\ {MaxWrites, MaxFailures, MaxCrashes} \subseteq Nat

VARIABLES
    data,      \* revision of each table of the store
    version,   \* the config-version marker
    at,        \* where each thread of each pod stands
    got,       \* number of tables the thread's rebuild has read
    snap,      \* revisions the thread's rebuild has read
    seen,      \* version the reloader rebuilds for
    last,      \* version the reloader last rebuilt for
    served,    \* the snapshot each pod serves from
    failures,  \* rebuilds that failed so far
    crashes,   \* processes that ended so far
    marked,    \* history: revisions at the last bump of the version
    refsAt     \* history: revision of refs when a revision of rules was written

storeVars == <<data, version, marked, refsAt>>
threadVars == <<at, got, snap>>
reloaderVars == <<seen, last>>
boundVars == <<failures, crashes>>
vars == <<served, storeVars, threadVars, reloaderVars, boundVars>>

(* Variant: what rules refer to is read before the rules. *)
TablesReferencesFirst == <<"refs", "rules">>

(* The order in which rebuild reads: the rules, then what rules refer to,  *)
(* simulations and fault profiles.  Each of the two is read once and only  *)
(* compared with the rules, so they are one table.                         *)
Tables == <<"rules", "refs">>
Table == {"rules", "refs"}

(* A thread is the reloader goroutine of a pod, which also stands for its  *)
(* start-up, or an admin request.                                          *)
Handler == Writers \X Slots
Thread == (Pods \X {Reloader}) \union Handler
ReloaderOf(p) == <<p, Reloader>>
ThreadsOf(p) == {th \in Thread : th[1] = p}

NeverReloaded == -1
Unloaded == [t \in Table |-> -1]
Up(p) == served[p] # Unloaded

Init ==
    /\ data = [t \in Table |-> 0]
    /\ version = 0
    /\ at = [th \in Thread |-> "down"]
    /\ got = [th \in Thread |-> 0]
    /\ snap = [th \in Thread |-> Unloaded]
    /\ seen = [p \in Pods |-> NeverReloaded]
    /\ last = [p \in Pods |-> NeverReloaded]
    /\ served = [p \in Pods |-> Unloaded]
    /\ failures = 0 /\ crashes = 0
    /\ marked = data
    /\ refsAt = [n \in 0 .. MaxWrites |-> 0]

(* The threads move to a location where their rebuild has read nothing. *)
Enter(threads, location) ==
    /\ at' = [th \in Thread |-> IF th \in threads THEN location ELSE at[th]]
    /\ got' = [th \in Thread |-> IF th \in threads THEN 0 ELSE got[th]]
    /\ snap' = [th \in Thread |-> IF th \in threads THEN Unloaded ELSE snap[th]]

-----------------------------------------------------------------------------
(* Admin writes.                                                           *)

(* SaveRule, DeleteSimulation and the like; a write that fails changes     *)
(* nothing.  A handler that deletes a rule with its simulations, deletes   *)
(* every rule or imports makes several writes before it reloads.           *)
WriteData(h, t) ==
    /\ at[h] \in {"idle", "read"} /\ got[h] = 0
    /\ data[t] < MaxWrites
    /\ data' = [data EXCEPT ![t] = @ + 1]
    /\ refsAt' = IF t = "rules"
                   THEN [refsAt EXCEPT ![data[t] + 1] = data["refs"]]
                   ELSE refsAt
    /\ Enter({h}, "bump")
    /\ UNCHANGED <<version, marked, served, reloaderVars, boundVars>>

(* Variant: the version counts down. *)
BumpVersionDown(h) ==
    /\ at[h] = "bump"
    /\ version' = version - 1
    /\ marked' = data
    /\ Enter({h}, "read")
    /\ UNCHANGED <<data, refsAt, served, reloaderVars, boundVars>>

BumpVersion(h) ==
    /\ at[h] = "bump"
    /\ version' = version + 1
    /\ marked' = data
    /\ Enter({h}, "read")
    /\ UNCHANGED <<data, refsAt, served, reloaderVars, boundVars>>

(* The write stays.  The handler answers 500 and does not reload, or goes  *)
(* on when it is deleting the simulations of a rule.                       *)
BumpFails(h) ==
    /\ BumpMayFail
    /\ at[h] = "bump"
    /\ \E next \in {"idle", "read"} : Enter({h}, next)
    /\ UNCHANGED <<storeVars, served, reloaderVars, boundVars>>

(* POST /api/reload. *)
RequestReload(h) ==
    /\ at[h] = "idle"
    /\ Enter({h}, "read")
    /\ UNCHANGED <<storeVars, served, reloaderVars, boundVars>>

-----------------------------------------------------------------------------
(* The reloader.                                                           *)

(* What a read may answer when the current value is n. *)
Readable(n) == {n} \union IF ReadsLag /\ n > 0 THEN {n - 1} ELSE {}

(* A tick at which the version is not the last one reloaded. *)
Poll(p) ==
    LET th == ReloaderOf(p)
    IN  /\ at[th] = "idle"
        /\ \E v \in Readable(version) :
               /\ v # last[p]
               /\ seen' = [seen EXCEPT ![p] = v]
        /\ Enter({th}, "read")
        /\ UNCHANGED <<storeVars, last, served, boundVars>>

-----------------------------------------------------------------------------
(* Server.rebuild.                                                         *)

ReadTable(th) ==
    /\ at[th] = "read"
    /\ got[th] < 2
    /\ LET t == Tables[got[th] + 1]
       IN  \E n \in Readable(data[t]) : snap' = [snap EXCEPT ![th][t] = n]
    /\ got' = [got EXCEPT ![th] = @ + 1]
    /\ UNCHANGED <<at, storeVars, served, reloaderVars, boundVars>>

(* Variant: the reloader takes a failed rebuild for done. *)
RebuildFailsForGood(th) ==
    /\ failures < MaxFailures
    /\ at[th] = "read"
    /\ got[th] < 2
    /\ Enter({th}, IF Up(th[1]) THEN "idle" ELSE "down")
    /\ last' = IF th = ReloaderOf(th[1]) THEN [last EXCEPT ![th[1]] = seen[th[1]]]
                                         ELSE last
    /\ failures' = failures + 1
    /\ UNCHANGED <<storeVars, served, seen, crashes>>

(* Variant: a failed rebuild swaps in what it has. *)
RebuildFailsHalfway(th) ==
    /\ failures < MaxFailures
    /\ at[th] = "read"
    /\ got[th] = 1
    /\ Enter({th}, IF Up(th[1]) THEN "idle" ELSE "down")
    /\ served' = [served EXCEPT ![th[1]] = snap[th]]
    /\ failures' = failures + 1
    /\ UNCHANGED <<storeVars, reloaderVars, crashes>>

(* A table cannot be read.  A handler drops the error, the reloader does   *)
(* not advance last, and a process that is starting ends.                  *)
RebuildFails(th) ==
    /\ failures < MaxFailures
    /\ at[th] = "read"
    /\ got[th] < 2
    /\ Enter({th}, IF Up(th[1]) THEN "idle" ELSE "down")
    /\ failures' = failures + 1
    /\ UNCHANGED <<storeVars, served, reloaderVars, crashes>>

Swap(th) ==
    LET p == th[1]
    IN  /\ at[th] = "read"
        /\ got[th] = 2
        /\ served' = [served EXCEPT ![p] = snap[th]]
        /\ Enter(IF Up(p) THEN {th} ELSE ThreadsOf(p), "idle")
        /\ last' = IF th = ReloaderOf(p)
                     THEN [last EXCEPT ![p] = seen[p]] ELSE last
        /\ UNCHANGED <<storeVars, seen, boundVars>>

-----------------------------------------------------------------------------
(* The process.                                                            *)

(* server.New: the first rebuild comes before the reloader starts. *)
Start(p) ==
    LET th == ReloaderOf(p)
    IN  /\ at[th] = "down"
        /\ Enter({th}, "read")
        /\ seen' = [seen EXCEPT ![p] = NeverReloaded]
        /\ UNCHANGED <<storeVars, last, served, boundVars>>

(* The process ends, wherever its threads stand. *)
Crash(p) ==
    /\ crashes < MaxCrashes
    /\ Up(p)
    /\ Enter(ThreadsOf(p), "down")
    /\ served' = [served EXCEPT ![p] = Unloaded]
    /\ last' = [last EXCEPT ![p] = NeverReloaded]
    /\ crashes' = crashes + 1
    /\ UNCHANGED <<storeVars, seen, failures>>

Next ==
    \/ \E h \in Handler, t \in Table : WriteData(h, t)
    \/ \E h \in Handler : BumpVersion(h)
    \/ \E h \in Handler : BumpFails(h)
    \/ \E h \in Handler : RequestReload(h)
    \/ \E p \in Pods : Poll(p)
    \/ \E th \in Thread : ReadTable(th)
    \/ \E th \in Thread : RebuildFails(th)
    \/ \E th \in Thread : Swap(th)
    \/ \E p \in Pods : Start(p)
    \/ \E p \in Pods : Crash(p)

Spec == Init /\ [][Next]_vars

(* The ticker of every reloader goes on, a rebuild it began ends, and a    *)
(* process that ended is started again.  Nothing is asked of the admins.   *)
Fairness ==
    \A p \in Pods :
        /\ WF_vars(Poll(p))
        /\ WF_vars(Start(p))
        /\ WF_vars(ReadTable(ReloaderOf(p)) \/ Swap(ReloaderOf(p)))

FairSpec == Spec /\ Fairness

-----------------------------------------------------------------------------
(* The shape of the store, of the threads and of the snapshots.            *)
TypeOK ==
    /\ data \in [Table -> 0 .. MaxWrites]
    /\ version \in Nat
    /\ at \in [Thread -> {"down", "idle", "bump", "read"}]
    /\ got \in [Thread -> 0 .. 2]
    /\ snap \in [Thread -> [Table -> -1 .. MaxWrites]]
    /\ seen \in [Pods -> Int] /\ last \in [Pods -> Int]
    /\ served \in [Pods -> [Table -> -1 .. MaxWrites]]
    /\ failures \in Nat /\ crashes \in Nat
    /\ marked \in [Table -> 0 .. MaxWrites]
    /\ refsAt \in [0 .. MaxWrites -> 0 .. MaxWrites]

Readers == Pods \ Writers

(* The reloader of p sees no reason to rebuild. *)
CaughtUp(p) == Up(p) /\ at[ReloaderOf(p)] = "idle" /\ last[p] = version

Covers(snapshot, revisions) == \A t \in Table : snapshot[t] >= revisions[t]

(* A pod that only polls and has caught up with the version serves every   *)
(* write the version was bumped for, whatever writes, failed bumps, failed *)
(* rebuilds and crashes came between: the marker is bumped after the data  *)
(* is written, read before the tables are, and remembered only after the   *)
(* swap (bumpVersion, Reloader.Run).                                       *)
CaughtUpReadersAreFresh ==
    \A p \in Readers : CaughtUp(p) => Covers(served[p], marked)

(* What any pod serves holds everything its rules could refer to when they *)
(* were written: a rule never lacks a simulation or a fault profile stored *)
(* before it, because rebuild reads the rules first, and even when several *)
(* rebuilds race (rebuild, validateFaultProfileRefs).                      *)
RulesFindTheirReferences ==
    \A p \in Pods : Up(p) => served[p]["refs"] >= refsAt[served[p]["rules"]]

(* A pod that only polls never serves an older table after a newer one     *)
(* (one rebuild at a time in Reloader.Run).                                *)
ReadersNeverGoBack ==
    [][\A p \in Readers : Up(p) /\ Up(p)' => Covers(served'[p], served[p])]_served

(* A write the version was bumped for is served by every pod that only     *)
(* polls, in the end: a failed poll, a failed rebuild and a crash delay it *)
(* and no more (the retry of Reloader.Run, its first tick).                *)
BumpedWritesReachReaders ==
    \A p \in Readers, t \in Table, n \in 1 .. MaxWrites :
        marked[t] >= n ~> served[p][t] >= n

-----------------------------------------------------------------------------
(* A promise of the documentation that the code does not keep.             *)

(* Every pod shows the writes made through another once its reloader has   *)
(* caught up.  A handler's rebuild that read before that write may swap    *)
(* after the reloader did.                                                 *)
CaughtUpPodsAreFresh ==
    \A p \in Pods :
        CaughtUp(p) /\ (\A th \in ThreadsOf(p) : at[th] = "idle")
            => Covers(served[p], marked)
=============================================================================
