------------------------------- MODULE Metrics ------------------------------
(***************************************************************************)
(* The dashboard metrics (package metrics): request threads record their   *)
(* outcome in the collector, which counts under one lock, takes the time   *)
(* without a lock and then counts per minute in rings with locks of their  *)
(* own.                                                                    *)
(*                                                                         *)
(* Time is a number of minutes.  A ring of minutes has Slots places (30 in *)
(* the code), a ring of latencies Samples (2048).                          *)
(***************************************************************************)
EXTENDS Integers, FiniteSets, Sequences

CONSTANTS
    Threads,   \* goroutines that serve requests
    Rules,
    Overall,   \* the ring of all requests
    Latencies, \* what a hit may have taken
    Slots, Samples,
    MaxHits,   \* bound on requests
    MaxMinutes \* bound on the clock

ASSUME MetricsAssumption ==
    /\ {Slots, Samples} \subseteq Nat \ {0}
    /\ {MaxHits, MaxMinutes} \subseteq Nat
    /\ Latencies \subseteq Nat
    /\ Overall \notin Rules

Rings == Rules \union {Overall}

VARIABLES
    total,   \* requests counted
    latency, \* latency[r]: the ring of latencies of rule r
    took,    \* history: all latencies of rule r, in order
    minute,  \* the clock
    thread,  \* thread[t]: where the recording of its request stands
    ring,    \* ring[k]: the ring of minutes k
    log      \* history: what ring k was given

countVars == <<total, latency, took>>
ringVars == <<ring, log>>
vars == <<countVars, minute, thread, ringVars>>

NoMinute == -1

Init ==
    /\ total = 0
    /\ latency = [r \in Rules |-> [buf |-> << >>, next |-> 0]]
    /\ took = [r \in Rules |-> << >>]
    /\ minute = 0
    /\ thread = [t \in Threads |-> [at |-> "idle", rings |-> << >>, stamp |-> 0]]
    /\ ring = [k \in Rings |-> [slots   |-> [i \in 0 .. Slots - 1 |->
                                                [ts |-> NoMinute, count |-> 0]],
                                current |-> 0,
                                filled  |-> FALSE]]
    /\ log = [k \in Rings |-> [given |-> [m \in 0 .. MaxMinutes |-> 0],
                               opened |-> 0, minutes |-> 0, late |-> 0, top |-> NoMinute]]

-----------------------------------------------------------------------------
(* Latencies.                                                              *)

(* Variant: the oldest sample stays where it is. *)
RecordedStuck(lr, ms) ==
    IF Len(lr.buf) < Samples
    THEN [lr EXCEPT !.buf = Append(@, ms)]
    ELSE [lr EXCEPT !.buf[lr.next + 1] = ms]

(* latencyRing.record; its hits are the length of the history. *)
Recorded(lr, ms) ==
    IF Len(lr.buf) < Samples
    THEN [lr EXCEPT !.buf = Append(@, ms)]
    ELSE [buf |-> [lr.buf EXCEPT ![lr.next + 1] = ms], next |-> (lr.next + 1) % Samples]

Occurrences(s, v) == Cardinality({i \in DOMAIN s : s[i] = v})
AtMost(s, v) == Cardinality({i \in DOMAIN s : s[i] <= v})

(* The place i, from 0, of the samples in order. *)
Sorted(s, i) ==
    CHOOSE v \in {s[j] : j \in DOMAIN s} :
        AtMost(s, v) - Occurrences(s, v) <= i /\ i < AtMost(s, v)

(* percentile, with the rounding up of a fraction of 100. *)
Percentile(s, p) ==
    LET idx == (Len(s) * p + 99) \div 100 - 1
    IN  IF s = << >> THEN 0 ELSE Sorted(s, IF idx < 0 THEN 0 ELSE idx)

-----------------------------------------------------------------------------
(* Recording.                                                              *)

Counted(t, rings) ==
    /\ thread[t].at = "idle"
    /\ total < MaxHits
    /\ total' = total + 1
    /\ thread' = [thread EXCEPT ![t] = [at |-> "stamp", rings |-> rings, stamp |-> 0]]
    /\ UNCHANGED <<minute, ringVars>>

(* RecordHit, the part under the lock. *)
CountHit(t) ==
    \E r \in Rules, ms \in Latencies :
        /\ Counted(t, <<Overall, r>>)
        /\ latency' = [latency EXCEPT ![r] = Recorded(@, ms)]
        /\ took' = [took EXCEPT ![r] = Append(@, ms)]

(* RecordMiss. *)
CountMiss(t) ==
    /\ Counted(t, <<Overall>>)
    /\ UNCHANGED <<latency, took>>

(* The time, taken once for both rings. *)
Stamp(t) ==
    /\ thread[t].at = "stamp"
    /\ thread' = [thread EXCEPT ![t].at = "rings", ![t].stamp = minute]
    /\ UNCHANGED <<countVars, minute, ringVars>>

Cur(k) == ring[k].slots[ring[k].current].ts

(* Variant: the minute is compared with the place that is next. *)
OpensByNext(k, ts) ==
    ~ring[k].filled \/ ring[k].slots[(ring[k].current + 1) % Slots].ts # ts

Opens(k, ts) == ~ring[k].filled \/ Cur(k) # ts

Bumped(slots, i) == [slots EXCEPT ![i].count = @ + 1]

(* Variant: a place that is used again keeps its count. *)
RingAfterAccumulating(h, opens, ts) ==
    LET i == IF h.filled THEN (h.current + 1) % Slots ELSE h.current
    IN  IF ~opens THEN [h EXCEPT !.slots = Bumped(@, h.current)]
        ELSE [slots |-> [h.slots EXCEPT ![i] = [ts |-> ts, count |-> @.count + 1]],
              current |-> i, filled |-> TRUE]

(* histRing.record. *)
RingAfter(h, opens, ts) ==
    LET i == IF h.filled THEN (h.current + 1) % Slots ELSE h.current
    IN  IF ~opens THEN [h EXCEPT !.slots = Bumped(@, h.current)]
        ELSE [slots |-> [h.slots EXCEPT ![i] = [ts |-> ts, count |-> 1]],
              current |-> i, filled |-> TRUE]

(* What happened to a ring: the hits of each minute, places opened,        *)
(* minutes newer than all before, stamps that came behind a newer one, and *)
(* the newest.                                                             *)
LogAfter(g, opens, ts) ==
    [given   |-> [g.given EXCEPT ![ts] = @ + 1],
     opened  |-> g.opened + (IF opens THEN 1 ELSE 0),
     minutes |-> g.minutes + (IF ts > g.top THEN 1 ELSE 0),
     late    |-> g.late + (IF ts < g.top THEN 1 ELSE 0),
     top     |-> IF ts > g.top THEN ts ELSE g.top]

RecordMinute(t) ==
    LET k == Head(thread[t].rings)
        rest == Tail(thread[t].rings)
        ts == thread[t].stamp
    IN  /\ thread[t].at = "rings"
        /\ ring' = [ring EXCEPT ![k] = RingAfter(@, Opens(k, ts), ts)]
        /\ log' = [log EXCEPT ![k] = LogAfter(@, Opens(k, ts), ts)]
        /\ thread' = [thread EXCEPT ![t].rings = rest,
                                    ![t].at = IF rest = << >> THEN "idle" ELSE "rings"]
        /\ UNCHANGED <<countVars, minute>>

MinutePasses ==
    /\ minute < MaxMinutes
    /\ minute' = minute + 1
    /\ UNCHANGED <<countVars, thread, ringVars>>

-----------------------------------------------------------------------------
(* The places of a ring that are in use, and the count of the latest       *)
(* minute before now: lastCompletedCount.                                  *)
Used(h) == {i \in DOMAIN h.slots : h.slots[i].ts # NoMinute}

LastCompleted(h, now) ==
    LET done == {i \in Used(h) : h.slots[i].ts < now}
        latest == {i \in done : \A j \in done : h.slots[j].ts <= h.slots[i].ts}
    IN  IF done = {} THEN 0
        ELSE h.slots[CHOOSE i \in latest : \A j \in latest : i <= j].count

(* Collector.Snapshot for a rule; the time is taken before the lock.       *)
Snapshot(r, now) ==
    [hits |-> Len(took[r]),
     p50  |-> Percentile(latency[r].buf, 50),
     p95  |-> Percentile(latency[r].buf, 95),
     rate |-> LastCompleted(ring[r], now)]

-----------------------------------------------------------------------------
Next ==
    \/ \E t \in Threads : CountHit(t) \/ CountMiss(t) \/ Stamp(t) \/ RecordMinute(t)
    \/ MinutePasses

Spec == Init /\ [][Next]_vars

-----------------------------------------------------------------------------
(* The 30 places hold the last 30 minutes that had requests, less two for  *)
(* every stamp that came late, because its thread lost the processor       *)
(* between taking the time and the lock: within that window no request is  *)
(* missing from the history, and none is ever counted twice.               *)
Shown(k, m) ==
    LET count[i \in 0 .. Slots] ==
            IF i = 0 THEN 0
            ELSE count[i - 1] + (IF ring[k].slots[i - 1].ts = m
                                 THEN ring[k].slots[i - 1].count ELSE 0)
    IN  count[Slots]

NewerMinutes(k, m) == {n \in m + 1 .. MaxMinutes : log[k].given[n] > 0}

HistoryHolds ==
    \A k \in Rings, m \in 0 .. MaxMinutes :
        /\ Shown(k, m) <= log[k].given[m]
        /\ Cardinality(NewerMinutes(k, m)) + 2 * log[k].late < Slots =>
               Shown(k, m) = log[k].given[m]

(* The percentiles a snapshot reports are those of the latest latencies of *)
(* the rule, as many as the ring holds, by nearest rank: the smallest one  *)
(* that at least p percent of them do not exceed.  Its rate is that of the *)
(* latest minute before now that had a hit, unless a stamp came late.      *)
Recent(r) ==
    SubSeq(took[r], (IF Len(took[r]) > Samples THEN Len(took[r]) - Samples ELSE 0) + 1,
           Len(took[r]))

NearestRank(s, p, v) ==
    /\ Occurrences(s, v) > 0
    /\ 100 * AtMost(s, v) >= p * Len(s)
    /\ 100 * (AtMost(s, v) - Occurrences(s, v)) < p * Len(s)

HitMinutes(r, now) == {m \in 0 .. now - 1 : log[r].given[m] > 0}

SnapshotReportsRecent ==
    \A r \in Rules :
        /\ Recent(r) # << >> => /\ NearestRank(Recent(r), 50, Snapshot(r, minute).p50)
                                /\ NearestRank(Recent(r), 95, Snapshot(r, minute).p95)
        /\ log[r].late = 0 =>
               \A m \in HitMinutes(r, minute) :
                   (\A n \in HitMinutes(r, minute) : n <= m) =>
                       Snapshot(r, minute).rate = log[r].given[m]

(* The potential behind HistoryHolds: a late stamp costs two places, its   *)
(* own and the one that reopens the newest minute.                         *)
PlacesAreBounded ==
    \A k \in Rings :
        log[k].opened + (IF ring[k].filled /\ Cur(k) < log[k].top THEN 1 ELSE 0)
            <= log[k].minutes + 2 * log[k].late
=============================================================================
