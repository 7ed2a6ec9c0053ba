----------------------------- MODULE CaptureSync -----------------------------
(***************************************************************************)
(* Matched-request capture of one server process and its restarts: request *)
(* handlers adding captures, the write-behind Syncer flushing the buffer   *)
(* into a durable MatchedStore, the hydration of a new process from that   *)
(* store, the admin API clearing captures, Close, and the end of the       *)
(* process.  Event captures run the same code on a buffer of their own.    *)
(*                                                                         *)
(* The store is a backend with native TTL (DynamoDB, MongoDB, Cosmos): its *)
(* SweepExpired does nothing and it reaps expired items in its own time.   *)
(* Without a durable store (hasStore = FALSE) the buffer is only swept.    *)
(***************************************************************************)
EXTENDS CaptureBuffer, FiniteSets

CONSTANTS
    StoreChoices,  \* may the backend implement MatchedStore: a subset of BOOLEAN
    SaveMayFail,   \* may SaveMatched return an error?
    BodyChoices,   \* may a captured request have a body: a subset of BOOLEAN
    Queries,       \* [matching, limit, onBody]: what clients list
    PageLimit,     \* largest page of ListMatched (min of BufferSize, MaxLimit)
    TTL,           \* lifetime of a capture in clock ticks
    MaxId,         \* bound on captures taken
    MaxInFlight,   \* bound on request handlers between NewID and Add
    MaxTime,       \* bound on the clock
    MaxRestarts    \* bound on process restarts

ASSUME SyncAssumption ==
    /\ StoreChoices \subseteq BOOLEAN /\ BodyChoices \subseteq BOOLEAN
    /\ SaveMayFail \in BOOLEAN
    /\ \A q \in Queries : q.limit \in Nat \ {0}
    /\ {PageLimit, TTL, MaxInFlight} \subseteq Nat \ {0}
    /\ {MaxId, MaxTime, MaxRestarts} \subseteq Nat

VARIABLES
    buf,          \* the capture buffer
    capturing,    \* captures given an id by a handler that has yet to call Add
    lastId,       \* number of ids drawn so far
    flush,        \* flush[t]: where the flush of Run or of Close stands
    closed,       \* Syncer.done is closed
    hydration,    \* rules still to list, and the page read but not applied
    store,        \* captures in the durable store
    storeBodies,  \* bodies in the durable store
    now,          \* the clock
    up,           \* the process is running
    restarts,     \* restarts so far
    hasStore,     \* configuration: the backend implements MatchedStore
    failed        \* history: ids a failed SaveMatched did not write

storeVars == <<store, storeBodies, failed>>
handlerVars == <<capturing, lastId>>
processVars == <<now, up, restarts, hasStore>>
vars == <<buf, flush, closed, hydration,
          storeVars, handlerVars, processVars>>

Flushers == {"run", "close"}
Id == 1 .. MaxId
Entry == [id : Id, rule : Rules, ttl : Nat, body : BOOLEAN]

Idle == [at |-> "idle", reqs |-> << >>, bodies |-> {}]
NoHydration == [todo |-> {}, page |-> << >>]
StartHydration == [todo |-> IF hasStore THEN Rules ELSE {}, page |-> << >>]

Init ==
    /\ hasStore \in StoreChoices
    /\ buf = EmptyBuffer
    /\ capturing = {}
    /\ lastId = 0
    /\ flush = [t \in Flushers |-> Idle]
    /\ closed = FALSE
    /\ hydration = StartHydration
    /\ store = {} /\ storeBodies = {}
    /\ now = 0
    /\ up = TRUE
    /\ restarts = 0
    /\ failed = {}

-----------------------------------------------------------------------------
(* Request handlers: captureMatched draws an id and a TTL, and only later  *)
(* does Add take the buffer's mutex.                                       *)

(* Variant: ids are drawn from zero. *)
BeginCaptureFromZero(rule, body) ==
    /\ up
    /\ lastId < MaxId
    /\ Cardinality(capturing) < MaxInFlight
    /\ lastId' = lastId + 1
    /\ capturing' = capturing \union
           {[id |-> lastId, rule |-> rule, ttl |-> now + TTL, body |-> body]}
    /\ UNCHANGED <<buf, flush, closed, hydration, storeVars, processVars>>

BeginCapture(rule, body) ==
    /\ up
    /\ lastId < MaxId
    /\ Cardinality(capturing) < MaxInFlight
    /\ lastId' = lastId + 1
    /\ capturing' = capturing \union
           {[id |-> lastId + 1, rule |-> rule, ttl |-> now + TTL, body |-> body]}
    /\ UNCHANGED <<buf, flush, closed, hydration, storeVars, processVars>>

Add(e) ==
    /\ up
    /\ e \in capturing
    /\ capturing' = capturing \ {e}
    /\ buf' = Added(buf, e)
    /\ UNCHANGED <<lastId, flush, closed, hydration, storeVars, processVars>>

(* DELETE /api/matched/{rule} and DELETE /api/matched: the buffer only. *)
Clear(rule) ==
    /\ up
    /\ buf.byRule[rule] # << >>
    /\ buf' = ClearedRule(buf, rule)
    /\ UNCHANGED <<flush, closed, hydration, storeVars, handlerVars, processVars>>

ClearAll ==
    /\ up
    /\ Entries(buf) # {}
    /\ buf' = ClearedAll(buf)
    /\ UNCHANGED <<flush, closed, hydration, storeVars, handlerVars, processVars>>

-----------------------------------------------------------------------------
(* The Syncer.  A flush is Drain, SaveMatched, Buffer.SweepExpired; Run and *)
(* Close may be inside one at the same time.                               *)

CloseBegin ==
    /\ up /\ ~closed
    /\ closed' = TRUE
    /\ flush' = [flush EXCEPT !["close"].at = IF hasStore THEN "drain" ELSE "stopped"]
    /\ hydration' = [hydration EXCEPT !.todo = {}]
    /\ UNCHANGED <<buf, storeVars, handlerVars, processVars>>

(* Variant: a flush waits until the batch is as large as the buffer. *)
FlushDrainWhenFull(t) ==
    LET reqs == DrainedRequests(buf)
    IN  /\ up /\ hasStore
        /\ flush[t].at = IF t = "run" THEN "idle" ELSE "drain"
        /\ Len(reqs) >= BufferCap
        /\ flush' = [flush EXCEPT ![t] =
               [at |-> "save", reqs |-> reqs, bodies |-> DrainedBodies(buf)]]
        /\ buf' = Drained(buf)
        /\ UNCHANGED <<closed, hydration, storeVars, handlerVars, processVars>>

(* Drain, by the tick of Run or by Close.  An empty batch is not saved. *)
FlushDrain(t) ==
    LET reqs == DrainedRequests(buf)
    IN  /\ up /\ hasStore
        /\ flush[t].at = IF t = "run" THEN "idle" ELSE "drain"
        /\ flush' = [flush EXCEPT ![t] =
               [at     |-> IF reqs = << >> THEN "sweep" ELSE "save",
                reqs   |-> reqs,
                bodies |-> IF reqs = << >> THEN {} ELSE DrainedBodies(buf)]]
        /\ buf' = Drained(buf)
        /\ UNCHANGED <<closed, hydration, storeVars, handlerVars, processVars>>

(* SaveMatched writes item by item, requests before bodies, and returns at *)
(* the first error.  The Syncer ignores the error.                         *)
FlushSave(t) ==
    LET reqs == flush[t].reqs
        bodies == flush[t].bodies
    IN  /\ up
        /\ flush[t].at = "save"
        /\ \E n \in 0 .. Len(reqs), written \in SUBSET bodies :
               LET done == ToSet(SubSeq(reqs, 1, n))
                   complete == n = Len(reqs) /\ written = bodies
               IN  /\ n < Len(reqs) => written = {}
                   /\ SaveMayFail \/ complete
                   /\ store' = store \union done
                   /\ storeBodies' = storeBodies \union written
                   /\ failed' = failed \union Ids(ToSet(reqs) \ done)
                                       \union (bodies \ written)
        /\ flush' = [flush EXCEPT ![t] = [Idle EXCEPT !.at = "sweep"]]
        /\ UNCHANGED <<buf, closed, hydration, handlerVars, processVars>>

FlushSweep(t) ==
    /\ up
    /\ flush[t].at = "sweep"
    /\ buf' = Swept(buf, now)
    /\ flush' = [flush EXCEPT ![t].at = IF t = "run" THEN "idle" ELSE "stopped"]
    /\ UNCHANGED <<closed, hydration, storeVars, handlerVars, processVars>>

(* Run returns when it finds done closed. *)
RunStops ==
    /\ up /\ closed
    /\ flush["run"].at = "idle"
    /\ flush' = [flush EXCEPT !["run"].at = "stopped"]
    /\ UNCHANGED <<buf, closed, hydration, storeVars, handlerVars, processVars>>

(* Variant: only a full buffer is swept. *)
MemorySweepWhenFull ==
    /\ up /\ ~hasStore /\ ~closed
    /\ Len(buf.order) = BufferCap
    /\ Swept(buf, now) # buf
    /\ buf' = Swept(buf, now)
    /\ UNCHANGED <<flush, closed, hydration, storeVars, handlerVars, processVars>>

(* The tick of runMatchedSweep, which runs instead of a Syncer. *)
MemorySweep ==
    /\ up /\ ~hasStore /\ ~closed
    /\ Swept(buf, now) # buf
    /\ buf' = Swept(buf, now)
    /\ UNCHANGED <<flush, closed, hydration, storeVars, handlerVars, processVars>>

-----------------------------------------------------------------------------
(* Hydration of a new process, one rule at a time. *)

Newest(rule) ==
    LET found == {e \in store : e.rule = rule}
        Place(e) == Cardinality({d \in found : d.id >= e.id})
    IN  [k \in 1 .. Min({Cardinality(found), PageLimit}) |->
            CHOOSE e \in found : Place(e) = k]

(* ListMatched answers a page; after an error the rule is skipped. *)
HydrateList(rule) ==
    /\ up
    /\ rule \in hydration.todo
    /\ hydration.page = << >>
    /\ hydration' \in [todo : {hydration.todo \ {rule}}, page : {Newest(rule), << >>}]
    /\ UNCHANGED <<buf, flush, closed, storeVars, handlerVars, processVars>>

HydrateApply ==
    /\ up
    /\ hydration.page # << >>
    /\ buf' = Hydrated(buf, hydration.page)
    /\ hydration' = [hydration EXCEPT !.page = << >>]
    /\ UNCHANGED <<flush, closed, storeVars, handlerVars, processVars>>

-----------------------------------------------------------------------------
(* The backend, the clock and the process. *)

(* Native TTL.  The backend reaps the body in its own time; nobody asks    *)
(* for it once its request is gone, so it goes with it.                    *)
StoreReap(e) ==
    /\ e \in store
    /\ Expired(e, now)
    /\ store' = store \ {e}
    /\ storeBodies' = storeBodies \ {e.id}
    /\ UNCHANGED <<buf, flush, closed, hydration, failed,
                   handlerVars, processVars>>

Tick ==
    /\ now < MaxTime
    /\ now' = now + 1
    /\ UNCHANGED <<buf, flush, closed, hydration, storeVars,
                   handlerVars, up, restarts, hasStore>>

(* On a signal the program calls Server.Shutdown, which stops the broker,  *)
(* the reloader and the admin API and leaves the syncers alone, and exits. *)
Shutdown ==
    /\ up
    /\ up' = FALSE
    /\ UNCHANGED <<buf, flush, closed, hydration, storeVars,
                   handlerVars, now, restarts, hasStore>>

Restart ==
    /\ ~up
    /\ restarts < MaxRestarts
    /\ restarts' = restarts + 1
    /\ up' = TRUE
    /\ buf' = EmptyBuffer
    /\ capturing' = {}
    /\ flush' = [t \in Flushers |-> Idle]
    /\ closed' = FALSE
    /\ hydration' = StartHydration
    /\ UNCHANGED <<lastId, storeVars, now, hasStore>>

Next ==
    \/ \E rule \in Rules, body \in BodyChoices : BeginCapture(rule, body)
    \/ \E e \in capturing : Add(e)
    \/ \E rule \in Rules : Clear(rule)
    \/ ClearAll
    \/ CloseBegin
    \/ \E t \in Flushers : FlushDrain(t)
    \/ \E t \in Flushers : FlushSave(t)
    \/ \E t \in Flushers : FlushSweep(t)
    \/ RunStops
    \/ MemorySweep
    \/ \E rule \in Rules : HydrateList(rule)
    \/ HydrateApply
    \/ \E e \in store : StoreReap(e)
    \/ Tick
    \/ Shutdown
    \/ Restart

Spec == Init /\ [][Next]_vars

(* The tickers of Run and of runMatchedSweep fire again and again, and a   *)
(* flush that has begun goes on.  Requests, clears, close and shutdown need *)
(* not happen.                                                             *)
Fairness ==
    /\ \A t \in Flushers :
          WF_vars(FlushDrain(t) \/ FlushSave(t) \/ FlushSweep(t))
    /\ WF_vars(MemorySweep)

FairSpec == Spec /\ Fairness

-----------------------------------------------------------------------------
(* What a buffer may be (Buffer).                                         *)
Buffers ==
    [byRule : [Rules -> Seq(Entry)], order : Seq([rule : Rules, id : Id]),
     bodies : SUBSET Id, bodyTTL : SUBSET Id,
     pending : Seq([rule : Rules, id : Id]), pendingBodies : SUBSET Id]

(* The types of the buffer, of the goroutines' state and of the store.     *)
TypeOK ==
    /\ buf \in Buffers
    /\ capturing \subseteq Entry
    /\ lastId \in 0 .. MaxId
    /\ flush \in [Flushers -> [at     : {"idle", "drain", "save", "sweep", "stopped"},
                               reqs   : Seq(Entry),
                               bodies : SUBSET Id]]
    /\ hydration \in [todo : SUBSET Rules, page : Seq(Entry)]
    /\ store \subseteq Entry /\ storeBodies \subseteq Id
    /\ closed \in BOOLEAN /\ up \in BOOLEAN
    /\ now \in 0 .. MaxTime /\ restarts \in 0 .. MaxRestarts
    /\ failed \subseteq Id /\ hasStore \in BOOLEAN

IdsOf(s) == [i \in DOMAIN s |-> s[i].id]

(* The global insertion order and the per-rule lists of the buffer never   *)
(* drift apart, so that eviction counts and removes what is really there,  *)
(* and keeps within capacity, also when hydration has put a capture in     *)
(* twice (evictLocked, removeEntryLocked, Clear, SweepExpired).            *)
OrderMirrorsRules ==
    /\ Len(buf.order) <= BufferCap
    /\ \A r \in Rules :
          IdsOf(buf.byRule[r]) =
              IdsOf(Only(buf.order, {o \in ToSet(buf.order) : o.rule = r}))

(* A body held out of line belongs to a capture still held, and its expiry *)
(* is known, so that the item the store is given for it can expire         *)
(* (removeEntryLocked, bodyTTL).                                           *)
BodiesAreOwned ==
    /\ buf.bodies \subseteq Ids({e \in Entries(buf) : e.body})
    /\ buf.bodies \subseteq buf.bodyTTL

InBatch(id) == \E t \in Flushers : id \in Ids(ToSet(flush[t].reqs))

Pending(id) == id \in Ids(ToSet(buf.pending))

(* A capture that is held and has not expired is pending, in the batch of  *)
(* a flush, or in the store with its body, unless the write of it failed:  *)
(* the dirty tracking of Add, Hydrate and Drain forgets nothing.           *)
BufferedIsSafe ==
    hasStore =>
        \A e \in Entries(buf) :
            \/ Pending(e.id)
            \/ InBatch(e.id)
            \/ e \in store /\ (e.body => e.id \in storeBodies)
            \/ e.id \in failed
            \/ Expired(e, now)

(* A capture is handed to the store at most once: the batches of Run and   *)
(* Close are disjoint and nothing that came from the store goes back.      *)
SavedOnce ==
    /\ \A e \in ToSet(flush["run"].reqs) : e \notin ToSet(flush["close"].reqs)
    /\ \A t \in Flushers : ToSet(flush[t].reqs) \intersect store = {}
    /\ \A e \in store : ~Pending(e.id)

HeldOnce(rule) ==
    Cardinality(Ids(ToSet(buf.byRule[rule]))) = Len(buf.byRule[rule])

Several(rule) == Len(buf.byRule[rule]) > 1

(* A client that echoes the cursor of a page goes on with the next older   *)
(* captures, none twice and none skipped, and no cursor means no more,     *)
(* whatever joined, left or was reordered between the two requests (List,  *)
(* nextCursorLocked).  It is so while the capture of the cursor is held    *)
(* and hydration has put none of the rule in twice.                        *)
GoesOn(rule, q, last, page) ==
    LET older == {e \in ToSet(buf'.byRule[rule]) : e.id < last /\ Answers(buf', e, q, now')}
        shown == ToSet(page.items)
    IN  /\ shown \subseteq older
        /\ \A e \in older \ shown : \A s \in shown : e.id < s.id
        /\ Cardinality(shown) = Len(page.items)
        /\ (page.next = NoCursor) <=> (shown = older)

PagesGoOn ==
    [][buf' # buf =>
         \A rule \in {r \in Rules : Several(r)}, q \in Queries :
           LET last == Page(buf, rule, q, NoCursor, now).next
           IN  last # NoCursor /\ Holds(buf', [rule |-> rule, id |-> last]) /\ HeldOnce(rule)' =>
                   GoesOn(rule, q, last, Page(buf', rule, q, last, now'))]_vars

(* A pending capture reaches the store, or leaves the buffer, or the write *)
(* of it fails, or the process ends: the ticks of Run and the flush of     *)
(* Close see to that, unless it was added after the flush of Close.        *)
PendingIsFlushed ==
    \A id \in 1 .. MaxId :
        hasStore /\ Pending(id) /\ up /\ (closed => flush["close"].at = "drain") ~>
            \/ id \in Ids(store)
            \/ id \notin Ids(Entries(buf))
            \/ id \in failed
            \/ ~up

(* An expired capture leaves the buffer for good while the process runs    *)
(* and is not closed: the sweep misses no entry, whatever is added,        *)
(* hydrated and cleared meanwhile (SweepExpired, runMatchedSweep).         *)
ExpiredIsSwept ==
    \A id \in 1 .. MaxId :
        (\E e \in Entries(buf) : e.id = id /\ Expired(e, now)) ~>
            id \notin Ids(Entries(buf)) \/ closed \/ ~up

-----------------------------------------------------------------------------
(* A promise of the documentation that the code does not keep.             *)

(* Clearing a rule removes its captures from the buffer and the store. The *)
(* handler clears the buffer and never asks the store (DeleteMatched).     *)
ClearEmptiesStore ==
    [][\A rule \in Rules : Clear(rule) => \A e \in store' : e.rule # rule]_buf
=============================================================================
