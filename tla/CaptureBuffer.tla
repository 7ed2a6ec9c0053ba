---------------------------- MODULE CaptureBuffer ----------------------------
(***************************************************************************)
(* The capture buffer (internal/matched/buffer.go) as a value: every method *)
(* of Buffer runs under its mutex and is an operator from a buffer to a    *)
(* buffer here.                                                            *)
(*                                                                         *)
(* A captured request is a record [id, rule, ttl, body].  Its two          *)
(* out-of-line bodies are stored, dropped and drained alike everywhere, so *)
(* they are one body, keyed by the id of its request.  Ids are drawn in    *)
(* increasing order and never used twice (NewID, UUID v7).                 *)
(***************************************************************************)
EXTENDS Naturals, SequencesExt

CONSTANTS
    Rules,      \* rule ids captures are filed under
    BufferCap   \* Buffer.cap

ASSUME BufferAssumption == BufferCap \in Nat \ {0}

Ref(e) == [rule |-> e.rule, id |-> e.id]

Expired(e, t) == e.ttl # 0 /\ t >= e.ttl

(* NewBuffer. *)
EmptyBuffer ==
    [byRule        |-> [r \in Rules |-> << >>],  \* rule -> captures, oldest first
     order         |-> << >>,                    \* insertion order over all rules
     bodies        |-> {},                       \* ids whose body is held
     bodyTTL       |-> {},                       \* ids whose body has a known expiry
     pending       |-> << >>,                    \* refs not drained yet
     pendingBodies |-> {}]                       \* body ids not drained yet

(* The elements of s that are in keep, in their order.                     *)
Only(s, keep) ==
    FoldLeft(LAMBDA kept, x : IF x \in keep THEN Append(kept, x) ELSE kept, << >>, s)

Entries(b) == UNION {ToSet(b.byRule[r]) : r \in Rules}
Ids(es) == {e.id : e \in es}

Holds(b, ref) == \E e \in ToSet(b.byRule[ref.rule]) : e.id = ref.id
Lookup(b, ref) ==
    b.byRule[ref.rule][SelectInSeq(b.byRule[ref.rule], LAMBDA e : e.id = ref.id)]

(* Variant: the body outlives the capture. *)
RemoveEntryNotBody(b, ref) ==
    [b EXCEPT !.byRule[ref.rule] = RemoveFirstMatch(@, LAMBDA e : e.id = ref.id)]

(* removeEntryLocked: the first capture of the rule with this id goes, and *)
(* its body with it.                                                       *)
RemoveEntry(b, ref) ==
    LET gone == IF Holds(b, ref) THEN {ref.id} ELSE {}
    IN  [b EXCEPT !.byRule[ref.rule] =
                        RemoveFirstMatch(@, LAMBDA e : e.id = ref.id),
                  !.bodies  = @ \ gone,
                  !.bodyTTL = @ \ gone]

(* Variant: the oldest pending ref goes, whichever capture is evicted. *)
EvictOldestPending(b) ==
    RemoveEntry([b EXCEPT !.order = Tail(@),
                          !.pending = IF @ = << >> THEN @ ELSE Tail(@)],
                Head(b.order))

(* One turn of the loop of evictLocked: the oldest ref also leaves the     *)
(* pending refs, but not the pending body ids.                             *)
EvictOldest(b) ==
    LET old == Head(b.order)
    IN  RemoveEntry([b EXCEPT !.order = Tail(@),
                              !.pending = RemoveFirst(@, old)], old)

(* evictLocked. *)
Evicted(b) ==
    FoldLeft(LAMBDA acc, ref : IF Len(acc.order) > BufferCap
                                 THEN EvictOldest(acc) ELSE acc,
             b, b.order)

(* Add. *)
Added(b, e) ==
    LET own == IF e.body THEN {e.id} ELSE {}
    IN  Evicted([b EXCEPT !.byRule[e.rule] = Append(@, e),
                          !.order          = Append(@, Ref(e)),
                          !.pending        = Append(@, Ref(e)),
                          !.bodies         = @ \union own,
                          !.bodyTTL        = @ \union own,
                          !.pendingBodies  = @ \union own])

(* Variant: what was hydrated is to be saved again. *)
HydratedAsPending(b, es) ==
    Evicted(FoldLeft(LAMBDA acc, e :
                        [acc EXCEPT !.byRule[e.rule] = Append(@, e),
                                    !.order = Append(@, Ref(e)),
                                    !.pending = Append(@, Ref(e))],
                     b, es))

(* Hydrate: entries of the store join at the young end and are not pending. *)
Hydrated(b, es) ==
    Evicted(FoldLeft(LAMBDA acc, e :
                        [acc EXCEPT !.byRule[e.rule] = Append(@, e),
                                    !.order = Append(@, Ref(e))],
                     b, es))

(* Variant: the order keeps the refs of the rule. *)
ClearedRuleNotOrder(b, rule) ==
    LET gone == Ids(ToSet(b.byRule[rule]))
    IN  [b EXCEPT !.byRule[rule] = << >>, !.bodies = @ \ gone, !.bodyTTL = @ \ gone]

(* Clear of one rule: the pending refs and body ids stay. *)
ClearedRule(b, rule) ==
    LET gone == Ids(ToSet(b.byRule[rule]))
    IN  [b EXCEPT !.byRule[rule] = << >>,
                  !.order   = Only(@, {o \in ToSet(@) : o.rule # rule}),
                  !.bodies  = @ \ gone,
                  !.bodyTTL = @ \ gone]

(* Clear of every rule: the expiries and the pending sets stay. *)
ClearedAll(b) ==
    [b EXCEPT !.byRule = EmptyBuffer.byRule, !.order = << >>, !.bodies = {}]

(* Drain, what it returns: the pending captures and bodies still held. *)
DrainedRequests(b) ==
    LET held == Only(b.pending, {p \in ToSet(b.pending) : Holds(b, p)})
    IN  [i \in DOMAIN held |-> Lookup(b, held[i])]
DrainedBodies(b) == b.pendingBodies \intersect b.bodies

(* Drain, what it leaves: the same captures, none of them pending. *)
Drained(b) == [b EXCEPT !.pending = << >>, !.pendingBodies = {}]

(* SweepExpired: the pending sets stay. *)
Swept(b, t) ==
    LET stale == {o \in ToSet(b.order) :
                     \E e \in ToSet(b.byRule[o.rule]) : e.id = o.id /\ Expired(e, t)}
        swept == FoldLeft(RemoveEntry, b, Only(b.order, stale))
    IN  [swept EXCEPT !.order = Only(@, ToSet(@) \ stale)]

-----------------------------------------------------------------------------
(* The read side.  A query names the captures its method, path, status,    *)
(* header and query filters match, the size of its pages, and whether it   *)
(* also filters on the body, which must then be held.                      *)

NoCursor == 0

(* Query.Matches, matchesBody and the lazy expiry of List. *)
Answers(b, e, q, t) ==
    /\ ~Expired(e, t)
    /\ e.id \in q.matching
    /\ q.onBody => e.id \in b.bodies

(* Variant: the latest to join the list is taken for the newest. *)
NewestFirstUnsorted(s) == Reverse(s)

(* The stable sort of List, newest first: a hydrated capture may stand     *)
(* behind newer ones.  The capture that comes k-th has k - 1 before it.    *)
Newer(s, i, j) == s[i].id > s[j].id \/ (s[i].id = s[j].id /\ i < j)

NewestFirst(s) ==
    [k \in DOMAIN s |->
        s[CHOOSE i \in DOMAIN s : Cardinality({j \in DOMAIN s : Newer(s, j, i)}) = k - 1]]

(* What stands behind the first capture with the cursor's id; nothing when *)
(* there is none.                                                          *)
After(s, cursor) ==
    LET at == {i \in DOMAIN s : s[i].id = cursor}
    IN  IF cursor = NoCursor THEN s
        ELSE IF at = {} THEN << >>
        ELSE SubSeq(s, 1 + CHOOSE i \in at : \A j \in at : i <= j, Len(s))

(* List: a page, and the id to go on from if nextCursorLocked finds more.  *)
Page(b, rule, q, cursor, t) ==
    LET ordered == NewestFirst(b.byRule[rule])
        Rest(id) == Only(After(ordered, id), {e \in ToSet(ordered) : Answers(b, e, q, t)})
        rest == Rest(cursor)
    IN  IF Len(rest) < q.limit THEN [items |-> rest, next |-> NoCursor]
        ELSE LET last == rest[q.limit].id
             IN  [items |-> SubSeq(rest, 1, q.limit),
                  next  |-> IF Rest(last) = << >> THEN NoCursor ELSE last]
=============================================================================
