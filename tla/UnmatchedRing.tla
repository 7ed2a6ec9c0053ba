---------------------------- MODULE UnmatchedRing ----------------------------
(***************************************************************************)
(* The ring buffer of unmatched requests (internal/unmatched/buffer.go):   *)
(* slots that are overwritten in a circle, the index of the next write and *)
(* the number of slots in use.  Every method runs under the buffer's       *)
(* mutex.  Clear leaves the slots as they are.                             *)
(*                                                                         *)
(* A request is a record [key, at]: the key stands for path and body,      *)
(* which ListDeduped compares, and at for all the rest.                    *)
(***************************************************************************)
EXTENDS Naturals, SequencesExt, FiniteSets

CONSTANTS
    Requests,  \* what is captured of a request
    Cap,       \* Buffer.cap
    Blank      \* the zero Request of a slot never written

ASSUME RingAssumption == Cap \in Nat \ {0} /\ Blank \notin Requests

VARIABLES
    ring,  \* the slots
    size,  \* slots in use
    head   \* slot of the next write

vars == <<ring, size, head>>

Slot == 0 .. Cap - 1

(* NewBuffer. *)
Init ==
    /\ ring = [i \in Slot |-> Blank]
    /\ size = 0
    /\ head = 0

(* Variant: the index does not wrap. *)
AddUnwrapped(r) ==
    /\ ring' = [ring EXCEPT ![head] = r]
    /\ head' = head + 1
    /\ size' = IF size < Cap THEN size + 1 ELSE size

Add(r) ==
    /\ ring' = [ring EXCEPT ![head] = r]
    /\ head' = (head + 1) % Cap
    /\ size' = IF size < Cap THEN size + 1 ELSE size

(* Variant: the next write stays where it was. *)
ClearNotHead ==
    /\ size' = 0
    /\ UNCHANGED <<ring, head>>

Clear ==
    /\ size' = 0
    /\ head' = 0
    /\ UNCHANGED ring

Next == (\E r \in Requests : Add(r)) \/ Clear

Spec == Init /\ [][Next]_vars

(* List: once the ring is full, the slots from head on and then those      *)
(* before it.                                                              *)
List ==
    IF size < Cap
      THEN [i \in 1 .. size |-> ring[i - 1]]
      ELSE [i \in 1 .. size |-> IF i <= Cap - head THEN ring[head + i - 1]
                                                   ELSE ring[head + i - 1 - Cap]]

(* ListDeduped: a walk from the newest to the oldest that keeps a request  *)
(* whose key it has not seen, and counts the requests with that key.       *)
CountOf(key) == Cardinality({i \in DOMAIN List : List[i].key = key})

Kept(kept, r) ==
    IF \E i \in DOMAIN kept : kept[i].request.key = r.key
      THEN kept
      ELSE Append(kept, [request |-> r, count |-> CountOf(r.key)])

(* Variant: the first occurrence is kept. *)
ListDedupedFirst == FoldLeft(Kept, << >>, List)

ListDeduped == Reverse(FoldLeft(Kept, << >>, Reverse(List)))

-----------------------------------------------------------------------------
(* The slots, and the two indexes over them (Buffer's fields).             *)
TypeOK ==
    /\ ring \in [Slot -> Requests \union {Blank}]
    /\ size \in 0 .. Cap
    /\ head \in Slot

(* The ring implements the log: Add and Clear, through List, are what they *)
(* are for the log, wherever the ring has wrapped (Add, List, Clear).      *)
Log == INSTANCE UnmatchedLog WITH log <- List
ImplementsLog == Log!Spec

(* ListDeduped shows the last occurrence of every key, in the order of     *)
(* capture, and every captured request is counted in exactly one entry.    *)
LastOnes == {i \in DOMAIN List : \A j \in i + 1 .. Len(List) : List[j].key # List[i].key}

DedupIsComplete ==
    LET place(i) == Cardinality({j \in LastOnes : j <= i})
    IN  /\ Len(ListDeduped) = Cardinality(LastOnes)
        /\ \A i \in LastOnes : ListDeduped[place(i)].request = List[i]
        /\ FoldLeft(LAMBDA sum, e : sum + e.count, 0, ListDeduped) = Len(List)
=============================================================================
