---------------------------- MODULE UnmatchedLog ----------------------------
(***************************************************************************)
(* What internal/unmatched promises: a log of the latest Cap requests that *)
(* matched no rule, oldest first.                                          *)
(***************************************************************************)
EXTENDS Naturals, Sequences

CONSTANTS
    Requests,  \* what is captured of a request
    Cap        \* how many are kept

VARIABLE log

Init == log = << >>

(* A full log forgets its oldest request. *)
Add(r) ==
    log' = IF Len(log) < Cap THEN Append(log, r) ELSE Append(Tail(log), r)

Clear == log' = << >>

Next == (\E r \in Requests : Add(r)) \/ Clear

Spec == Init /\ [][Next]_log
=============================================================================
