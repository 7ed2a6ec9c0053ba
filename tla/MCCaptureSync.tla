---------------------------- MODULE MCCaptureSync ----------------------------
(* TLC instance of CaptureSync: up to two rules, a buffer of two captures. *)
EXTENDS CaptureSync, TLC

CONSTANTS r1, r2

(* Pages of one: of all captures, and of those whose body matches. *)
MCQueries ==
    {[matching |-> 1 .. MaxId, limit |-> 1, onBody |-> FALSE],
     [matching |-> {1, 3}, limit |-> 1, onBody |-> TRUE]}

Symmetry == Permutations(Rules)
=============================================================================
