----------------------------- MODULE MCMetrics ------------------------------
(***************************************************************************)
(* Two threads, so that one stamp can come late; rings of three places for *)
(* four minutes; more hits than samples are kept.                          *)
(***************************************************************************)
EXTENDS Metrics, TLC

MCLatencies == {1, 3}

Symmetry == Permutations(Threads)
=============================================================================
