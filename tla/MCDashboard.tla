---------------------------- MODULE MCDashboard -----------------------------
(***************************************************************************)
(* Two keys, one captured in two variants; a ring that wraps; a channel    *)
(* with room for one snapshot, so that it is often full.                   *)
(***************************************************************************)
EXTENDS Dashboard

MCRequests == {[key |-> "a", at |-> 1], [key |-> "a", at |-> 2], [key |-> "b", at |-> 1]}
=============================================================================
