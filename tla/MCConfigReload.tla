--------------------------- MODULE MCConfigReload ---------------------------
(* TLC instance of ConfigReload: one pod that is written through and one   *)
(* that only polls, or two that are written through.                       *)
EXTENDS ConfigReload

CONSTANTS p1, p2, s1
=============================================================================
