------------------------------ MODULE MCTools ------------------------------
(* The values setWorkersLimit is given, which a .cfg cannot write: one     *)
(* below zero, zero, and two that differ in parallel mode.                 *)
EXTENDS Tools

MCLimits == {-1, 0, 1, 2, 3}
=============================================================================
