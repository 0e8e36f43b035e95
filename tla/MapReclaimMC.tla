---------------------------- MODULE MapReclaimMC ----------------------------
(* MapReclaim on small instances. *)
EXTENDS MapReclaim

CONSTANTS t1, t2
=============================================================================
