---------------------------- MODULE MapInternMC ----------------------------
(* MapIntern on small instances. *)
EXTENDS MapIntern, MapSizes
=============================================================================
