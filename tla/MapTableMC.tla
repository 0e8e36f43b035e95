---------------------------- MODULE MapTableMC ----------------------------
(* MapTable on small instances. *)
EXTENDS MapTable, MapSizes
=============================================================================
