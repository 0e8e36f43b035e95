----------------------------- MODULE FreeListMC -----------------------------
(* FreeList on small instances. *)
EXTENDS FreeList
=============================================================================
