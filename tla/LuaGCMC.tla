------------------------------ MODULE LuaGCMC -------------------------------
(* LuaGC on small heaps. *)
EXTENDS LuaGC

\* Each brings one part of the collector out: traversed tables that change,
\* ephemerons, upvalues, finalizers, and strings that come back.
SmallMixes == {<<"weak keys", "userdata">>, <<"closure", "upvalue", "table">>,
               <<"file", "weak values">>, <<"string", "weak">>}
=============================================================================
