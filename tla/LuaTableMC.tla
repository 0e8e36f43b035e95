----------------------------- MODULE LuaTableMC -----------------------------
(***************************************************************************)
(* LuaTable with keys that collide.                                        *)
(***************************************************************************)
EXTENDS LuaTable

MCKeys == {<<"int", 1>>, <<"int", 2>>, <<"int", 4>>, <<"str", "a">>, <<"obj", "o">>}
MCHash(k) == CASE k[2] = "a" -> 4 [] k[2] = "o" -> 6
=============================================================================
