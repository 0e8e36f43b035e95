------------------------------- MODULE LuaMap -------------------------------
(***************************************************************************)
(* What a table of Lua promises: each key has the value it was given last, *)
(* and # gives a border, a number that is in use and the next one is not.  *)
(***************************************************************************)
EXTENDS Integers

CONSTANTS Keys, Nil, ValueOf(_)

VARIABLES content, length

Border(c, n) ==
    LET used(i) == <<"int", i>> \in Keys /\ c[<<"int", i>>] # Nil
    IN  (n > 0 => used(n)) /\ ~used(n + 1)

Init == content = [k \in Keys |-> Nil] /\ length = 0

\* At most one key gets its value or none; the others keep theirs.  Which border
\* # gives may depend on more than the content.
Becomes(old, new, n) ==
    /\ \/ new = old
       \/ \E k \in Keys : /\ new = [old EXCEPT ![k] = new[k]]
                          /\ new[k] \in {Nil, ValueOf(k)}
    /\ Border(new, n)

Next == \E old \in {content}, new \in {content'}, n \in {length'} : Becomes(old, new, n)

Spec == Init /\ [][Next]_<<content, length>>
=============================================================================
