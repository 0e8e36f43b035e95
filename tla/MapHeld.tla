------------------------------ MODULE MapHeld -------------------------------
(***************************************************************************)
(* The hash map seen by the code that frees tables: MapTable implements    *)
(* MapChain, on which MapReclaim is built.                                 *)
(***************************************************************************)
EXTENDS MapTable

\* The tables in the frames that thread th is using.
Held(th) ==
    LET calling == pc[th] \notin {"idle", "load_latest", "exit"}
        tops  == IF calling THEN {top[th].latest, top[th].prev} ELSE {}
        pms   == IF Putting(th) THEN {pm[th].latest, pm[th].prev} ELSE {}
        scans == IF Scanning(th) THEN {scan[th].table} ELSE {}
    IN  (tops \union pms \union scans) \ {NULL}

Chain == INSTANCE MapChain WITH held <- [th \in Threads |-> Held(th)]

\* Threads come by tables only through hm->latest and prev pointers, a table
\* is unlinked when and only when it is retired, and it is retired once.
ImplementsChain == Chain!Spec
=============================================================================
