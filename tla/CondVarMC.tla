----------------------------- MODULE CondVarMC ------------------------------
(* Instances of CondVar. *)
EXTENDS CondVar, TLC

CONSTANTS t1, t2, t3, t4

Waiter   == <<"lock", "wait", "unlock">>
Timed    == <<"lock", "timedwait", "unlock">>
Caller   == <<"signal", "broadcast">>
Signaler == <<"lock", "signal", "unlock", "signal">>

MCScripts ==
    { t1 :> Waiter @@ t2 :> Waiter @@ t3 :> Timed @@ t4 :> Caller,
      t1 :> Waiter @@ t2 :> Waiter @@ t3 :> Signaler @@ t4 :> Caller,
      t1 :> Waiter @@ t2 :> Timed \o Timed @@ t3 :> Timed @@ t4 :> Caller,
      t1 :> <<"lock", "trylock", "unlock", "unlock">>
        @@ t2 :> <<"timedlock", "unlock">>
        @@ t3 :> <<"trylock", "unlock">> @@ t4 :> <<>> }

MCThreads == {t1, t2, t3, t4}
=============================================================================
