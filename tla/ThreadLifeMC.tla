---------------------------- MODULE ThreadLifeMC ----------------------------
(* Instances of ThreadLife. *)
EXTENDS ThreadLife, TLC

CONSTANTS main, t1, t2, k1, k2, k3, k4

Storage(k) == << <<"tss_create", k>>, <<"tss_set", k>> >>

Start == << <<"create", t1>>, <<"create", t2>> >>

\* One-time initialisation; two threads that register destructors, of which one
\* deletes its key; a deleted key's index used again, until the table
\* is full; no index left.
MCScripts ==
    { main :> Start \o << <<"once", main>>, <<"detach", t1>>, <<"join", t2>> >>
        @@ t1 :> << <<"once", t1>>, <<"exit", t1>> >> @@ t2 :> << <<"once", t2>> >>,
      main :> Start \o << <<"join", t1>>, <<"exit", main>> >>
        @@ t1 :> Storage(k1) @@ t2 :> Storage(k2),
      main :> Storage(k1) \o << <<"tss_delete", k1>>, <<"create", t1>>, <<"join", t1>> >>
        @@ t1 :> Storage(k2) \o Storage(k4) \o Storage(k3) @@ t2 :> <<>>,
      main :> << <<"tss_create", k1>>, <<"create", t1>>, <<"tss_create", k2>> >>
        @@ t1 :> << <<"tss_set", k1>>, <<"tss_create", k3>>, <<"tss_create", k4>>,
                  <<"tss_set", k3>> >>
        @@ t2 :> <<>> }

MCThreads == {main, t1, t2}
=============================================================================
