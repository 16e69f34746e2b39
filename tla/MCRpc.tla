------------------------------- MODULE MCRpc -------------------------------
(***************************************************************************)
(* Instance of Rpc for TLC.  Three threads, so that two can be waiting for *)
(* their turn while one commits or prepares; and two threads with          *)
(* longer calls, of which one turns the watch on, prepares or runs a       *)
(* transaction beside another's.                                           *)
(***************************************************************************)
EXTENDS Rpc, TLC

CONSTANTS t1, t2, t3

Three(p, q, r) == t1 :> p @@ t2 :> q @@ t3 :> r
Two(p, q) == Three(p, q, <<>>)

Transaction == <<"StartTx", "Edit", "Commit">>
GivenUp == <<"StartTx", "Edit", "Abort">>
Watching == <<"Watch", "Register", "Get">>
Preparing == <<"Register", "ForDirtyDir">>
Reading == <<"Get">>

MCPlans ==
    {Three(Transaction, Reading, Reading), Three(Preparing, Reading, Reading),
     Two(Transaction, Transaction), Two(GivenUp, Preparing),
     Two(Transaction, Preparing), Two(Watching, Preparing), Two(Watching, Reading)}
=============================================================================
