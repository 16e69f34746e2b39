---------------------------- MODULE MCSyncDriver ----------------------------
(***************************************************************************)
(* A chain of two directories below the root, the lower of which changes.  *)
(***************************************************************************)
EXTENDS SyncDriver

CONSTANTS mid, leaf, c1, c2

Chain == [d \in Dir |-> IF d = mid THEN None ELSE mid]

Use(watching, reconnect, config) ==
    [watching |-> watching, reconnect |-> reconnect, strategy |-> Fast,
     config |-> config]

\* One watching process at a time: with two changes; with a local notifier
\* that fills the socket; with connections that break and set-ups that fail,
\* with and without --reconnect; and single runs under two configurations.
Instances ==
    {[usage |-> {Use(TRUE, FALSE, c1)}, ver |-> 2, faults |-> FALSE, local |-> 0],
     [usage |-> {Use(TRUE, FALSE, c1)}, ver |-> 1, faults |-> FALSE, local |-> Queue + 1],
     [usage |-> {Use(TRUE, TRUE, c1), Use(TRUE, FALSE, c1)},
      ver |-> 1, faults |-> TRUE, local |-> 0],
     [usage |-> {Use(FALSE, FALSE, c1), Use(FALSE, FALSE, c2)},
      ver |-> 1, faults |-> FALSE, local |-> 0]}

=============================================================================
