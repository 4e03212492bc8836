--------------------------- MODULE DispatchTable ---------------------------
(***************************************************************************)
(* The table that joins the two planes: the handlers of Governance insert   *)
(* its rows, the loop of Executor polls them.                               *)
(***************************************************************************)
EXTENDS Sequences

VARIABLE dispatches  \* the rows of dispatches, oldest first

HasRow(r) == \E i \in DOMAIN dispatches : dispatches[i].req = r

=============================================================================
