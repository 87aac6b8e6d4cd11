-------------------------------- MODULE Swmr --------------------------------
(***************************************************************************)
(* What a coherent cacheline promises to the nodes that use it: at any     *)
(* time either one node may write it and nobody else holds it, or any      *)
(* number of nodes hold it for reading.  A store takes the line from       *)
(* everybody else in the same step; a load takes the right to write from   *)
(* another writer.                                                         *)
(***************************************************************************)
CONSTANTS Nodes, NoNode

VARIABLES
  holders,          \* nodes with a valid copy
  writer            \* the node that may write, or NoNode

swmrVars == <<holders, writer>>

Init == holders = {} /\ writer = NoNode

Load(n) ==
  /\ holders' = holders \cup {n}
  /\ writer' = IF writer = n THEN n ELSE NoNode

Store(n) ==
  /\ holders' = {n}
  /\ writer' = n

Next == \E n \in Nodes : Load(n) \/ Store(n)

Spec == Init /\ [][Next]_swmrVars
=============================================================================
