------------------------------ MODULE MC_Nodes ------------------------------
(* The capacity and access decisions of a server and the requests between    *)
(* servers, which share no state, in one run: Init picks the part that runs. *)
EXTENDS Fabric, MC_DistRequests

VARIABLE part

nodesVars == <<part, fabricVars, requestVars>>

NodesInit ==
  /\ part \in {"fabric", "requests"}
  /\ FabricInit /\ (part # "fabric" => extents = {})
  /\ RequestInit

\* The nodes may all have been stopped.
Stopped == part = "requests" /\ UNCHANGED nodesVars

NodesNext ==
  \/ part = "fabric" /\ FabricNext /\ UNCHANGED <<part, requestVars>>
  \/ part = "requests" /\ RequestNext /\ UNCHANGED <<part, fabricVars>>
  \/ Stopped

NodesSpec == NodesInit /\ [][NodesNext]_nodesVars

\* Mappings, pending requests, mutexes and bounded queues keep their types on
\* every path of the handlers.
NodesTypeOK == FabricTypeOK /\ RequestTypeOK
=============================================================================
