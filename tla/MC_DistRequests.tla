--------------------------- MODULE MC_DistRequests ---------------------------
(* Instances of DistRequests with two nodes. *)
EXTENDS DistRequests

Thread(n, i) == [node |-> n, thread |-> i]

\* Two client threads of node 0 forward requests to node 1; node 0, where the
\* responses arrive, has the two workers of start_processing.
MCCallers == {Thread(0, 1), Thread(0, 2)}
MCWorkers == {Thread(0, 3), Thread(0, 4), Thread(1, 3)}

\* One client thread, and one worker of each node that gets the messages.
MCCaller == {Thread(0, 1)}
MCWorkerPerNode == {Thread(n, 3) : n \in 0 .. 1}
=============================================================================
