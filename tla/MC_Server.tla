------------------------------ MODULE MC_Server ------------------------------
(* The line of the memory server and the queue of its expander, which share  *)
(* no state, checked in one run: Init picks the part that runs.              *)
EXTENDS ServerMemory, ExpanderQueue, TLC

VARIABLE part

\* No operation tells one connection from another.
ThreadSymmetry == Permutations(Threads)

serverPartsVars == <<part, serverVars, expanderVars>>

ServerPartsInit ==
  /\ part \in {"server", "expander"}
  /\ ServerInit
  /\ ExpanderInit /\ (part # "expander" => ~simulator)

\* The clients' clock is bounded.
Stopped == part = "server" /\ UNCHANGED serverPartsVars

ServerPartsNext ==
  \/ part = "server" /\ ServerNext /\ UNCHANGED <<part, expanderVars>>
  \/ part = "expander" /\ ExpanderNext /\ UNCHANGED <<part, serverVars>>
  \/ Stopped

ServerPartsSpec == ServerPartsInit /\ [][ServerPartsNext]_serverPartsVars
==============================================================================
