-------------------------- MODULE CoherencyEngine --------------------------
(***************************************************************************)
(* The MOESI directory of coherency_engine.cpp, for one cacheline: entries *)
(* never interact, and every handler holds the entry's lock for its whole  *)
(* body, so one handler is one step.  An entry that does not exist yet is  *)
(* the entry DirectoryEntry() makes.  The handle_remote_* handlers are     *)
(* left out: the code that would send them their messages is not compiled. *)
(*                                                                         *)
(* The engine sends no packets: it charges a latency per coherency message *)
(* it would send.  `view` records what those messages and the responses    *)
(* tell each node, and `fresh` who holds the last written data, so that    *)
(* the directory can be compared with what the nodes believe.  No          *)
(* transition that has a caller enters EXCLUSIVE, so its cases are left    *)
(* out, as are latencies, counters, heads and the version number.          *)
(***************************************************************************)
EXTENDS Naturals, FiniteSets

CONSTANTS
  Nodes,            \* node ids
  NoNode,           \* UINT32_MAX
  Memory            \* the line's home memory, as a place that holds data

ASSUME CohAssumption ==
  /\ NoNode \notin Nodes
  /\ Memory \notin Nodes

VARIABLES
  state, owner_node, sharer_nodes, has_dirty_data,   \* DirectoryEntry
  view,             \* view[n]: the state node n was last told it is in
  fresh             \* places whose copy is the last written one

cohVars == <<state, owner_node, sharer_nodes, has_dirty_data, view, fresh>>

States == {"INVALID", "SHARED", "OWNED", "MODIFIED"}
-----------------------------------------------------------------------------
CohInit ==
  /\ state = "INVALID" /\ owner_node = NoNode /\ sharer_nodes = {}
  /\ has_dirty_data = FALSE
  /\ view = [n \in Nodes |-> "INVALID"]
  /\ fresh = {Memory}

\* Node n receives a copy of the line from src.
Receive(n, src) ==
  fresh' = IF src \in fresh THEN fresh \cup {n} ELSE fresh \ {n}

ReadHit(n) ==
  \/ owner_node = n /\ state \in {"MODIFIED", "OWNED"}
  \/ n \in sharer_nodes

\* A hit changes nothing but the requester's view.
ReadHitStep(n) ==
  /\ ReadHit(n)
  /\ view' = [view EXCEPT ![n] =
                IF owner_node = n /\ state \in {"MODIFIED", "OWNED"}
                THEN state ELSE "SHARED"]
  /\ UNCHANGED <<state, owner_node, sharer_nodes, has_dirty_data, fresh>>

\* The first reader becomes sharer and nominal owner; data from memory.
ReadInvalid(n) ==
  /\ ~ ReadHit(n) /\ state = "INVALID"
  /\ sharer_nodes' = sharer_nodes \cup {n}
  /\ state' = "SHARED" /\ owner_node' = n
  /\ view' = [view EXCEPT ![n] = "SHARED"]
  /\ Receive(n, Memory)
  /\ UNCHANGED has_dirty_data

ReadShared(n) ==
  /\ ~ ReadHit(n) /\ state = "SHARED"
  /\ sharer_nodes' = sharer_nodes \cup {n}
  /\ view' = [view EXCEPT ![n] = "SHARED"]
  /\ Receive(n, Memory)
  /\ UNCHANGED <<state, owner_node, has_dirty_data>>

ReadModified_Bug(n) ==
  /\ ~ ReadHit(n) /\ state = "MODIFIED"
  /\ state' = "SHARED"
  /\ sharer_nodes' = sharer_nodes \cup {n}
  /\ view' = [view EXCEPT ![n] = "SHARED", ![owner_node] = "OWNED"]
  /\ Receive(n, owner_node)
  /\ UNCHANGED <<owner_node, has_dirty_data>>

\* fetch_from_owner: the owner keeps the dirty line and becomes OWNED.
ReadModified(n) ==
  /\ ~ ReadHit(n) /\ state = "MODIFIED"
  /\ state' = "OWNED"
  /\ sharer_nodes' = sharer_nodes \cup {n}
  /\ view' = [view EXCEPT ![n] = "SHARED", ![owner_node] = "OWNED"]
  /\ Receive(n, owner_node)
  /\ UNCHANGED <<owner_node, has_dirty_data>>

ReadOwned(n) ==
  /\ ~ ReadHit(n) /\ state = "OWNED"
  /\ sharer_nodes' = sharer_nodes \cup {n}
  /\ view' = [view EXCEPT ![n] = "SHARED"]
  /\ Receive(n, owner_node)
  /\ UNCHANGED <<state, owner_node, has_dirty_data>>

process_read(n) ==
  \/ ReadHitStep(n)
  \/ ReadInvalid(n) \/ ReadShared(n)
  \/ ReadModified(n) \/ ReadOwned(n)
-----------------------------------------------------------------------------
Invalidated_Bug(n) ==
  IF state \in {"SHARED", "OWNED"} THEN sharer_nodes \ {n}
  ELSE IF state = "MODIFIED" THEN {owner_node} \ {n} ELSE {}

\* The nodes a write by n sends an invalidation: the sharers
\* (invalidate_sharers) and, unless n is the owner, the owner.
Invalidated(n) ==
  CASE state = "INVALID" -> {}
    [] state = "SHARED"  -> sharer_nodes \ {n}
    [] state = "MODIFIED" -> {owner_node} \ {n}
    [] state = "OWNED"   -> (sharer_nodes \cup {owner_node}) \ {n}

WriteOwnHit(n) == owner_node = n /\ state = "MODIFIED"

\* A write hit of the owner leaves the sharer set; every other write clears
\* it and makes n the owner.
process_write(n) ==
  /\ state' = "MODIFIED" /\ has_dirty_data' = TRUE
  /\ owner_node' = n
  /\ sharer_nodes' = IF WriteOwnHit(n) THEN sharer_nodes ELSE {}
  /\ view' = [m \in Nodes |-> IF m = n THEN "MODIFIED"
                              ELSE IF m \in Invalidated(n) THEN "INVALID"
                              ELSE view[m]]
  /\ fresh' = {n}

\* An atomic is a write with a latency surcharge.
process_atomic(n) == process_write(n)
-----------------------------------------------------------------------------
\* Every access of the servers and endpoints goes through these.
CohNext ==
  \E n \in Nodes : process_read(n) \/ process_write(n) \/ process_atomic(n)

CohSpec == CohInit /\ [][CohNext]_cohVars

-----------------------------------------------------------------------------
\* The entry's fields and the views have their types; the nominal owner that
\* process_read sets is a node and never slips into the sharers as UINT32_MAX.
CohTypeOK ==
  /\ state \in States
  /\ owner_node \in Nodes \cup {NoNode}
  /\ sharer_nodes \subseteq Nodes
  /\ has_dirty_data \in BOOLEAN
  /\ view \in [Nodes -> States]
  /\ fresh \subseteq Nodes \cup {Memory}

\* The directory knows exactly what the nodes hold: nobody holds an INVALID
\* line, the sharers of a SHARED one, the owner alone a MODIFIED one, and the
\* owner and the sharers an OWNED one.  This is the inductive invariant.
DirectoryMatchesViews ==
  /\ state = "INVALID" =>
       owner_node = NoNode /\ sharer_nodes = {} /\ (\A n \in Nodes : view[n] = "INVALID")
  /\ state = "SHARED" =>
       /\ owner_node \in sharer_nodes
       /\ \A n \in Nodes : view[n] = IF n \in sharer_nodes THEN "SHARED" ELSE "INVALID"
  /\ state = "MODIFIED" =>
       /\ owner_node \in Nodes /\ sharer_nodes = {}
       /\ \A n \in Nodes : view[n] = IF n = owner_node THEN "MODIFIED" ELSE "INVALID"
  /\ state = "OWNED" =>
       /\ owner_node \in Nodes \ sharer_nodes
       /\ \A n \in Nodes : view[n] = IF n = owner_node THEN "OWNED"
                                     ELSE IF n \in sharer_nodes THEN "SHARED" ELSE "INVALID"

\* Nobody reads old data: every node with a valid view holds the last write,
\* and memory holds it whenever process_read would fetch from memory.
HoldersAreFresh ==
  /\ \A n \in Nodes : view[n] # "INVALID" => n \in fresh
  /\ state \in {"INVALID", "SHARED"} => Memory \in fresh

\* Dirty data always has an owner who is responsible for it.
DirtyHasOwner == has_dirty_data <=> state \in {"MODIFIED", "OWNED"}

\* The directory and the nodes' views implement the single-writer promise.
Holders == {n \in Nodes : view[n] # "INVALID"}
Writer == IF state = "MODIFIED" THEN owner_node ELSE NoNode
S == INSTANCE Swmr WITH holders <- Holders, writer <- Writer

SwmrSpec == S!Spec
=============================================================================
