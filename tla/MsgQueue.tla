------------------------------ MODULE MsgQueue ------------------------------
(***************************************************************************)
(* The ring in shared memory that carries messages from one node to        *)
(* another (dist_node_queue_t, enqueue_message and dequeue_message of      *)
(* src/src/distributed_server.cpp), one step per access to the shared      *)
(* words.  The threads of the source node that send are the Producers, the *)
(* worker threads of the destination node are the Consumers.  There is no  *)
(* lock: nothing in the code keeps two of them out of the ring.            *)
(***************************************************************************)
EXTENDS Integers, Sequences

CONSTANTS Producers, Consumers,
          Capacity,     \* DIST_MSG_QUEUE_SIZE
          Msgs,
          CountRange    \* 2^32: msg_count is unsigned and wraps

ASSUME QueueAssumption == Capacity \in Nat \ {0, 1} /\ CountRange \in Nat \ {0}

NoMsg == "none"
Slots == 0 .. Capacity - 1

VARIABLES head, tail, msg_count, messages,  \* dist_node_queue_t
          ppc, phead, pmsg,                 \* locals of enqueue_message
          cpc, chead, ctail, cmsg,          \* locals of dequeue_message
          handed                            \* what dequeue_message returned last

shared == <<head, tail, msg_count, messages>>
plocals == <<ppc, phead, pmsg>>
clocals == <<cpc, chead, ctail, cmsg>>
queueVars == <<shared, plocals, clocals, handed>>

\* initialize: the ring is empty.
QueueInit ==
    /\ head = 0 /\ tail = 0 /\ msg_count = 0
    /\ messages = [s \in Slots |-> NoMsg]
    /\ ppc = [p \in Producers |-> "idle"]
    /\ phead = [p \in Producers |-> 0]
    /\ pmsg = [p \in Producers |-> NoMsg]
    /\ cpc = [c \in Consumers |-> "idle"]
    /\ chead = [c \in Consumers |-> 0]
    /\ ctail = [c \in Consumers |-> 0]
    /\ cmsg = [c \in Consumers |-> NoMsg]
    /\ handed = [c \in Consumers |-> NoMsg]

-----------------------------------------------------------------------------
(* enqueue_message *)

EnqHead(p) ==
    /\ ppc[p] = "idle"
    /\ \E m \in Msgs : pmsg' = [pmsg EXCEPT ![p] = m]
    /\ phead' = [phead EXCEPT ![p] = head]
    /\ ppc' = [ppc EXCEPT ![p] = "tail"]
    /\ UNCHANGED <<shared, clocals, handed>>

IsFull_Bug(h) == h = tail /\ msg_count > 0
IsFull(h) == (h + 1) % Capacity = tail

\* The call is over; its locals are gone.
EnqDone(p) ==
    /\ ppc' = [ppc EXCEPT ![p] = "idle"]
    /\ phead' = [phead EXCEPT ![p] = 0]
    /\ pmsg' = [pmsg EXCEPT ![p] = NoMsg]

\* A full queue drops the message.
EnqTail(p) ==
    /\ ppc[p] = "tail"
    /\ IF IsFull(phead[p])
       THEN EnqDone(p)
       ELSE /\ ppc' = [ppc EXCEPT ![p] = "copy"]
            /\ UNCHANGED <<phead, pmsg>>
    /\ UNCHANGED <<shared, clocals, handed>>

EnqCopy(p) ==
    /\ ppc[p] = "copy"
    /\ messages' = [messages EXCEPT ![phead[p]] = pmsg[p]]
    /\ ppc' = [ppc EXCEPT ![p] = "publish"]
    /\ UNCHANGED <<head, tail, msg_count, phead, pmsg, clocals, handed>>

EnqPublish(p) ==
    /\ ppc[p] = "publish"
    /\ head' = (phead[p] + 1) % Capacity
    /\ ppc' = [ppc EXCEPT ![p] = "count"]
    /\ UNCHANGED <<tail, msg_count, messages, phead, pmsg, clocals, handed>>

EnqCount(p) ==
    /\ ppc[p] = "count"
    /\ msg_count' = (msg_count + 1) % CountRange
    /\ EnqDone(p)
    /\ UNCHANGED <<head, tail, messages, clocals, handed>>

-----------------------------------------------------------------------------
(* dequeue_message *)

DeqHead(c) ==
    /\ cpc[c] = "idle"
    /\ chead' = [chead EXCEPT ![c] = head]
    /\ cpc' = [cpc EXCEPT ![c] = "tail"]
    /\ handed' = [handed EXCEPT ![c] = NoMsg]
    /\ UNCHANGED <<shared, plocals, ctail, cmsg>>

DeqDone(c) ==
    /\ cpc' = [cpc EXCEPT ![c] = "idle"]
    /\ chead' = [chead EXCEPT ![c] = 0]
    /\ ctail' = [ctail EXCEPT ![c] = 0]
    /\ cmsg' = [cmsg EXCEPT ![c] = NoMsg]

DeqTail(c) ==
    /\ cpc[c] = "tail"
    /\ IF chead[c] = tail
       THEN DeqDone(c)
       ELSE /\ ctail' = [ctail EXCEPT ![c] = tail]
            /\ cpc' = [cpc EXCEPT ![c] = "copy"]
            /\ UNCHANGED <<chead, cmsg>>
    /\ UNCHANGED <<shared, plocals, handed>>

DeqCopy(c) ==
    /\ cpc[c] = "copy"
    /\ cmsg' = [cmsg EXCEPT ![c] = messages[ctail[c]]]
    /\ cpc' = [cpc EXCEPT ![c] = "publish"]
    /\ UNCHANGED <<shared, plocals, chead, ctail, handed>>

DeqPublish(c) ==
    /\ cpc[c] = "publish"
    /\ tail' = (ctail[c] + 1) % Capacity
    /\ handed' = [handed EXCEPT ![c] = cmsg[c]]
    /\ cpc' = [cpc EXCEPT ![c] = "count"]
    /\ UNCHANGED <<head, msg_count, messages, plocals, chead, ctail, cmsg>>

DeqCount(c) ==
    /\ cpc[c] = "count"
    /\ msg_count' = (msg_count - 1) % CountRange
    /\ DeqDone(c)
    /\ UNCHANGED <<head, tail, messages, plocals, handed>>

QueueNext ==
    \/ \E p \in Producers : EnqHead(p) \/ EnqTail(p) \/ EnqCopy(p) \/ EnqPublish(p) \/ EnqCount(p)
    \/ \E c \in Consumers : DeqHead(c) \/ DeqTail(c) \/ DeqCopy(c) \/ DeqPublish(c) \/ DeqCount(c)

QueueSpec == QueueInit /\ [][QueueNext]_queueVars

-----------------------------------------------------------------------------
(* Properties *)

\* How many messages lie between tail and head.
Used == (head - tail) % Capacity

\* "Number of messages in queue" (distributed_server.h): whenever no thread is
\* inside enqueue_message or dequeue_message, msg_count is the number of
\* messages the ring holds.
MsgCountMatches ==
    (/\ \A p \in Producers : ppc[p] = "idle"
     /\ \A c \in Consumers : cpc[c] = "idle")
        => msg_count = Used

\* With one sender and one worker in it at a time the ring is a bounded queue:
\* dequeue_message hands out what enqueue_message accepted, once and in order,
\* up to the ring's last free slot.
F == INSTANCE Fifo WITH Readers <- Consumers, Room <- Capacity - 1,
        fifo <- [i \in 1 .. Used |-> messages[(tail + i - 1) % Capacity]]
RefinesFifo == F!Spec
=============================================================================
