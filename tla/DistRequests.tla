---------------------------- MODULE DistRequests ----------------------------
(***************************************************************************)
(* Requests that one node of the distributed server forwards to another    *)
(* over the shared message bus (DistributedMessageManager of               *)
(* src/src/distributed_server.cpp): the table of pending requests, the     *)
(* waiting callers with their timeouts, the worker threads, the heartbeat, *)
(* and how nodes come and go in the segment they share.  One step per      *)
(* critical section; pending_mutex_ and the mutex of each PendingRequest   *)
(* are modelled where a thread asks for one while it holds the other.      *)
(*                                                                         *)
(* A queue between two nodes is an atomic bounded sequence here; module    *)
(* MsgQueue is about the ring itself and when it is one.  join_cluster, a  *)
(* restart after a crash and more than one start of a node are left out.   *)
(***************************************************************************)
EXTENDS Integers, Sequences, Functions, FiniteSets

CONSTANTS Callers,      \* client threads: [node, thread]
          Workers,      \* worker threads: [node, thread]
          Beats,        \* nodes whose heartbeat thread runs
          QueueRoom,    \* messages a queue can hold
          MaxId         \* bound on next_msg_id_

Nodes == {w.node : w \in Workers}
Free == [node |-> -1, thread |-> 0]     \* no thread

ASSUME RequestAssumption ==
    /\ IsFiniteSet(Callers) /\ Callers \cap Workers = {} /\ Free \notin Callers \cup Workers
    /\ \A c \in Callers : c.node \in Nodes
    /\ Beats \subseteq Nodes
    /\ MaxId \in Nat /\ QueueRoom \in Nat

VARIABLES linked,           \* the segment can be found by its name
          state,            \* the node states in the segment; "NONE" is zero
          up,               \* how far each node's process is
          next_msg_id,      \* per node
          queue,            \* queue[<<src, dst>>]
          pending_requests, \* per node: msg_id -> the caller waiting for it
          pending_mutex,    \* per node: the thread that holds it, or Free
          call,             \* the request of each caller, or NoMsg
          pc,               \* of callers and workers
          completed,        \* PendingRequest::completed of each caller
          pending_lock,     \* PendingRequest::mutex of each caller: its holder, or Free
          resp,             \* the caller's response buffer
          msg,              \* the message each worker has dequeued
          \* history, not in the code:
          executed,         \* the requests that have been executed
          returned,         \* what the latest call of each caller returned
          stray             \* a response was copied into the buffer of a call that is over

membership == <<linked, state, up>>
callerVars == <<call, completed, pending_lock, returned>>
requestVars == <<membership, next_msg_id, queue, pending_requests, pending_mutex, callerVars, pc, resp, msg, executed, stray>>

NoMsg == [type |-> "none", msg_id |-> 0, src |-> 0, of |-> 0]
Request(n, id) == [type |-> "REQ", msg_id |-> id, src |-> n, of |-> n]
Heartbeat(n, id) == [type |-> "HEARTBEAT", msg_id |-> id, src |-> n, of |-> n]

\* A response carries the id of the request, whose node is of.
Response(n, m) == [type |-> "RESP", msg_id |-> m.msg_id, src |-> n, of |-> m.src]

NotCalled == [ok |-> FALSE, request |-> NoMsg, response |-> NoMsg]
Ids == 1 .. MaxId

RequestInit ==
    /\ linked = FALSE
    /\ state = [n \in Nodes |-> "NONE"]
    /\ up = [n \in Nodes |-> "down"]
    /\ next_msg_id = [n \in Nodes |-> 1]
    /\ queue = [e \in Nodes \X Nodes |-> <<>>]
    /\ pending_requests = [n \in Nodes |-> << >>]
    /\ pending_mutex = [n \in Nodes |-> Free]
    /\ call = [c \in Callers |-> NoMsg]
    /\ pc = [t \in Callers \cup Workers |-> "idle"]
    /\ completed = [c \in Callers |-> FALSE]
    /\ pending_lock = [c \in Callers |-> Free]
    /\ resp = [c \in Callers |-> NoMsg]
    /\ msg = [w \in Workers |-> NoMsg]
    /\ executed = {}
    /\ returned = [c \in Callers |-> NotCalled]
    /\ stray = FALSE

Go(t, label) == pc' = [pc EXCEPT ![t] = label]

\* enqueue_message: a full queue drops the message.
HasRoom(src, dst) == Len(queue[<<src, dst>>]) < QueueRoom
Enqueue(src, dst, m) == queue' = [queue EXCEPT ![<<src, dst>>] = Append(@, m)]

-----------------------------------------------------------------------------
(* DistributedMemoryServer::initialize, start and stop *)

\* Node 0 creates the segment, another node opens it if it finds the name.
\* Either way the header and all queues are set to zero.
Initialize(n) ==
    /\ up[n] = "down"
    /\ n = 0 \/ linked
    /\ linked' = TRUE
    /\ state' = [m \in Nodes |-> "NONE"]
    /\ queue' = [e \in Nodes \X Nodes |-> <<>>]
    /\ up' = [up EXCEPT ![n] = "register"]
    /\ UNCHANGED <<next_msg_id, pending_requests, pending_mutex, callerVars, pc, resp, msg, executed, stray>>

\* register_node, and start() with the workers and the heartbeat.
RegisterNode(n) ==
    /\ up[n] = "register"
    /\ state' = [state EXCEPT ![n] = "READY"]
    /\ up' = [up EXCEPT ![n] = "running"]
    /\ UNCHANGED <<linked, queue, next_msg_id, pending_requests, pending_mutex, callerVars, pc, resp, msg, executed, stray>>

deregister_node(n) == state' = [state EXCEPT ![n] = "OFFLINE"]

\* The end of the manager removes the segment's name, because is_coordinator_
\* is set in every node.
cleanup == linked' = FALSE

\* stop() has joined the node's threads.
Stop(n) ==
    /\ up[n] = "running"
    /\ \A t \in Callers \cup Workers : t.node = n => pc[t] = "idle"
    /\ deregister_node(n)
    /\ cleanup
    /\ up' = [up EXCEPT ![n] = "stopped"]
    /\ UNCHANGED <<queue, next_msg_id, pending_requests, pending_mutex, callerVars, pc, resp, msg, executed, stray>>

is_node_active(n) == state[n] = "READY"

-----------------------------------------------------------------------------
(* send_message_wait_response, called by forward_read, forward_write and the *)
(* atomics with a fresh msg_id.                                              *)

\* The caller's entry goes into the table of pending requests.
Call(c) ==
    LET n == c.node
        r == Request(n, next_msg_id[n])
    IN  /\ pc[c] = "idle" /\ up[n] = "running"
        /\ next_msg_id[n] \in Ids
        /\ pending_mutex[n] = Free
        /\ next_msg_id' = [next_msg_id EXCEPT ![n] = @ + 1]
        /\ call' = [call EXCEPT ![c] = r]
        /\ completed' = [completed EXCEPT ![c] = FALSE]
        /\ resp' = [resp EXCEPT ![c] = NoMsg]
        /\ returned' = [returned EXCEPT ![c] = NotCalled]
        /\ pending_requests' = [pending_requests EXCEPT ![n] =
                [id \in DOMAIN @ \cup {r.msg_id} |-> IF id = r.msg_id THEN c ELSE @[id]]]
        /\ Go(c, "send")
        /\ UNCHANGED <<membership, queue, pending_mutex, pending_lock, msg, executed, stray>>

SendRequest(c) ==
    /\ pc[c] = "send"
    /\ \E d \in Nodes \ {c.node} :
        IF HasRoom(c.node, d)
        THEN Enqueue(c.node, d, call[c]) /\ Go(c, "wait")
        ELSE Go(c, "unsent") /\ UNCHANGED queue
    /\ UNCHANGED <<membership, next_msg_id, pending_requests, pending_mutex, callerVars, resp, msg, executed, stray>>

\* The entry is erased and the call returns.
Erase_Bug(c) == UNCHANGED pending_requests
Erase(c) ==
    pending_requests' = [pending_requests EXCEPT ![c.node] = Restrict(@, DOMAIN @ \ {call[c].msg_id})]

Return(c, ok) ==
    /\ pending_mutex[c.node] = Free
    /\ Erase(c)
    /\ returned' = [returned EXCEPT ![c] = [ok |-> ok, request |-> call[c], response |-> resp[c]]]
    /\ call' = [call EXCEPT ![c] = NoMsg]
    /\ Go(c, "idle")
    /\ UNCHANGED <<membership, next_msg_id, queue, pending_mutex, completed, resp, msg, executed, stray>>

ReturnUnsent(c) == pc[c] = "unsent" /\ Return(c, FALSE) /\ UNCHANGED pending_lock

WaitCompleted_Bug(c) ==
    /\ pc[c] = "wait"
    /\ pending_lock[c] = Free
    /\ Go(c, "answered")
    /\ UNCHANGED <<membership, next_msg_id, queue, pending_requests, pending_mutex, callerVars, resp, msg, executed, stray>>

\* cv.wait_for returns with the predicate true; the caller lets the lock go.
WaitCompleted(c) ==
    /\ pc[c] = "wait" /\ completed[c]
    /\ pending_lock[c] = Free
    /\ Go(c, "answered")
    /\ UNCHANGED <<membership, next_msg_id, queue, pending_requests, pending_mutex, callerVars, resp, msg, executed, stray>>

ReturnAnswered(c) == pc[c] = "answered" /\ Return(c, TRUE) /\ UNCHANGED pending_lock

\* cv.wait_for gives up; the caller holds the entry's mutex and goes on to
\* ask for pending_mutex_.
WaitTimeout(c) ==
    /\ pc[c] = "wait" /\ ~completed[c]
    /\ pending_lock[c] = Free
    /\ pending_lock' = [pending_lock EXCEPT ![c] = c]
    /\ Go(c, "timedout")
    /\ UNCHANGED <<membership, next_msg_id, queue, pending_requests, pending_mutex, call, completed, returned, resp, msg, executed, stray>>

ReturnTimedOut(c) ==
    /\ pc[c] = "timedout"
    /\ Return(c, FALSE)
    /\ pending_lock' = [pending_lock EXCEPT ![c] = Free]

-----------------------------------------------------------------------------
(* worker_thread: poll_messages and process_message *)

\* poll_messages takes a message from a queue of another active node.
Dequeue(w) ==
    /\ pc[w] = "idle" /\ up[w.node] = "running"
    /\ \E s \in Nodes \ {w.node} :
        /\ is_node_active(s)
        /\ queue[<<s, w.node>>] # <<>>
        /\ msg' = [msg EXCEPT ![w] = Head(queue[<<s, w.node>>])]
        /\ queue' = [queue EXCEPT ![<<s, w.node>>] = Tail(@)]
    /\ Go(w, "lookup")
    /\ UNCHANGED <<membership, next_msg_id, pending_requests, pending_mutex, callerVars, resp, executed, stray>>

\* A message with the id of a pending request is copied into the caller's
\* buffer; the worker keeps pending_mutex_ and asks for the entry's mutex.
Deliver(w) ==
    LET n == w.node
        c == pending_requests[n][msg[w].msg_id]
    IN  /\ pc[w] = "lookup"
        /\ pending_mutex[n] = Free
        /\ msg[w].msg_id \in DOMAIN pending_requests[n]
        /\ pending_mutex' = [pending_mutex EXCEPT ![n] = w]
        /\ resp' = [resp EXCEPT ![c] = msg[w]]
        /\ stray' = (stray \/ call[c].msg_id # msg[w].msg_id)
        /\ Go(w, "deliver")
        /\ UNCHANGED <<membership, next_msg_id, queue, pending_requests, callerVars, msg, executed>>

Complete(w) ==
    LET n == w.node
        c == pending_requests[n][msg[w].msg_id]
    IN  /\ pc[w] = "deliver"
        /\ pending_lock[c] = Free
        /\ completed' = [completed EXCEPT ![c] = TRUE]
        /\ pending_mutex' = [pending_mutex EXCEPT ![n] = Free]
        /\ msg' = [msg EXCEPT ![w] = NoMsg]
        /\ Go(w, "idle")
        /\ UNCHANGED <<membership, next_msg_id, queue, pending_requests, call, pending_lock, returned, resp, executed, stray>>

\* No request of this node has the id: the handler of the message's type runs.
\* A response has no handler any more.
NotPending(w) ==
    /\ pc[w] = "lookup"
    /\ pending_mutex[w.node] = Free
    /\ msg[w].msg_id \notin DOMAIN pending_requests[w.node]
    /\ IF msg[w].type = "REQ"
       THEN Go(w, "handle") /\ UNCHANGED msg
       ELSE Go(w, "idle") /\ msg' = [msg EXCEPT ![w] = NoMsg]
    /\ UNCHANGED <<membership, next_msg_id, queue, pending_requests, pending_mutex, callerVars, resp, executed, stray>>

\* The handler executes the request and its response is sent, or dropped when
\* the queue back is full.
Handle(w) ==
    LET n == w.node
        m == msg[w]
    IN  /\ pc[w] = "handle"
        /\ executed' = executed \cup {<<m.src, m.msg_id>>}
        /\ IF HasRoom(n, m.src) THEN Enqueue(n, m.src, Response(n, m)) ELSE UNCHANGED queue
        /\ msg' = [msg EXCEPT ![w] = NoMsg]
        /\ Go(w, "idle")
        /\ UNCHANGED <<membership, next_msg_id, pending_requests, pending_mutex, callerVars, resp, stray>>

\* The queues after a message went to all other active nodes with room for it.
broadcast_message(n, m) ==
    queue' = [e \in Nodes \X Nodes |->
        IF e[1] = n /\ e[2] # n /\ is_node_active(e[2]) /\ HasRoom(n, e[2])
        THEN Append(queue[e], m) ELSE queue[e]]

\* send_heartbeat broadcasts a message with an id of its own.
Beat(n) ==
    /\ n \in Beats /\ up[n] = "running"
    /\ next_msg_id[n] \in Ids
    /\ next_msg_id' = [next_msg_id EXCEPT ![n] = @ + 1]
    /\ broadcast_message(n, Heartbeat(n, next_msg_id[n]))
    /\ UNCHANGED <<membership, pending_requests, pending_mutex, callerVars, pc, resp, msg, executed, stray>>

CallerStep(c) ==
    \/ Call(c) \/ SendRequest(c) \/ ReturnUnsent(c)
    \/ WaitCompleted(c) \/ ReturnAnswered(c) \/ WaitTimeout(c) \/ ReturnTimedOut(c)

WorkerStep(w) == Dequeue(w) \/ Deliver(w) \/ Complete(w) \/ NotPending(w) \/ Handle(w)

RequestNext ==
    \/ \E c \in Callers : CallerStep(c)
    \/ \E w \in Workers : WorkerStep(w)
    \/ \E n \in Nodes : Initialize(n) \/ RegisterNode(n) \/ Stop(n) \/ Beat(n)

RequestSpec == RequestInit /\ [][RequestNext]_requestVars

\* Threads keep running, and a wait whose time is over gives up.
RequestFairSpec ==
    /\ RequestSpec
    /\ \A c \in Callers : WF_requestVars(CallerStep(c))
    /\ \A w \in Workers : WF_requestVars(WorkerStep(w))

-----------------------------------------------------------------------------
(* Properties *)

\* Every variable has its type; enqueue_message never fills a queue beyond its
\* room, and a pending entry's mutex is only ever held by its own caller.
RequestTypeOK ==
    /\ linked \in BOOLEAN
    /\ state \in [Nodes -> {"NONE", "READY", "OFFLINE"}]
    /\ up \in [Nodes -> {"down", "register", "running", "stopped"}]
    /\ next_msg_id \in [Nodes -> 1 .. MaxId + 1]
    /\ \A n \in Nodes : /\ DOMAIN pending_requests[n] \subseteq Ids
                        /\ Range(pending_requests[n]) \subseteq Callers
                        /\ pending_mutex[n] \in Workers \cup {Free}
    /\ \A c \in Callers : pending_lock[c] \in {c, Free}
    /\ \A e \in Nodes \X Nodes : Len(queue[e]) <= QueueRoom
    /\ stray \in BOOLEAN

\* The table of pending requests holds exactly the calls in progress: every
\* way out of send_message_wait_response erases its entry, and no other.  So
\* process_message, which copies a message through pending->response into the
\* caller's frame, never writes there after the call has returned, whatever the
\* order of workers, timeouts and late responses.
PendingExact ==
    /\ ~stray
    /\ \A n \in Nodes :
        /\ \A c \in Callers : c.node = n /\ pc[c] # "idle" =>
                /\ call[c].msg_id \in DOMAIN pending_requests[n]
                /\ pending_requests[n][call[c].msg_id] = c
        /\ Cardinality(DOMAIN pending_requests[n]) = Cardinality({c \in Callers : c.node = n /\ pc[c] # "idle"})

\* A call that returns true has in its buffer a message of the other node with
\* the id of this very request; when it is a response, the request had been
\* executed.  No late response to an earlier call of the thread, and no response
\* to the node's other threads, is taken for it.
AnswerHasItsId ==
    \A c \in Callers : returned[c].ok =>
        /\ returned[c].response.msg_id = returned[c].request.msg_id
        /\ returned[c].response.src # c.node
        /\ returned[c].response.type = "RESP" =>
              <<c.node, returned[c].request.msg_id>> \in executed

\* "Unique message ID for tracking" (distributed_server.h): a message with the
\* id of a request is that request or the response to it, so a call that
\* returns true has the response in its buffer.
AnswerIsForRequest ==
    \A c \in Callers : returned[c].ok => returned[c].response.type = "RESP"

\* A call to send_message_wait_response returns, with the response or after
\* timeout_ms, so that stop() can join its thread and the workers.
CallsReturn == \A c \in Callers : pc[c] = "wait" ~> pc[c] = "idle"
=============================================================================
