---------------------------- MODULE RequestProofs ----------------------------
(***************************************************************************)
(* Requests between nodes: for any number of nodes, client threads and     *)
(* workers, and any order of timeouts and late messages.                   *)
(***************************************************************************)
EXTENDS DistRequests, FunctionTheorems, FiniteSetTheorems, SequenceTheorems, TLAPS

CallerLabels == {"idle", "send", "wait", "unsent", "answered", "timedout"}
WorkerLabels == {"idle", "lookup", "deliver", "handle"}
Messages == [type : {"REQ", "RESP", "HEARTBEAT"}, msg_id : Ids, src : Nodes, of : Nodes]

\* What may be on its way from node s to node d: messages s sent, and of
\* responses only those to executed requests of d.
OnTheWay(s, d, ex) ==
  {m \in Messages : m.src = s /\ (m.type = "RESP" => m.of = d /\ <<d, m.msg_id>> \in ex)}

\* Types of the variables; a queue holds what may be on its way.
RequestTypes ==
  /\ linked \in BOOLEAN /\ stray \in BOOLEAN
  /\ state \in [Nodes -> {"NONE", "READY", "OFFLINE"}]
  /\ up \in [Nodes -> {"down", "register", "running", "stopped"}]
  /\ next_msg_id \in [Nodes -> 1 .. MaxId + 1]
  /\ DOMAIN queue = Nodes \X Nodes
  /\ \A s, d \in Nodes : queue[<<s, d>>] \in Seq(OnTheWay(s, d, executed)) /\ Len(queue[<<s, d>>]) <= QueueRoom
  /\ DOMAIN pending_requests = Nodes /\ pending_mutex \in [Nodes -> Workers \cup {Free}]
  /\ DOMAIN call = Callers /\ completed \in [Callers -> BOOLEAN]
  /\ DOMAIN pending_lock = Callers /\ \A c \in Callers : pending_lock[c] \in {c, Free}
  /\ DOMAIN resp = Callers /\ DOMAIN msg = Workers /\ DOMAIN returned = Callers
  /\ DOMAIN pc = Callers \cup Workers
  /\ \A c \in Callers : pc[c] \in CallerLabels
  /\ \A w \in Workers : pc[w] \in WorkerLabels

\* The table of a node and the calls of its threads name each other, and the
\* ids in it have all been given out.
TableMatches ==
  /\ \A c \in Callers : pc[c] # "idle" =>
       /\ call[c] = Request(c.node, call[c].msg_id)
       /\ call[c].msg_id \in DOMAIN pending_requests[c.node]
       /\ pending_requests[c.node][call[c].msg_id] = c
  /\ \A n \in Nodes : \A id \in DOMAIN pending_requests[n] :
       /\ id \in Ids /\ id < next_msg_id[n]
       /\ pending_requests[n][id] \in Callers /\ pending_requests[n][id].node = n
       /\ pc[pending_requests[n][id]] # "idle" /\ call[pending_requests[n][id]].msg_id = id
  /\ ~stray

\* A message that may complete the request id of node n.
Answers(m, n, id, ex) == m.msg_id = id /\ m.src # n /\ (m.type = "RESP" => <<n, id>> \in ex)

\* From the queue to the caller's frame: a worker's message comes from another
\* node; the worker that copies holds pending_mutex_; the buffer of a completed
\* request, and of one being completed, has the id of that request.
AnswersMatch ==
  /\ \A w \in Workers : pc[w] # "idle" =>
       \E s \in Nodes : s # w.node /\ msg[w] \in OnTheWay(s, w.node, executed)
  /\ \A w \in Workers : pc[w] = "deliver" =>
       /\ pending_mutex[w.node] = w
       /\ msg[w].msg_id \in DOMAIN pending_requests[w.node]
       /\ Answers(resp[pending_requests[w.node][msg[w].msg_id]], w.node, msg[w].msg_id, executed)
  /\ \A c \in Callers : pc[c] # "idle" /\ completed[c] => Answers(resp[c], c.node, call[c].msg_id, executed)
  /\ \A c \in Callers : pc[c] = "answered" => completed[c]

RequestInv == RequestTypes /\ TableMatches /\ AnswersMatch /\ AnswerHasItsId

USE DEF CallerLabels, WorkerLabels

\* A sequence over a set is one over any larger set.
LEMMA SeqMono == ASSUME NEW S, NEW T, NEW q \in Seq(S), \A x \in S : x \in T PROVE q \in Seq(T)
<1>1. \A i \in 1 .. Len(q) : q[i] \in T BY ElementOfSeq, Zenon
<1> QED BY <1>1

\* The nodes before any of them is up.
LEMMA RequestStart == RequestInit => RequestInv
<1> SUFFICES ASSUME RequestInit PROVE RequestInv OBVIOUS
<1> USE RequestAssumption DEF RequestInit
<1>1. RequestTypes
  <2>1. \A s, d \in Nodes : queue[<<s, d>>] = <<>> OBVIOUS
  <2>2. \A s, d \in Nodes : queue[<<s, d>>] \in Seq(OnTheWay(s, d, executed)) /\ Len(queue[<<s, d>>]) <= QueueRoom
    <3> TAKE s, d \in Nodes
    <3> QED BY <2>1, EmptySeq
  <2>3. linked \in BOOLEAN /\ stray \in BOOLEAN /\ completed \in [Callers -> BOOLEAN] BY Zenon
  <2>4. next_msg_id \in [Nodes -> 1 .. MaxId + 1] OBVIOUS
  <2> QED BY <2>2, <2>3, <2>4, Zenon DEF RequestTypes
<1>2. TableMatches BY DEF TableMatches
<1>3. AnswersMatch BY Zenon DEF AnswersMatch
<1>4. AnswerHasItsId BY Zenon DEF AnswerHasItsId, NotCalled
<1> QED BY <1>1, <1>2, <1>3, <1>4, Zenon DEF RequestInv

\* A new id is not in the table; the call's entry is added and no other.
LEMMA CallTable ==
  ASSUME RequestInv, NEW c \in Callers, Call(c)
  PROVE  LET n == c.node
             id == next_msg_id[n]
         IN  /\ id \in Ids /\ id \notin DOMAIN pending_requests[n]
             /\ \A m \in Nodes : m # n => pending_requests'[m] = pending_requests[m]
             /\ DOMAIN pending_requests'[n] = DOMAIN pending_requests[n] \cup {id}
             /\ pending_requests'[n][id] = c
             /\ \A x \in DOMAIN pending_requests[n] : pending_requests'[n][x] = pending_requests[n][x]
             /\ DOMAIN pending_requests' = Nodes
<1> USE RequestAssumption DEF RequestInv, RequestTypes
<1> DEFINE n == c.node
           id == next_msg_id[n]
<1>1. n \in Nodes /\ id \in Ids /\ Request(n, id).msg_id = id BY Zenon DEF Call, Request
<1>2. id \notin DOMAIN pending_requests[n] BY <1>1 DEF TableMatches, Ids
<1>3. pending_requests' = [pending_requests EXCEPT ![n] =
         [x \in DOMAIN pending_requests[n] \cup {id} |-> IF x = id THEN c ELSE pending_requests[n][x]]]
  BY <1>1 DEF Call
<1> QED BY <1>1, <1>2, <1>3

\* A returning call takes its own entry out of the table and no other.
LEMMA ReturnTable ==
  ASSUME RequestInv, NEW c \in Callers, Erase(c)
  PROVE  LET n == c.node
             id == call[c].msg_id
         IN  /\ \A m \in Nodes : m # n => pending_requests'[m] = pending_requests[m]
             /\ DOMAIN pending_requests'[n] = DOMAIN pending_requests[n] \ {id}
             /\ \A x \in DOMAIN pending_requests[n] \ {id} : pending_requests'[n][x] = pending_requests[n][x]
             /\ DOMAIN pending_requests' = Nodes
BY RequestAssumption, Zenon DEF RequestInv, RequestTypes, Erase, Restrict

RequestStepOf(n) == Initialize(n) \/ RegisterNode(n) \/ Stop(n) \/ Beat(n)

\* A queue may gain a message that may be on its way, or lose its first.
LEMMA EnqueueTypes ==
  ASSUME RequestTypes, NEW s \in Nodes, NEW d \in Nodes, NEW m \in OnTheWay(s, d, executed), HasRoom(s, d)
  PROVE  /\ Append(queue[<<s, d>>], m) \in Seq(OnTheWay(s, d, executed))
         /\ Len(Append(queue[<<s, d>>], m)) <= QueueRoom
<1>1. queue[<<s, d>>] \in Seq(OnTheWay(s, d, executed)) /\ Len(queue[<<s, d>>]) \in Nat BY DEF RequestTypes
<1>2. Len(Append(queue[<<s, d>>], m)) = Len(queue[<<s, d>>]) + 1 BY <1>1, AppendProperties
<1>3. Append(queue[<<s, d>>], m) \in Seq(OnTheWay(s, d, executed)) BY <1>1, AppendProperties, Zenon
<1> QED BY <1>1, <1>2, <1>3, RequestAssumption DEF HasRoom

\* The steps of a client thread keep the types.
LEMMA CallerTypes ==
  ASSUME RequestInv, NEW c \in Callers, CallerStep(c)
  PROVE  RequestTypes'
<1> USE RequestAssumption DEF RequestInv, RequestTypes, Go, membership, callerVars
<1>0. executed' = executed /\ c.node \in Nodes /\ c \notin Workers
  BY Zenon DEF CallerStep, Call, SendRequest, ReturnUnsent, WaitCompleted, ReturnAnswered, WaitTimeout,
         ReturnTimedOut, Return
<1>2. CASE Call(c)
  <2>1. next_msg_id' \in [Nodes -> 1 .. MaxId + 1] BY <1>0, <1>2 DEF Call, Ids
  <2>2. completed' \in [Callers -> BOOLEAN] BY <1>2, Zenon DEF Call
  <2>3. DOMAIN pending_requests' = Nodes BY <1>2, CallTable, Zenon
  <2> QED BY <1>0, <1>2, <2>1, <2>2, <2>3 DEF Call
<1>3. CASE SendRequest(c)
  <2>1. PICK d \in Nodes \ {c.node} :
        IF HasRoom(c.node, d)
        THEN Enqueue(c.node, d, call[c]) /\ Go(c, "wait")
        ELSE Go(c, "unsent") /\ UNCHANGED queue
    BY <1>3, Zenon DEF SendRequest
  <2>2. call[c] \in OnTheWay(c.node, d, executed)
    <3>1. call[c] = Request(c.node, call[c].msg_id) /\ call[c].msg_id \in Ids
      BY <1>0, <1>3, Zenon DEF TableMatches, SendRequest
    <3> QED BY <1>0, <3>1 DEF OnTheWay, Messages, Request
  <2>3. pc' = [pc EXCEPT ![c] = "wait"] \/ pc' = [pc EXCEPT ![c] = "unsent"] BY <2>1, Zenon
  <2>4. /\ DOMAIN queue' = Nodes \X Nodes
        /\ \A s, e \in Nodes : queue'[<<s, e>>] \in Seq(OnTheWay(s, e, executed)) /\ Len(queue'[<<s, e>>]) <= QueueRoom
    <3>1. CASE HasRoom(c.node, d)
      <4>1. queue' = [queue EXCEPT ![<<c.node, d>>] = Append(queue[<<c.node, d>>], call[c])]
        BY <2>1, <3>1, Zenon DEF Enqueue
      <4>2. /\ Append(queue[<<c.node, d>>], call[c]) \in Seq(OnTheWay(c.node, d, executed))
            /\ Len(Append(queue[<<c.node, d>>], call[c])) <= QueueRoom
        BY <1>0, <2>2, <3>1, EnqueueTypes, Zenon
      <4> QED BY <1>0, <4>1, <4>2, Zenon
    <3>2. CASE ~HasRoom(c.node, d) BY <2>1, <3>2, Zenon
    <3> QED BY <3>1, <3>2, Zenon
  <2>5. /\ DOMAIN pc' = Callers \cup Workers
        /\ \A e \in Callers : pc'[e] \in CallerLabels
        /\ \A w \in Workers : pc'[w] \in WorkerLabels
    <3>1. PICK l \in CallerLabels : pc' = [pc EXCEPT ![c] = l] BY <2>3, Zenon
    <3> QED BY <1>0, <3>1
  <2> QED BY <1>0, <1>3, <2>4, <2>5, Zenon DEF SendRequest
<1>4. CASE WaitCompleted(c) BY <1>0, <1>4, Zenon DEF WaitCompleted
<1>5. CASE WaitTimeout(c) BY <1>0, <1>5, Zenon DEF WaitTimeout
<1>6. ASSUME NEW ok, Return(c, ok), \A e \in Callers : pending_lock'[e] \in {e, Free}, DOMAIN pending_lock' = Callers
      PROVE  RequestTypes'
  <2>1. DOMAIN pending_requests' = Nodes BY <1>6, ReturnTable, Zenon DEF Return
  <2> QED BY <1>0, <1>6, <2>1, Zenon DEF Return
<1>7. CASE ReturnUnsent(c) BY <1>6, <1>7, Zenon DEF ReturnUnsent
<1>8. CASE ReturnAnswered(c) BY <1>6, <1>8, Zenon DEF ReturnAnswered
<1>9. CASE ReturnTimedOut(c) BY <1>6, <1>9, Zenon DEF ReturnTimedOut
<1> QED BY <1>2, <1>3, <1>4, <1>5, <1>7, <1>8, <1>9, Zenon DEF CallerStep

\* More requests may be executed: what was on its way still is.
LEMMA OnTheWayGrows ==
  ASSUME RequestTypes, executed \subseteq executed'
  PROVE  /\ \A s, d \in Nodes : OnTheWay(s, d, executed) \subseteq OnTheWay(s, d, executed')
         /\ \A s, d \in Nodes : queue[<<s, d>>] \in Seq(OnTheWay(s, d, executed'))
<1>1. ASSUME NEW s \in Nodes, NEW d \in Nodes PROVE OnTheWay(s, d, executed) \subseteq OnTheWay(s, d, executed')
  BY Zenon DEF OnTheWay
<1>2. ASSUME NEW s \in Nodes, NEW d \in Nodes PROVE queue[<<s, d>>] \in Seq(OnTheWay(s, d, executed'))
  <2>1. queue[<<s, d>>] \in Seq(OnTheWay(s, d, executed)) BY Zenon DEF RequestTypes
  <2>2. \A x \in OnTheWay(s, d, executed) : x \in OnTheWay(s, d, executed') BY <1>1, Zenon
  <2> QED BY <2>1, <2>2, SeqMono, Zenon
<1> QED BY <1>1, <1>2, Zenon

\* The steps of a worker keep the types.
LEMMA WorkerTypes ==
  ASSUME RequestInv, NEW w \in Workers, WorkerStep(w)
  PROVE  RequestTypes'
<1> USE RequestAssumption DEF RequestInv, RequestTypes, Go, membership, callerVars
<1>0. w.node \in Nodes /\ w \notin Callers BY DEF Nodes
<1>1. CASE Dequeue(w)
  <2>1. PICK s \in Nodes \ {w.node} : queue[<<s, w.node>>] # <<>>
          /\ queue' = [queue EXCEPT ![<<s, w.node>>] = Tail(queue[<<s, w.node>>])]
    BY <1>1, Zenon DEF Dequeue
  <2> DEFINE q == queue[<<s, w.node>>]
  <2>2. q \in Seq(OnTheWay(s, w.node, executed)) /\ Len(q) <= QueueRoom BY <1>0, Zenon
  <2>3. Tail(q) \in Seq(OnTheWay(s, w.node, executed)) /\ Len(Tail(q)) <= QueueRoom
    <3>1. q # <<>> /\ Len(q) \in Nat BY <2>1, <2>2
    <3> HIDE DEF q
    <3>2. Tail(q) \in Seq(OnTheWay(s, w.node, executed)) /\ Len(Tail(q)) = Len(q) - 1
      BY <2>2, <3>1, HeadTailProperties, Zenon
    <3> QED BY <2>2, <3>1, <3>2
  <2>4. /\ DOMAIN queue' = Nodes \X Nodes
        /\ \A e, d \in Nodes : queue'[<<e, d>>] \in Seq(OnTheWay(e, d, executed)) /\ Len(queue'[<<e, d>>]) <= QueueRoom
    BY <1>0, <2>1, <2>3, Zenon
  <2> QED BY <1>0, <1>1, <2>4 DEF Dequeue
<1>2. CASE Deliver(w)
  <2>1. stray' \in BOOLEAN BY <1>2, Zenon DEF Deliver
  <2> QED BY <1>0, <1>2, <2>1, Zenon DEF Deliver
<1>3. CASE Complete(w)
  <2>1. completed' \in [Callers -> BOOLEAN] BY <1>3, Zenon DEF Complete
  <2> QED BY <1>0, <1>3, <2>1, Zenon DEF Complete
<1>4. CASE NotPending(w)
  <2>1. PICK l \in {"handle", "idle"} : pc' = [pc EXCEPT ![w] = l] BY <1>4, Zenon DEF NotPending
  <2>2. DOMAIN msg' = Workers BY <1>4, Zenon DEF NotPending
  <2> QED BY <1>0, <1>4, <2>1, <2>2, Zenon DEF NotPending
<1>5. CASE Handle(w)
  <2>1. executed \subseteq executed' /\ <<msg[w].src, msg[w].msg_id>> \in executed' BY <1>5, Zenon DEF Handle
  <2>2. PICK s \in Nodes : s # w.node /\ msg[w] \in OnTheWay(s, w.node, executed)
    BY <1>5, Zenon DEF AnswersMatch, Handle
  <2>3. msg[w].src = s /\ msg[w] \in Messages BY <2>2, Zenon DEF OnTheWay
  <2>4. Response(w.node, msg[w]) \in OnTheWay(w.node, s, executed')
    BY <1>0, <2>1, <2>3, Zenon DEF OnTheWay, Messages, Response
  <2>5. \A e, d \in Nodes : queue[<<e, d>>] \in Seq(OnTheWay(e, d, executed')) BY <2>1, OnTheWayGrows, Zenon
  <2>6. /\ DOMAIN queue' = Nodes \X Nodes
        /\ \A e, d \in Nodes : queue'[<<e, d>>] \in Seq(OnTheWay(e, d, executed')) /\ Len(queue'[<<e, d>>]) <= QueueRoom
    <3>1. CASE HasRoom(w.node, s)
      <4> DEFINE q == Append(queue[<<w.node, s>>], Response(w.node, msg[w]))
      <4>1. queue' = [queue EXCEPT ![<<w.node, s>>] = q] BY <1>5, <2>3, <3>1, Zenon DEF Handle, Enqueue
      <4>2. q \in Seq(OnTheWay(w.node, s, executed')) /\ Len(q) = Len(queue[<<w.node, s>>]) + 1
        BY <1>0, <2>4, <2>5, AppendProperties
      <4>3. Len(queue[<<w.node, s>>]) \in Nat BY <1>0
      <4>4. Len(q) <= QueueRoom BY <3>1, <4>2, <4>3 DEF HasRoom
      <4> HIDE DEF q
      <4> QED BY <1>0, <2>5, <4>1, <4>2, <4>4
    <3>2. CASE ~HasRoom(w.node, s) BY <1>5, <2>3, <2>5, <3>2, Zenon DEF Handle
    <3> QED BY <3>1, <3>2, Zenon
  <2> QED BY <1>0, <1>5, <2>6, Zenon DEF Handle
<1> QED BY <1>1, <1>2, <1>3, <1>4, <1>5, Zenon DEF WorkerStep

\* Nodes that come, go and beat keep the types.
LEMMA NodeTypes ==
  ASSUME RequestInv, NEW n \in Nodes, RequestStepOf(n)
  PROVE  RequestTypes'
<1> USE RequestAssumption DEF RequestInv, RequestTypes, membership, callerVars
<1>1. CASE Initialize(n)
  <2>1. ASSUME NEW s \in Nodes, NEW d \in Nodes
        PROVE  queue'[<<s, d>>] \in Seq(OnTheWay(s, d, executed)) /\ Len(queue'[<<s, d>>]) <= QueueRoom
    <3>1. queue'[<<s, d>>] = <<>> BY <1>1, Zenon DEF Initialize
    <3> QED BY <3>1, EmptySeq
  <2>2. linked' \in BOOLEAN BY <1>1, Zenon DEF Initialize
  <2> QED BY <1>1, <2>1, <2>2 DEF Initialize
<1>2. CASE RegisterNode(n) BY <1>2, Zenon DEF RegisterNode
<1>3. CASE Stop(n)
  <2>1. linked' \in BOOLEAN BY <1>3, Zenon DEF Stop, cleanup
  <2> QED BY <1>3, <2>1, Zenon DEF Stop, cleanup, deregister_node
<1>4. CASE Beat(n)
  <2>1. next_msg_id' \in [Nodes -> 1 .. MaxId + 1] BY <1>4 DEF Beat, Ids
  <2> DEFINE m == Heartbeat(n, next_msg_id[n])
  <2>2. \A d \in Nodes : m \in OnTheWay(n, d, executed) BY <1>4, Zenon DEF Beat, Heartbeat, OnTheWay, Messages
  <2>3. ASSUME NEW s \in Nodes, NEW d \in Nodes
        PROVE  queue'[<<s, d>>] \in Seq(OnTheWay(s, d, executed)) /\ Len(queue'[<<s, d>>]) <= QueueRoom
    <3>1. <<s, d>> \in Nodes \X Nodes /\ <<s, d>>[1] = s /\ <<s, d>>[2] = d OBVIOUS
    <3>2. \/ queue'[<<s, d>>] = queue[<<s, d>>]
          \/ s = n /\ HasRoom(n, d) /\ queue'[<<s, d>>] = Append(queue[<<s, d>>], m)
      BY <1>4, <3>1, Zenon DEF Beat, broadcast_message
    <3> HIDE DEF m
    <3>3. CASE queue'[<<s, d>>] = queue[<<s, d>>] BY <3>3, Zenon
    <3>4. CASE s = n /\ HasRoom(n, d) /\ queue'[<<s, d>>] = Append(queue[<<s, d>>], m)
      BY <2>2, <3>4, EnqueueTypes
    <3> QED BY <3>2, <3>3, <3>4, Zenon
  <2>4. DOMAIN queue' = Nodes \X Nodes BY <1>4, Zenon DEF Beat, broadcast_message
  <2> QED BY <1>4, <2>1, <2>3, <2>4 DEF Beat
<1> QED BY <1>1, <1>2, <1>3, <1>4, Zenon DEF RequestStepOf

\* A step that leaves the tables and the calls alone, and lets no call begin or
\* end, keeps them matched.
LEMMA TableKept ==
  ASSUME RequestInv, RequestTypes', UNCHANGED <<pending_requests, call, stray>>,
         \A c \in Callers : pc'[c] = "idle" <=> pc[c] = "idle",
         \A n \in Nodes : next_msg_id'[n] >= next_msg_id[n]
  PROVE  TableMatches'
<1>1. \A n \in Nodes : next_msg_id[n] \in Int /\ next_msg_id'[n] \in Int BY SMTT(30) DEF RequestInv, RequestTypes
<1>2. \A n \in Nodes, id \in Ids : id < next_msg_id[n] => id < next_msg_id'[n]
  BY <1>1, RequestAssumption DEF Ids
<1> QED BY <1>2 DEF RequestInv, TableMatches

\* The steps of a client thread keep table and calls matched.
LEMMA CallerTable ==
  ASSUME RequestInv, RequestTypes', NEW c \in Callers, CallerStep(c)
  PROVE  TableMatches'
<1> USE RequestAssumption DEF RequestInv, Go, membership, callerVars
<1>0. c.node \in Nodes BY Zenon DEF RequestTypes
<1>1. CASE Call(c)
  <2> DEFINE n == c.node
             id == next_msg_id[n]
  <2>1. /\ id \in Ids /\ id \notin DOMAIN pending_requests[n]
        /\ \A m \in Nodes : m # n => pending_requests'[m] = pending_requests[m]
        /\ DOMAIN pending_requests'[n] = DOMAIN pending_requests[n] \cup {id}
        /\ pending_requests'[n][id] = c
        /\ \A x \in DOMAIN pending_requests[n] : pending_requests'[n][x] = pending_requests[n][x]
    BY <1>1, CallTable, Zenon
  <2>2. /\ call' = [call EXCEPT ![c] = Request(n, id)] /\ pc' = [pc EXCEPT ![c] = "send"] /\ pc[c] = "idle"
        /\ next_msg_id' = [next_msg_id EXCEPT ![n] = id + 1] /\ stray' = stray
    BY <1>1, Zenon DEF Call
  <2>3. Request(n, id).msg_id = id BY Zenon DEF Request
  <2> HIDE DEF n, id
  <2>4. call'[c] = Request(n, id) /\ pc'[c] = "send" /\ \A d \in Callers : d # c => call'[d] = call[d] /\ pc'[d] = pc[d]
    BY <2>2 DEF RequestTypes
  <2>5. ASSUME NEW d \in Callers, pc'[d] # "idle"
        PROVE  /\ call'[d] = Request(d.node, call'[d].msg_id)
               /\ call'[d].msg_id \in DOMAIN pending_requests'[d.node]
               /\ pending_requests'[d.node][call'[d].msg_id] = d
    <3>1. CASE d = c BY <2>1, <2>3, <2>4, <3>1, Zenon DEF n
    <3>2. CASE d # c
      <4>1. pc[d] # "idle" /\ call'[d] = call[d] /\ d.node \in Nodes BY <2>4, <2>5, <3>2, Zenon
      <4>2. /\ call[d] = Request(d.node, call[d].msg_id)
            /\ call[d].msg_id \in DOMAIN pending_requests[d.node]
            /\ pending_requests[d.node][call[d].msg_id] = d
        BY <4>1, Zenon DEF TableMatches
      <4> QED BY <2>1, <4>1, <4>2, Zenon
    <3> QED BY <3>1, <3>2, Zenon
  <2>6. ASSUME NEW m \in Nodes, NEW x \in DOMAIN pending_requests'[m]
        PROVE  /\ x \in Ids /\ x < next_msg_id'[m]
               /\ pending_requests'[m][x] \in Callers /\ pending_requests'[m][x].node = m
               /\ pc'[pending_requests'[m][x]] # "idle" /\ call'[pending_requests'[m][x]].msg_id = x
    <3>0. \A k \in Nodes : next_msg_id[k] \in Int BY DEF RequestTypes
    <3>1. n \in Nodes /\ id \in Int BY <1>0, <2>1 DEF n, Ids
    <3>2. next_msg_id'[n] = id + 1 /\ next_msg_id[n] = id /\ \A k \in Nodes : k # n => next_msg_id'[k] = next_msg_id[k]
      BY <2>2, <3>1 DEF RequestTypes, id
    <3>3. CASE m = n /\ x = id
      BY <2>1, <2>3, <2>4, <3>1, <3>2, <3>3 DEF n
    <3>4. CASE ~(m = n /\ x = id)
      <4>1. x \in DOMAIN pending_requests[m] /\ pending_requests'[m][x] = pending_requests[m][x]
        BY <2>1, <2>6, <3>4
      <4> DEFINE d == pending_requests[m][x]
      <4>2. x \in Ids /\ x < next_msg_id[m] /\ d \in Callers /\ d.node = m /\ pc[d] # "idle" /\ call[d].msg_id = x
        BY <4>1 DEF TableMatches
      <4>3. d # c BY <2>2, <4>2, Zenon
      <4>4. x < next_msg_id'[m] BY <3>0, <3>1, <3>2, <4>2 DEF Ids
      <4> QED BY <2>4, <4>1, <4>2, <4>3, <4>4
    <3> QED BY <3>3, <3>4, Zenon
  <2> QED BY <2>2, <2>5, <2>6, Zenon DEF TableMatches
<1>2. CASE SendRequest(c) \/ WaitCompleted(c) \/ WaitTimeout(c)
  <2>1. UNCHANGED <<pending_requests, call, stray, next_msg_id>>
    BY <1>2, Zenon DEF SendRequest, WaitCompleted, WaitTimeout
  <2>2. \A d \in Callers : pc'[d] = "idle" <=> pc[d] = "idle"
    BY <1>2 DEF SendRequest, WaitCompleted, WaitTimeout, RequestTypes
  <2>3. \A n \in Nodes : next_msg_id'[n] >= next_msg_id[n] BY <2>1, SMTT(30) DEF RequestTypes
  <2> QED BY <2>1, <2>2, <2>3, TableKept, Zenon
<1>3. ASSUME NEW ok, pc[c] # "idle", Return(c, ok) PROVE TableMatches'
  <2> DEFINE n == c.node
             id == call[c].msg_id
  <2>1. /\ \A m \in Nodes : m # n => pending_requests'[m] = pending_requests[m]
        /\ DOMAIN pending_requests'[n] = DOMAIN pending_requests[n] \ {id}
        /\ \A x \in DOMAIN pending_requests[n] \ {id} : pending_requests'[n][x] = pending_requests[n][x]
    BY <1>3, ReturnTable, Zenon DEF Return
  <2>2. /\ pc'[c] = "idle" /\ \A d \in Callers : d # c => call'[d] = call[d] /\ pc'[d] = pc[d]
        /\ next_msg_id' = next_msg_id /\ stray' = stray
    BY <1>3, Zenon DEF Return, RequestTypes
  <2>3. id \in DOMAIN pending_requests[n] /\ pending_requests[n][id] = c BY <1>3, Zenon DEF TableMatches
  <2> HIDE DEF n, id
  <2>4. ASSUME NEW d \in Callers, pc'[d] # "idle"
        PROVE  /\ call'[d] = Request(d.node, call'[d].msg_id)
               /\ call'[d].msg_id \in DOMAIN pending_requests'[d.node]
               /\ pending_requests'[d.node][call'[d].msg_id] = d
    <3>1. d # c /\ pc[d] # "idle" /\ call'[d] = call[d] /\ d.node \in Nodes BY <2>2, <2>4, Zenon
    <3>2. /\ call[d] = Request(d.node, call[d].msg_id)
          /\ call[d].msg_id \in DOMAIN pending_requests[d.node]
          /\ pending_requests[d.node][call[d].msg_id] = d
      BY <3>1, Zenon DEF TableMatches
    <3>3. ~(d.node = n /\ call[d].msg_id = id) BY <2>3, <3>1, <3>2, Zenon
    <3> QED BY <2>1, <3>1, <3>2, <3>3, Zenon
  <2>5. ASSUME NEW m \in Nodes, NEW x \in DOMAIN pending_requests'[m]
        PROVE  /\ x \in Ids /\ x < next_msg_id'[m]
               /\ pending_requests'[m][x] \in Callers /\ pending_requests'[m][x].node = m
               /\ pc'[pending_requests'[m][x]] # "idle" /\ call'[pending_requests'[m][x]].msg_id = x
    <3>1. /\ x \in DOMAIN pending_requests[m] /\ pending_requests'[m][x] = pending_requests[m][x]
          /\ ~(m = n /\ x = id)
      BY <2>1, <2>5, Zenon
    <3> DEFINE d == pending_requests[m][x]
    <3>2. x \in Ids /\ x < next_msg_id[m] /\ d \in Callers /\ d.node = m /\ pc[d] # "idle" /\ call[d].msg_id = x
      BY <3>1 DEF TableMatches
    <3>3. d # c BY <3>1, <3>2, Zenon DEF n, id
    <3> QED BY <2>2, <3>1, <3>2, <3>3, Zenon
  <2> QED BY <2>2, <2>4, <2>5, Zenon DEF TableMatches
<1>4. CASE ReturnUnsent(c) BY <1>3, <1>4, Zenon DEF ReturnUnsent
<1>5. CASE ReturnAnswered(c) BY <1>3, <1>5, Zenon DEF ReturnAnswered
<1>6. CASE ReturnTimedOut(c) BY <1>3, <1>6, Zenon DEF ReturnTimedOut
<1> QED BY <1>1, <1>2, <1>4, <1>5, <1>6, Zenon DEF CallerStep

\* An entry of the table names a call in progress that has its id.
LEMMA EntryIsCall ==
  ASSUME TableMatches, NEW n \in Nodes, NEW id \in DOMAIN pending_requests[n]
  PROVE  /\ pending_requests[n][id] \in Callers /\ pending_requests[n][id].node = n
         /\ pc[pending_requests[n][id]] # "idle" /\ call[pending_requests[n][id]].msg_id = id
BY DEF TableMatches

\* So do the workers: a message is copied only into the frame of the call that
\* has its id.
LEMMA WorkerTable ==
  ASSUME RequestInv, RequestTypes', NEW w \in Workers, WorkerStep(w)
  PROVE  TableMatches'
<1> USE RequestAssumption DEF RequestInv, Go, membership, callerVars
<1>1. UNCHANGED <<pending_requests, call, next_msg_id>>
  BY Zenon DEF WorkerStep, Dequeue, Deliver, Complete, NotPending, Handle
<1>2. \A d \in Callers : pc'[d] = pc[d]
  <2>1. w \notin Callers OBVIOUS
  <2>2. \E l \in WorkerLabels : pc' = [pc EXCEPT ![w] = l]
    BY Zenon DEF WorkerStep, Dequeue, Deliver, Complete, NotPending, Handle
  <2> QED BY <2>1, <2>2, SMTT(30) DEF RequestTypes
<1>3. stray' = stray
  <2>1. CASE Deliver(w)
    <3>1. w.node \in Nodes BY Zenon DEF Nodes
    <3>2. msg[w].msg_id \in DOMAIN pending_requests[w.node] BY <2>1, Zenon DEF Deliver
    <3>3. call[pending_requests[w.node][msg[w].msg_id]].msg_id = msg[w].msg_id /\ ~stray
      BY <3>1, <3>2, EntryIsCall, SMTT(30) DEF TableMatches
    <3>4. stray' = (stray \/ call[pending_requests[w.node][msg[w].msg_id]].msg_id # msg[w].msg_id)
      BY <2>1, Zenon DEF Deliver
    <3>5. ~stray' BY <3>3, <3>4, Zenon
    <3> QED BY <3>3, <3>5, Zenon DEF RequestTypes
  <2> QED BY <2>1, Zenon DEF WorkerStep, Dequeue, Complete, NotPending, Handle
<1>4. \A n \in Nodes : next_msg_id'[n] >= next_msg_id[n] BY <1>1 DEF RequestTypes
<1> QED BY <1>1, <1>2, <1>3, <1>4, TableKept, Zenon

\* And the nodes.
LEMMA NodeTable ==
  ASSUME RequestInv, RequestTypes', NEW n \in Nodes, RequestStepOf(n)
  PROVE  TableMatches'
<1>1. UNCHANGED <<pending_requests, call, stray, pc>>
  BY Zenon DEF RequestStepOf, Initialize, RegisterNode, Stop, Beat, callerVars
<1>2. \A m \in Nodes : next_msg_id'[m] >= next_msg_id[m]
  <2>1. next_msg_id' = next_msg_id \/ next_msg_id' = [next_msg_id EXCEPT ![n] = @ + 1]
    BY Zenon DEF RequestStepOf, Initialize, RegisterNode, Stop, Beat
  <2>2. \A m \in Nodes : next_msg_id[m] \in Int BY DEF RequestInv, RequestTypes
  <2>3. DOMAIN next_msg_id = Nodes BY Zenon DEF RequestInv, RequestTypes
  <2> QED BY <2>1, <2>2, <2>3
<1> QED BY <1>1, <1>2, TableKept, Zenon

\* A client thread gets what was copied for its own request.
LEMMA CallerAnswers ==
  ASSUME RequestInv, RequestTypes', NEW c \in Callers, CallerStep(c)
  PROVE  AnswersMatch' /\ AnswerHasItsId'
<1> USE RequestAssumption DEF RequestInv, Go, membership, callerVars
<1>0. c.node \in Nodes /\ c \notin Workers OBVIOUS
<1>1. /\ UNCHANGED <<executed, msg, pending_mutex>>
      /\ \E l \in CallerLabels : pc' = [pc EXCEPT ![c] = l]
  BY Zenon DEF CallerStep, Call, SendRequest, ReturnUnsent, WaitCompleted, ReturnAnswered, WaitTimeout,
         ReturnTimedOut, Return
<1>2. (\A w \in Workers : pc'[w] = pc[w]) /\ \A d \in Callers : d # c => pc'[d] = pc[d]
  BY <1>0, <1>1, SMTT(30) DEF RequestTypes
<1>3. \A w \in Workers : pc'[w] # "idle" =>
        \E s \in Nodes : s # w.node /\ msg'[w] \in OnTheWay(s, w.node, executed')
  BY <1>1, <1>2, Zenon DEF AnswersMatch
<1>4. \A d \in Callers : d # c => UNCHANGED <<call[d], completed[d], resp[d], returned[d]>>
  BY SMTT(30) DEF CallerStep, Call, SendRequest, ReturnUnsent, WaitCompleted, ReturnAnswered, WaitTimeout,
         ReturnTimedOut, Return, RequestTypes
<1>5. \/ UNCHANGED <<pending_requests, resp>>
      \/ pending_mutex[c.node] = Free /\ \A m \in Nodes : m # c.node => pending_requests'[m] = pending_requests[m]
  BY CallTable, ReturnTable, Zenon
     DEF CallerStep, Call, SendRequest, ReturnUnsent, WaitCompleted, ReturnAnswered, WaitTimeout,
         ReturnTimedOut, Return
<1>6. ASSUME NEW w \in Workers, pc'[w] = "deliver"
      PROVE  /\ pending_mutex'[w.node] = w
             /\ msg'[w].msg_id \in DOMAIN pending_requests'[w.node]
             /\ Answers(resp'[pending_requests'[w.node][msg'[w].msg_id]], w.node, msg'[w].msg_id, executed')
  <2>0. w.node \in Nodes /\ w # Free BY Zenon DEF Nodes
  <2>1. /\ pending_mutex[w.node] = w
        /\ msg[w].msg_id \in DOMAIN pending_requests[w.node]
        /\ Answers(resp[pending_requests[w.node][msg[w].msg_id]], w.node, msg[w].msg_id, executed)
    BY <1>2, <1>6, Zenon DEF AnswersMatch
  <2>2. CASE UNCHANGED <<pending_requests, resp>> BY <1>1, <2>1, <2>2, Zenon DEF Answers
  <2>3. CASE pending_mutex[c.node] = Free /\ \A m \in Nodes : m # c.node => pending_requests'[m] = pending_requests[m]
    <3>1. w.node # c.node /\ pending_requests'[w.node] = pending_requests[w.node] BY <2>0, <2>1, <2>3, Zenon
    <3>2. pending_requests[w.node][msg[w].msg_id] \in Callers /\ pending_requests[w.node][msg[w].msg_id] # c
      <4>1. /\ pending_requests[w.node][msg[w].msg_id] \in Callers
            /\ pending_requests[w.node][msg[w].msg_id].node = w.node
        BY <2>0, <2>1, EntryIsCall, Zenon
      <4> QED BY <3>1, <4>1, Zenon
    <3>3. resp'[pending_requests[w.node][msg[w].msg_id]] = resp[pending_requests[w.node][msg[w].msg_id]]
      BY <1>4, <3>2, Zenon
    <3> QED BY <1>1, <2>1, <3>1, <3>3, Zenon DEF Answers
  <2> QED BY <1>5, <2>2, <2>3, Zenon
<1>7. \A d \in Callers : d # c /\ pc'[d] # "idle" /\ completed'[d] => Answers(resp'[d], d.node, call'[d].msg_id, executed')
  <2> SUFFICES ASSUME NEW d \in Callers, d # c, pc'[d] # "idle", completed'[d]
               PROVE  Answers(resp'[d], d.node, call'[d].msg_id, executed')
    BY Zenon
  <2>1. pc[d] # "idle" /\ completed[d] BY <1>2, <1>4, Zenon
  <2>2. Answers(resp[d], d.node, call[d].msg_id, executed) BY <2>1, Zenon DEF AnswersMatch
  <2>3. resp'[d] = resp[d] /\ call'[d] = call[d] /\ executed' = executed BY <1>1, <1>4, Zenon
  <2> QED BY <2>2, <2>3, Zenon
<1>8. \A d \in Callers : d # c /\ pc'[d] = "answered" => completed'[d] BY <1>2, <1>4, Zenon DEF AnswersMatch
<1>9. \A d \in Callers : d # c /\ returned'[d].ok =>
        /\ returned'[d].response.msg_id = returned'[d].request.msg_id
        /\ returned'[d].response.src # d.node
        /\ returned'[d].response.type = "RESP" => <<d.node, returned'[d].request.msg_id>> \in executed'
  BY <1>1, <1>4 DEF AnswerHasItsId
<1>10. SUFFICES /\ pc'[c] # "idle" /\ completed'[c] => Answers(resp'[c], c.node, call'[c].msg_id, executed')
                /\ pc'[c] = "answered" => completed'[c]
                /\ returned'[c].ok =>
                     /\ returned'[c].response.msg_id = returned'[c].request.msg_id
                     /\ returned'[c].response.src # c.node
                     /\ returned'[c].response.type = "RESP" => <<c.node, returned'[c].request.msg_id>> \in executed'
  <2>1. AnswersMatch' BY <1>3, <1>6, <1>7, <1>8, <1>10 DEF AnswersMatch
  <2>2. AnswerHasItsId' BY <1>9, <1>10, Zenon DEF AnswerHasItsId
  <2> QED BY <2>1, <2>2, Zenon
<1>11. CASE Call(c)
  <2>1. completed'[c] = FALSE /\ returned'[c] = NotCalled /\ pc'[c] = "send" BY <1>11 DEF Call, RequestTypes
  <2>2. ~returned'[c].ok BY <2>1 DEF NotCalled
  <2> QED BY <1>10, <2>1, <2>2
<1>12. CASE SendRequest(c) \/ WaitCompleted(c) \/ WaitTimeout(c)
  <2>1. /\ UNCHANGED <<call, completed, resp, returned>> /\ pc[c] # "idle"
        /\ pc'[c] = "answered" => completed[c]
    BY <1>12, SMTT(30) DEF SendRequest, WaitCompleted, WaitTimeout, RequestTypes
  <2> QED BY <1>1, <2>1, Zenon DEF AnswersMatch, AnswerHasItsId, Answers
<1>13. ASSUME NEW ok, Return(c, ok), ok => pc[c] = "answered"
       PROVE  /\ pc'[c] # "idle" /\ completed'[c] => Answers(resp'[c], c.node, call'[c].msg_id, executed')
              /\ pc'[c] = "answered" => completed'[c]
              /\ returned'[c].ok =>
                   /\ returned'[c].response.msg_id = returned'[c].request.msg_id
                   /\ returned'[c].response.src # c.node
                   /\ returned'[c].response.type = "RESP" => <<c.node, returned'[c].request.msg_id>> \in executed'
  <2>1. pc'[c] = "idle" /\ returned'[c] = [ok |-> ok, request |-> call[c], response |-> resp[c]]
    BY <1>13, Zenon DEF Return, RequestTypes
  <2>2. ok => Answers(resp[c], c.node, call[c].msg_id, executed) BY <1>13, Zenon DEF AnswersMatch
  <2> QED BY <1>1, <2>1, <2>2, SMTT(30) DEF Answers
<1>14. CASE ReturnUnsent(c) BY <1>13, <1>14, Zenon DEF ReturnUnsent
<1>15. CASE ReturnAnswered(c) BY <1>13, <1>15, Zenon DEF ReturnAnswered
<1>16. CASE ReturnTimedOut(c) BY <1>13, <1>16, Zenon DEF ReturnTimedOut
<1> QED BY <1>11, <1>12, <1>14, <1>15, <1>16, Zenon DEF CallerStep

\* A worker copies a message only to the call with its id, holding the table.
LEMMA WorkerAnswers ==
  ASSUME RequestInv, RequestTypes', NEW w \in Workers, WorkerStep(w)
  PROVE  AnswersMatch' /\ AnswerHasItsId'
<1> USE RequestAssumption DEF RequestInv, Go, membership, callerVars
<1>0. w.node \in Nodes /\ w \notin Callers /\ w # Free BY Zenon DEF Nodes
<1>1. /\ UNCHANGED <<pending_requests, call, returned>> /\ executed \subseteq executed'
      /\ \E l \in WorkerLabels : pc' = [pc EXCEPT ![w] = l]
  BY Zenon DEF WorkerStep, Dequeue, Deliver, Complete, NotPending, Handle
<1>2. (\A d \in Callers : pc'[d] = pc[d]) /\ \A v \in Workers : v # w => pc'[v] = pc[v]
  BY <1>0, <1>1, SMTT(30) DEF RequestTypes
<1>3. AnswerHasItsId' BY <1>1, Zenon DEF AnswerHasItsId
<1>4. \A s, d \in Nodes : OnTheWay(s, d, executed) \subseteq OnTheWay(s, d, executed') BY <1>1, OnTheWayGrows, Zenon
<1>5. \A m, n, id : Answers(m, n, id, executed) => Answers(m, n, id, executed') BY <1>1, Zenon DEF Answers
<1>6. \A v \in Workers : v # w => msg'[v] = msg[v]
  <2>1. msg' = msg \/ \E m : msg' = [msg EXCEPT ![w] = m]
    BY Zenon DEF WorkerStep, Dequeue, Deliver, Complete, NotPending, Handle
  <2> QED BY <2>1 DEF RequestTypes
<1>7. \A v \in Workers : v # w /\ pc'[v] # "idle" =>
        \E s \in Nodes : s # v.node /\ msg'[v] \in OnTheWay(s, v.node, executed')
  BY <1>2, <1>4, <1>6 DEF AnswersMatch, Nodes
<1>8. pc[w] # "idle" => \E s \in Nodes : s # w.node /\ msg[w] \in OnTheWay(s, w.node, executed')
  BY <1>0, <1>4, Zenon DEF AnswersMatch
<1>9. \A d \in Callers : pc'[d] = "answered" => completed'[d]
  <2>1. completed' = completed \/ \E c : completed' = [completed EXCEPT ![c] = TRUE]
    BY Zenon DEF WorkerStep, Dequeue, Deliver, Complete, NotPending, Handle
  <2>2. \A d \in Callers : completed[d] => completed'[d] BY <2>1, SMTT(30) DEF RequestTypes
  <2> QED BY <1>2, <2>2, Zenon DEF AnswersMatch
<1>10. \A v \in Workers : pc[v] = "deliver" =>
        /\ v.node \in Nodes /\ pending_mutex[v.node] = v /\ v # Free
        /\ msg[v].msg_id \in DOMAIN pending_requests[v.node]
        /\ pending_requests[v.node][msg[v].msg_id] \in Callers
        /\ pending_requests[v.node][msg[v].msg_id].node = v.node
        /\ Answers(resp[pending_requests[v.node][msg[v].msg_id]], v.node, msg[v].msg_id, executed)
  <2> SUFFICES ASSUME NEW v \in Workers, pc[v] = "deliver"
               PROVE  /\ v.node \in Nodes /\ pending_mutex[v.node] = v /\ v # Free
                      /\ msg[v].msg_id \in DOMAIN pending_requests[v.node]
                      /\ pending_requests[v.node][msg[v].msg_id] \in Callers
                      /\ pending_requests[v.node][msg[v].msg_id].node = v.node
                      /\ Answers(resp[pending_requests[v.node][msg[v].msg_id]], v.node, msg[v].msg_id, executed)
    BY Zenon
  <2>1. v.node \in Nodes /\ v # Free BY Zenon DEF Nodes
  <2>2. /\ pending_mutex[v.node] = v /\ msg[v].msg_id \in DOMAIN pending_requests[v.node]
        /\ Answers(resp[pending_requests[v.node][msg[v].msg_id]], v.node, msg[v].msg_id, executed)
    BY Zenon DEF AnswersMatch
  <2> QED BY <2>1, <2>2, EntryIsCall, Zenon
<1>11. CASE Dequeue(w)
  <2>1. PICK s \in Nodes \ {w.node} : queue[<<s, w.node>>] # <<>>
          /\ msg' = [msg EXCEPT ![w] = Head(queue[<<s, w.node>>])]
    BY <1>11, Zenon DEF Dequeue
  <2>2. queue[<<s, w.node>>] \in Seq(OnTheWay(s, w.node, executed)) BY <1>0, Zenon DEF RequestTypes
  <2>3. msg'[w] \in OnTheWay(s, w.node, executed) BY <2>1, <2>2, HeadTailProperties, Zenon DEF RequestTypes
  <2>4. UNCHANGED <<executed, resp, completed, pending_mutex>> /\ pc'[w] = "lookup"
    BY <1>11, Zenon DEF Dequeue, RequestTypes
  <2>5. \A v \in Workers : pc'[v] = "deliver" => pc[v] = "deliver" /\ v # w BY <1>2, <2>4, Zenon
  <2>6. \A v \in Workers : pc'[v] # "idle" =>
          \E e \in Nodes : e # v.node /\ msg'[v] \in OnTheWay(e, v.node, executed')
    BY <1>7, <2>3, <2>4, Zenon
  <2> QED BY <1>1, <1>2, <1>3, <1>6, <1>9, <1>10, <2>4, <2>5, <2>6 DEF AnswersMatch
<1>12. CASE Deliver(w)
  <2> DEFINE n == w.node
             id == msg[w].msg_id
             c == pending_requests[n][id]
  <2>1. /\ pc[w] = "lookup" /\ pc'[w] = "deliver" /\ pending_mutex[n] = Free /\ id \in DOMAIN pending_requests[n]
        /\ pending_mutex' = [pending_mutex EXCEPT ![n] = w] /\ resp' = [resp EXCEPT ![c] = msg[w]]
        /\ UNCHANGED <<executed, completed, msg>>
    BY <1>12, Zenon DEF Deliver, RequestTypes
  <2>2. c \in Callers /\ c.node = n /\ call[c].msg_id = id
    <3>1. n \in Nodes /\ id \in DOMAIN pending_requests[n] BY <1>0, <2>1, Zenon
    <3> HIDE DEF n, id
    <3> QED BY <3>1, EntryIsCall, Zenon
  <2>3. Answers(msg[w], n, id, executed)
    <3>1. PICK s \in Nodes : s # w.node /\ msg[w] \in OnTheWay(s, w.node, executed) BY <2>1, Zenon DEF AnswersMatch
    <3> QED BY <3>1, Zenon DEF Answers, OnTheWay
  <2> HIDE DEF n, id, c
  <2>4. resp'[c] = msg[w] /\ \A d \in Callers : d # c => resp'[d] = resp[d] BY <2>1, <2>2, Zenon DEF RequestTypes
  <2>5. \A d \in Callers : pc'[d] # "idle" /\ completed'[d] => Answers(resp'[d], d.node, call'[d].msg_id, executed')
    BY <1>1, <1>2, <2>1, <2>2, <2>3, <2>4, SMTT(30) DEF AnswersMatch
  <2>6. \A v \in Workers : pc'[v] # "idle" =>
          \E e \in Nodes : e # v.node /\ msg'[v] \in OnTheWay(e, v.node, executed')
    BY <1>7, <1>8, <2>1, Zenon
  <2>7. ASSUME NEW v \in Workers, pc'[v] = "deliver"
        PROVE  /\ pending_mutex'[v.node] = v
               /\ msg'[v].msg_id \in DOMAIN pending_requests'[v.node]
               /\ Answers(resp'[pending_requests'[v.node][msg'[v].msg_id]], v.node, msg'[v].msg_id, executed')
    <3>1. CASE v = w
      <4>1. pending_mutex'[n] = w BY <1>0, <2>1 DEF n, RequestTypes
      <4> QED BY <1>1, <2>1, <2>3, <2>4, <3>1, <4>1 DEF n, id, c
    <3>2. CASE v # w
      <4>1. /\ v.node \in Nodes /\ pending_mutex[v.node] = v /\ v # Free
            /\ msg[v].msg_id \in DOMAIN pending_requests[v.node]
            /\ pending_requests[v.node][msg[v].msg_id] \in Callers
            /\ pending_requests[v.node][msg[v].msg_id].node = v.node
            /\ Answers(resp[pending_requests[v.node][msg[v].msg_id]], v.node, msg[v].msg_id, executed)
        BY <1>2, <1>10, <2>7, <3>2, Zenon
      <4>2. v.node # n BY <2>1, <4>1, Zenon
      <4>3. pending_mutex'[v.node] = v
        <5>1. pending_mutex \in [Nodes -> Workers \cup {Free}] BY Zenon DEF RequestTypes
        <5> QED BY <2>1, <4>1, <4>2, <5>1, Zenon
      <4>4. pending_requests[v.node][msg[v].msg_id] # c BY <2>2, <4>1, <4>2, Zenon
      <4> QED BY <1>1, <2>1, <2>4, <4>1, <4>3, <4>4
    <3> QED BY <3>1, <3>2, Zenon
  <2> QED BY <1>3, <1>9, <2>5, <2>6, <2>7 DEF AnswersMatch
<1>13. CASE Complete(w)
  <2> DEFINE n == w.node
             id == msg[w].msg_id
             c == pending_requests[n][id]
  <2>1. /\ pc[w] = "deliver" /\ pc'[w] = "idle" /\ completed' = [completed EXCEPT ![c] = TRUE]
        /\ pending_mutex' = [pending_mutex EXCEPT ![n] = Free]
        /\ UNCHANGED <<executed, resp>>
    BY <1>13, Zenon DEF Complete, RequestTypes
  <2>2. /\ pending_mutex[n] = w /\ Answers(resp[c], n, id, executed)
        /\ c \in Callers /\ c.node = n /\ call[c].msg_id = id
    <3>1. n \in Nodes /\ pending_mutex[n] = w /\ id \in DOMAIN pending_requests[n]
      BY <1>0, <1>10, <2>1, Zenon
    <3>2. Answers(resp[c], n, id, executed)
      BY <1>0, <1>10, <2>1, Zenon
    <3> HIDE DEF n, id
    <3>3. c \in Callers /\ c.node = n /\ call[c].msg_id = id
      BY <3>1, EntryIsCall, Zenon
    <3> QED BY <3>1, <3>2, <3>3, Zenon
  <2> HIDE DEF n, id, c
  <2>3. \A d \in Callers : d # c => completed'[d] = completed[d] BY <2>1, SMTT(30) DEF RequestTypes
  <2>4. \A d \in Callers : pc'[d] # "idle" /\ completed'[d] => Answers(resp'[d], d.node, call'[d].msg_id, executed')
    BY <1>1, <1>2, <2>1, <2>2, <2>3 DEF AnswersMatch
  <2>5. \A v \in Workers : pc'[v] # "idle" =>
          \E e \in Nodes : e # v.node /\ msg'[v] \in OnTheWay(e, v.node, executed')
    BY <1>7, <2>1, Zenon
  <2>6. ASSUME NEW v \in Workers, pc'[v] = "deliver"
        PROVE  /\ pending_mutex'[v.node] = v
               /\ msg'[v].msg_id \in DOMAIN pending_requests'[v.node]
               /\ Answers(resp'[pending_requests'[v.node][msg'[v].msg_id]], v.node, msg'[v].msg_id, executed')
    <3>1. v # w /\ pc[v] = "deliver" /\ msg'[v] = msg[v] BY <1>2, <1>6, <2>1, <2>6, Zenon
    <3>2. /\ v.node \in Nodes /\ pending_mutex[v.node] = v
          /\ msg[v].msg_id \in DOMAIN pending_requests[v.node]
          /\ Answers(resp[pending_requests[v.node][msg[v].msg_id]], v.node, msg[v].msg_id, executed)
      BY <1>10, <3>1, Zenon
    <3>3. v.node # n BY <2>2, <3>1, <3>2, Zenon
    <3>4. pending_mutex'[v.node] = v BY <2>1, <3>2, <3>3 DEF RequestTypes
    <3> QED BY <1>1, <2>1, <3>1, <3>2, <3>4
  <2> QED BY <1>3, <1>9, <2>4, <2>5, <2>6, Zenon DEF AnswersMatch
<1>14. CASE NotPending(w) \/ Handle(w)
  <2>1. /\ UNCHANGED <<resp, completed, pending_mutex>> /\ pc[w] # "idle"
        /\ pc'[w] = "idle" \/ (pc'[w] = "handle" /\ msg' = msg)
    <3>1. CASE NotPending(w)
      <4>1. \/ pc' = [pc EXCEPT ![w] = "idle"]
            \/ pc' = [pc EXCEPT ![w] = "handle"] /\ msg' = msg
        BY <3>1, Zenon DEF NotPending
      <4> QED BY <3>1, <4>1, SMTT(30) DEF NotPending, RequestTypes
    <3>2. CASE Handle(w)
      <4>1. pc' = [pc EXCEPT ![w] = "idle"] BY <3>2, Zenon DEF Handle
      <4> QED BY <3>2, <4>1, Zenon DEF Handle, RequestTypes
    <3> QED BY <1>14, <3>1, <3>2, Zenon
  <2>2. \A v \in Workers : pc'[v] # "idle" =>
          \E e \in Nodes : e # v.node /\ msg'[v] \in OnTheWay(e, v.node, executed')
    BY <1>7, <1>8, <2>1, Zenon
  <2>3. \A d \in Callers : pc'[d] # "idle" /\ completed'[d] => Answers(resp'[d], d.node, call'[d].msg_id, executed')
    BY <1>1, <1>2, <1>5, <2>1, Zenon DEF AnswersMatch
  <2>4. ASSUME NEW v \in Workers, pc'[v] = "deliver"
        PROVE  /\ pending_mutex'[v.node] = v
               /\ msg'[v].msg_id \in DOMAIN pending_requests'[v.node]
               /\ Answers(resp'[pending_requests'[v.node][msg'[v].msg_id]], v.node, msg'[v].msg_id, executed')
    <3>1. v # w /\ pc[v] = "deliver" /\ msg'[v] = msg[v] BY <1>2, <1>6, <2>1, <2>4
    <3> QED BY <1>1, <1>5, <1>10, <2>1, <3>1
  <2> QED BY <1>3, <1>9, <2>2, <2>3, <2>4, Zenon DEF AnswersMatch
<1> QED BY <1>11, <1>12, <1>13, <1>14, Zenon DEF WorkerStep

\* Every step keeps the invariant.
LEMMA RequestStep == RequestInv /\ [RequestNext]_requestVars => RequestInv'
<1> SUFFICES ASSUME RequestInv, [RequestNext]_requestVars PROVE RequestInv' OBVIOUS
<1>1. ASSUME NEW c \in Callers, CallerStep(c) PROVE RequestInv'
  BY <1>1, CallerTypes, CallerTable, CallerAnswers, Zenon DEF RequestInv
<1>2. ASSUME NEW w \in Workers, WorkerStep(w) PROVE RequestInv'
  BY <1>2, WorkerTypes, WorkerTable, WorkerAnswers, Zenon DEF RequestInv
<1>3. ASSUME NEW n \in Nodes, RequestStepOf(n) PROVE RequestInv'
  <2>1. RequestTypes' /\ TableMatches' BY <1>3, NodeTypes, NodeTable, Zenon
  <2>2. UNCHANGED <<pending_requests, pending_mutex, callerVars, pc, resp, msg, executed>>
    BY <1>3, Zenon DEF RequestStepOf, Initialize, RegisterNode, Stop, Beat
  <2>3. AnswersMatch' /\ AnswerHasItsId'
    BY <2>2, Zenon DEF RequestInv, AnswersMatch, AnswerHasItsId, callerVars
  <2> QED BY <2>1, <2>3, Zenon DEF RequestInv
<1>4. CASE UNCHANGED requestVars
  <2>1. UNCHANGED <<membership, next_msg_id, queue, pending_requests, pending_mutex, callerVars>>
        /\ UNCHANGED <<pc, resp, msg, executed, stray>>
    BY <1>4, Zenon DEF requestVars
  <2>2. UNCHANGED <<linked, state, up, call, completed, pending_lock, returned>>
    BY <2>1, Zenon DEF membership, callerVars
  <2>3. RequestTypes'
    BY <2>1, <2>2, SMTT(30) DEF RequestInv, RequestTypes
  <2>4. TableMatches'
    BY <2>1, <2>2, SMTT(30) DEF RequestInv, TableMatches
  <2>5. AnswersMatch'
    BY <2>1, <2>2, Zenon DEF RequestInv, AnswersMatch
  <2>6. AnswerHasItsId'
    BY <2>1, <2>2, Zenon DEF RequestInv, AnswerHasItsId
  <2> QED BY <2>3, <2>4, <2>5, <2>6, Zenon DEF RequestInv
<1> QED BY <1>1, <1>2, <1>3, <1>4, Zenon DEF RequestNext, RequestStepOf

\* The types of all variables, for any instance.
THEOREM RequestsTyped == RequestSpec => []RequestTypeOK
<1>1. RequestInv => RequestTypeOK
  <2> SUFFICES ASSUME RequestInv PROVE RequestTypeOK OBVIOUS
  <2>1. ASSUME NEW n \in Nodes
        PROVE  /\ DOMAIN pending_requests[n] \subseteq Ids
               /\ Range(pending_requests[n]) \subseteq Callers
               /\ pending_mutex[n] \in Workers \cup {Free}
    BY DEF RequestInv, RequestTypes, TableMatches, Range
  <2>2. \A e \in Nodes \X Nodes : Len(queue[e]) <= QueueRoom BY DEF RequestInv, RequestTypes
  <2> QED BY <2>1, <2>2, Zenon DEF RequestInv, RequestTypes, RequestTypeOK
<1> QED BY <1>1, RequestStart, RequestStep, PTL DEF RequestSpec

\* For any number of nodes, client threads and workers, the table of pending
\* requests holds exactly the calls in progress, and no response is copied into
\* the frame of a call that is over.
THEOREM PendingTable == RequestSpec => []PendingExact
<1>1. RequestInv => PendingExact
  <2> SUFFICES ASSUME RequestInv PROVE PendingExact OBVIOUS
  <2> USE RequestAssumption
  <2>1. TableMatches /\ ~stray BY Zenon DEF RequestInv, TableMatches
  <2>2. ASSUME NEW n \in Nodes
        PROVE  Cardinality(DOMAIN pending_requests[n]) = Cardinality({c \in Callers : c.node = n /\ pc[c] # "idle"})
    <3> DEFINE S == {c \in Callers : c.node = n /\ pc[c] # "idle"}
               T == DOMAIN pending_requests[n]
               g == [c \in S |-> call[c].msg_id]
    <3>1. IsFiniteSet(S) BY FS_Subset, Zenon
    <3>2. g \in [S -> T] /\ \A c \in S : pending_requests[n][g[c]] = c BY <2>1, Zenon DEF TableMatches
    <3>3. \A id \in T : pending_requests[n][id] \in S /\ g[pending_requests[n][id]] = id
      BY <2>1, EntryIsCall
    <3> HIDE DEF S, T, g
    <3>4. g \in Bijection(S, T)
      <4>1. \A a, b \in S : g[a] = g[b] => a = b BY <3>2, Zenon
      <4>2. \A id \in T : \E c \in S : g[c] = id BY <3>3, Zenon
      <4> QED BY <3>2, <4>1, <4>2, Fun_IsBij, Zenon
    <3>5. ExistsBijection(S, T) BY <3>4, Zenon DEF ExistsBijection
    <3>6. Cardinality(T) = Cardinality(S) BY <3>1, <3>5, FS_Bijection, Zenon
    <3> QED BY <3>6, Zenon DEF S, T
  <2>3. \A n \in Nodes : \A c \in Callers : c.node = n /\ pc[c] # "idle" =>
          /\ call[c].msg_id \in DOMAIN pending_requests[n]
          /\ pending_requests[n][call[c].msg_id] = c
    BY <2>1, Zenon DEF TableMatches
  <2> QED BY <2>1, <2>2, <2>3, Zenon DEF PendingExact
<1> QED BY <1>1, RequestStart, RequestStep, PTL DEF RequestSpec

\* For any number of nodes, client threads and workers, a call that returns
\* true has in its buffer a message of another node with the id of its request.
THEOREM AnswersHaveIds == RequestSpec => []AnswerHasItsId
<1>1. RequestInv => AnswerHasItsId BY Zenon DEF RequestInv
<1> QED BY <1>1, RequestStart, RequestStep, PTL DEF RequestSpec
=============================================================================
