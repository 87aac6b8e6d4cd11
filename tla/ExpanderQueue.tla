---------------------------- MODULE ExpanderQueue ----------------------------
(***************************************************************************)
(* The request queue of a memory expander (CXLMemExpander in               *)
(* src/src/cxlendpoint.cpp): requests wait in request_queue_, take a read  *)
(* or write credit when they are issued, and sit in in_flight_requests_    *)
(* until a later call finds that their completion time has passed.         *)
(*                                                                         *)
(* In the memory server several threads call record_cxl_access (each with  *)
(* the stamp of its client's request); in the simulator one thread calls   *)
(* insert and calculate_latency.  No thread serves the queue by itself:    *)
(* every call runs process_queued_requests first, under queue_mutex_.      *)
(* The loop of that function is one step per issued request, with the      *)
(* mutex held.                                                             *)
(*                                                                         *)
(* A latency is a member of Latencies: the sum of pipeline stages, device  *)
(* latency and congestion delay is floating point.  occupation is a set of *)
(* addresses.  Counters and the latency results are left out.              *)
(***************************************************************************)
EXTENDS Integers, Sequences, FiniteSets

CONSTANTS Users,           \* threads of the memory server
          SimUser,         \* the thread of the simulator, which runs alone
          Addrs,           \* physical addresses, none of them 0
          ServerAddrs,     \* the addresses that the server's clients use
          Latencies,       \* pipeline latencies
          MaxStamp,        \* bound on the stamps of requests
          MaxQueueSize,    \* MAX_QUEUE_SIZE
          InitialCredits,  \* INITIAL_CREDITS
          NoUser,          \* queue_mutex_ is free
          NoRequest            \* no request in flight for an address

ASSUME ExpanderAssumption ==
  /\ IsFiniteSet(Users) /\ SimUser \in Users /\ IsFiniteSet(Addrs) /\ 0 \notin Addrs
  /\ ServerAddrs \subseteq Addrs
  /\ Latencies \subseteq Nat
  /\ MaxStamp \in Nat /\ MaxQueueSize \in Nat /\ InitialCredits \in Nat
  /\ NoUser \notin Users
  /\ NoRequest \notin [kind : {"read", "write"}, complete : Nat]

VARIABLES simulator,           \* TRUE: insert and calculate_latency, by SimUser
          request_queue,       \* request_queue_
          in_flight_requests,  \* in_flight_requests_, a map from addresses
          credits,             \* read_credits_ and write_credits_
          queue_mutex,         \* holder of queue_mutex_
          occupation,          \* addresses in occupation
          epc,                 \* where each user is in its call
          call,                \* the arguments of its call
          retried,             \* record_cxl_access is at its second attempt
          \* history, not in the code:
          leaked               \* credits whose in-flight entry was replaced

queueStateVars == <<request_queue, in_flight_requests, credits>>
expanderVars == <<simulator, request_queue, in_flight_requests, credits, queue_mutex, occupation, epc, call, retried, leaked>>

AccessKinds == {"read", "write"}
Stamps == 0 .. MaxStamp
Calls == [op : {"record", "insert", "latency"}, addr : Addrs \cup {0}, kind : AccessKinds, stamp : Stamps]
NoCall == [op |-> "latency", addr |-> 0, kind |-> "read", stamp |-> 0]

ExpanderInit ==
  /\ simulator \in BOOLEAN
  /\ request_queue = <<>>
  /\ in_flight_requests = [a \in Addrs |-> NoRequest]
  /\ credits = [k \in AccessKinds |-> InitialCredits]
  /\ queue_mutex = NoUser
  /\ occupation = {}
  /\ epc = [u \in Users |-> "idle"]
  /\ call = [u \in Users |-> NoCall]
  /\ retried = [u \in Users |-> FALSE]
  /\ leaked = [k \in AccessKinds |-> 0]

EGoto(u, label) == epc' = [epc EXCEPT ![u] = label]

InFlight == {a \in Addrs : in_flight_requests[a] # NoRequest}
InFlightOf(k) == {a \in InFlight : in_flight_requests[a].kind = k}

\* A call arrives: record_cxl_access in the server; insert, calculate_latency
\* or a drop of old statistics in the simulator.
RecordAccess(u, a, k, ts) ==
  /\ ~simulator
  /\ epc[u] = "idle"
  /\ call' = [call EXCEPT ![u] = [op |-> "record", addr |-> a, kind |-> k, stamp |-> ts]]
  /\ EGoto(u, "process")
  /\ UNCHANGED <<simulator, queueStateVars, queue_mutex, occupation, retried, leaked>>

Insert(u, a, ts) ==
  /\ simulator /\ u = SimUser
  /\ epc[u] = "idle"
  /\ call' = [call EXCEPT ![u] = [op |-> "insert", addr |-> a, kind |-> "write", stamp |-> ts]]
  /\ EGoto(u, "process")
  /\ UNCHANGED <<simulator, queueStateVars, queue_mutex, occupation, retried, leaked>>

CalculateLatency(u, ts) ==
  /\ simulator /\ u = SimUser
  /\ epc[u] = "idle"
  /\ call' = [call EXCEPT ![u] = [op |-> "latency", addr |-> 0, kind |-> "read", stamp |-> ts]]
  /\ EGoto(u, "process")
  /\ UNCHANGED <<simulator, queueStateVars, queue_mutex, occupation, retried, leaked>>

FreeStats(u) ==
  /\ simulator /\ u = SimUser
  /\ epc[u] = "idle"
  /\ \E kept \in SUBSET occupation : occupation' = kept
  /\ UNCHANGED <<simulator, queueStateVars, queue_mutex, epc, call, retried, leaked>>

Expired(ts) == {a \in InFlight : in_flight_requests[a].complete <= ts}

\* release_credit n times: never beyond INITIAL_CREDITS.
Released(c, n) == IF c + n <= InitialCredits THEN c + n ELSE InitialCredits

\* A completed read gives back a write credit.
Retire_Bug(u) ==
  LET done == Expired(call[u].stamp)
  IN /\ epc[u] = "process"
     /\ queue_mutex = NoUser
     /\ queue_mutex' = u
     /\ credits' = [credits EXCEPT !["write"] = Released(@, Cardinality(done))]
     /\ in_flight_requests' = [a \in Addrs |-> IF a \in done THEN NoRequest ELSE in_flight_requests[a]]
     /\ EGoto(u, "issue")
     /\ UNCHANGED <<simulator, request_queue, occupation, call, retried, leaked>>

\* process_queued_requests takes the mutex and retires what has completed.
Retire(u) ==
  LET done == Expired(call[u].stamp)
  IN /\ epc[u] = "process"
     /\ queue_mutex = NoUser
     /\ queue_mutex' = u
     /\ credits' = [k \in AccessKinds |-> Released(credits[k], Cardinality(InFlightOf(k) \cap done))]
     /\ in_flight_requests' = [a \in Addrs |-> IF a \in done THEN NoRequest ELSE in_flight_requests[a]]
     /\ EGoto(u, "issue")
     /\ UNCHANGED <<simulator, request_queue, occupation, call, retried, leaked>>


\* The condition of the issue loop and the test for a credit.
CanIssue ==
  /\ request_queue # <<>>
  /\ Cardinality(InFlight) < MaxQueueSize \div 2
  /\ credits[Head(request_queue).kind] > 0

\* One iteration of the issue loop.  The map has one entry per address: a
\* second request for an address replaces the first one's entry.
Issue(u) ==
  LET req == Head(request_queue)
      old == in_flight_requests[req.addr]
  IN /\ epc[u] = "issue"
     /\ CanIssue
     /\ credits' = [credits EXCEPT ![req.kind] = @ - 1]
     /\ \E latency \in Latencies :
          in_flight_requests' = [in_flight_requests EXCEPT ![req.addr] =
                                   [kind |-> req.kind, complete |-> call[u].stamp + latency]]
     /\ request_queue' = Tail(request_queue)
     /\ leaked' = IF old = NoRequest THEN leaked ELSE [leaked EXCEPT ![old.kind] = @ + 1]
     /\ UNCHANGED <<simulator, queue_mutex, occupation, epc, call, retried>>

\* The call is over.
Finished(u) ==
  /\ EGoto(u, "idle")
  /\ call' = [call EXCEPT ![u] = NoCall]
  /\ retried' = [retried EXCEPT ![u] = FALSE]

\* The loop ends and the mutex is released.  calculate_latency, and insert of
\* address 0, have nothing to queue.
StopIssuing(u) ==
  /\ epc[u] = "issue"
  /\ ~CanIssue
  /\ queue_mutex' = NoUser
  /\ IF call[u].addr = 0 THEN Finished(u) ELSE EGoto(u, "accept") /\ UNCHANGED <<call, retried>>
  /\ UNCHANGED <<simulator, queueStateVars, occupation, leaked>>


\* can_accept_request, which takes the mutex and releases it again.
Accept(u) ==
  /\ epc[u] = "accept"
  /\ queue_mutex = NoUser
  /\ Len(request_queue) < MaxQueueSize
  /\ EGoto(u, "push")
  /\ UNCHANGED <<simulator, queueStateVars, queue_mutex, occupation, call, retried, leaked>>

\* The queue is full: record_access returns 0, which record_cxl_access takes
\* for an expander that the switch did not reach, and it calls once more.
Reject(u) ==
  /\ epc[u] = "accept"
  /\ queue_mutex = NoUser
  /\ Len(request_queue) >= MaxQueueSize
  /\ IF call[u].op = "record" /\ ~retried[u]
       THEN /\ retried' = [retried EXCEPT ![u] = TRUE]
            /\ EGoto(u, "process")
            /\ UNCHANGED call
       ELSE Finished(u)
  /\ UNCHANGED <<simulator, queueStateVars, queue_mutex, occupation, leaked>>

\* push_back under the mutex, then the bookkeeping of occupation.  insert makes
\* the request a read when the address is known.
Push(u) ==
  LET a == call[u].addr
      k == IF call[u].op = "insert" /\ a \in occupation THEN "read" ELSE call[u].kind
  IN /\ epc[u] = "push"
     /\ queue_mutex = NoUser
     /\ request_queue' = Append(request_queue, [addr |-> a, kind |-> k])
     /\ occupation' = occupation \cup {a}
     /\ Finished(u)
     /\ UNCHANGED <<simulator, in_flight_requests, credits, queue_mutex, leaked>>

ExpanderStep(u) == Retire(u) \/ Issue(u) \/ StopIssuing(u) \/ Accept(u) \/ Reject(u) \/ Push(u)

ExpanderNext ==
  \E u \in Users :
    \/ \E a \in ServerAddrs, k \in AccessKinds, ts \in Stamps : RecordAccess(u, a, k, ts)
    \/ \E a \in Addrs \cup {0}, ts \in Stamps : Insert(u, a, ts)
    \/ \E ts \in Stamps : CalculateLatency(u, ts)
    \/ FreeStats(u)
    \/ ExpanderStep(u)

ExpanderSpec == ExpanderInit /\ [][ExpanderNext]_expanderVars

\* Every variable of the expander has its type.
ExpanderTypeOK ==
  /\ simulator \in BOOLEAN
  /\ request_queue \in Seq([addr : Addrs, kind : AccessKinds])
  /\ in_flight_requests \in [Addrs -> [kind : AccessKinds, complete : Nat] \cup {NoRequest}]
  /\ credits \in [AccessKinds -> 0 .. InitialCredits]
  /\ queue_mutex \in Users \cup {NoUser}
  /\ occupation \subseteq Addrs
  /\ epc \in [Users -> {"idle", "process", "issue", "accept", "push"}]
  /\ call \in [Users -> Calls]
  /\ retried \in [Users -> BOOLEAN]
  /\ leaked \in [AccessKinds -> Nat]

\* process_queued_requests neither invents nor forgets a credit by itself: of
\* each kind the free credits, the requests in flight and the entries replaced
\* by a later request for the same address always add up to INITIAL_CREDITS.
\* So the limit in release_credit never cuts a credit off, and the replaced
\* entries are the only ones for which "Release credit when request completes"
\* does not come true.
CreditsAccounted ==
  \A k \in AccessKinds : credits[k] + Cardinality(InFlightOf(k)) + leaked[k] = InitialCredits

\* can_accept_request and push_back are two lock sections, so every other
\* thread may push in between: request_queue_ exceeds MAX_QUEUE_SIZE by at most
\* the other threads.  Requests in flight keep to half of MAX_QUEUE_SIZE.
QueueBounded ==
  /\ Len(request_queue) <= MaxQueueSize + Cardinality(Users) - 1
  /\ Cardinality(InFlight) <= MaxQueueSize \div 2
=============================================================================
