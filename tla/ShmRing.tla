------------------------------ MODULE ShmRing ------------------------------
(***************************************************************************)
(* The ring-buffer transport (shm_communication.cpp): a client's ring of   *)
(* request/response entries in shared memory and the server workers of     *)
(* run_shm_mode, which all call wait_for_request and send_response on it.  *)
(* Every atomic store of the two sides is a step.  A request and the       *)
(* response to it are known by the number of the call.  The semaphores     *)
(* only shorten polling that has a timeout of its own, so they are left    *)
(* out; what handle_request does is module ServerMemory.                   *)
(***************************************************************************)
EXTENDS Integers, FiniteSets

CONSTANTS
  RingSize,         \* RING_SIZE
  RingWorkers,      \* the threads of run_shm_mode
  MaxRequests,      \* bound of the model on send_request calls
  MaxDrops          \* bound of the model on timeouts and on disconnects

ASSUME RingAssumption == RingSize \in Nat \ {0, 1} /\ MaxRequests \in Nat /\ MaxDrops \in Nat

RingSlots == 0 .. RingSize - 1

VARIABLES
  connected,        \* clients[cid - 1].connected
  rhead, rtail,     \* head, tail
  pending,          \* pending_count
  entry,            \* entry[i]: request_ready, response_ready, the call in each half
  ringpc,           \* the client's place
  call,             \* the number of its last request
  got,              \* the number the response it got belongs to
  wkr,              \* wkr[w]: a worker's place, the tail it loaded, the call it copied
  drops,
  \* history, not in the code:
  handled,          \* handled[k]: how often request k was executed
  raced,            \* two workers took from the ring at the same time
  stale             \* the client timed out, or reconnected, at least once

ringVars == <<connected, rhead, rtail, pending, entry, ringpc, call, got, wkr, drops,
              handled, raced, stale>>

Calls == 1 .. MaxRequests
NoEntry == [ready |-> FALSE, answered |-> FALSE, request |-> 0, response |-> 0]
Looking == [at |-> "look", tail |-> 0, k |-> 0]

RingInit ==
  /\ connected = FALSE /\ rhead = 0 /\ rtail = 0 /\ pending = 0
  /\ entry = [i \in RingSlots |-> NoEntry]
  /\ ringpc = "off" /\ call = 0 /\ got = 0 /\ drops = 0
  /\ wkr = [w \in RingWorkers |-> Looking]
  /\ handled = [k \in Calls |-> 0] /\ raced = FALSE /\ stale = FALSE
-----------------------------------------------------------------------------
(* The client                                                              *)

\* connect: the flag is up before the ring is initialised.
Connect ==
  /\ ringpc = "off" /\ connected' = TRUE /\ ringpc' = "init"
  /\ UNCHANGED <<rhead, rtail, pending, entry, call, got, wkr, drops, handled, raced, stale>>

\* ring.initialize: indices, counts and flags; the payloads stay.
InitRing ==
  /\ ringpc = "init" /\ ringpc' = "idle"
  /\ rhead' = 0 /\ rtail' = 0 /\ pending' = 0
  /\ entry' = [i \in RingSlots |-> [entry[i] EXCEPT !.ready = FALSE, !.answered = FALSE]]
  /\ UNCHANGED <<connected, call, got, wkr, drops, handled, raced, stale>>

\* One entry stays free, so that head = tail means empty.
RingFull == (rhead + 1) % RingSize = rtail

\* send_request up to the flags: a full ring is refused.
SendEntry ==
  /\ ringpc = "idle" /\ call < MaxRequests /\ ~RingFull
  /\ call' = call + 1 /\ ringpc' = "publish"
  /\ entry' = [entry EXCEPT ![rhead] = [@ EXCEPT !.ready = TRUE, !.answered = FALSE,
                                                 !.request = call + 1]]
  /\ UNCHANGED <<connected, rhead, rtail, pending, got, wkr, drops, handled, raced, stale>>

SendHead ==
  /\ ringpc = "publish" /\ ringpc' = "count"
  /\ rhead' = (rhead + 1) % RingSize
  /\ UNCHANGED <<connected, rtail, pending, entry, call, got, wkr, drops, handled, raced, stale>>

SendCount ==
  /\ ringpc = "count" /\ ringpc' = "wait"
  /\ pending' = pending + 1
  /\ UNCHANGED <<connected, rhead, rtail, entry, call, got, wkr, drops, handled, raced, stale>>

Answered == {i \in RingSlots : entry[i].answered}

WaitResponse_Bug ==     \* reads the entry of the request instead
  /\ ringpc = "wait" /\ Answered # {} /\ ringpc' = "got"
  /\ LET i == (rhead + RingSize - 1) % RingSize
     IN  /\ got' = entry[i].response
         /\ entry' = [entry EXCEPT ![i].answered = FALSE]
  /\ UNCHANGED <<connected, rhead, rtail, pending, call, wkr, drops, handled, raced, stale>>

\* wait_for_response takes the first response it finds in the ring.
WaitResponse ==
  /\ ringpc = "wait" /\ Answered # {} /\ ringpc' = "got"
  /\ LET i == CHOOSE j \in Answered : \A l \in Answered : j <= l
     IN  /\ got' = entry[i].response
         /\ entry' = [entry EXCEPT ![i].answered = FALSE]
  /\ UNCHANGED <<connected, rhead, rtail, pending, call, wkr, drops, handled, raced, stale>>

Return ==
  /\ ringpc = "got" /\ ringpc' = "idle" /\ got' = 0
  /\ UNCHANGED <<connected, rhead, rtail, pending, entry, call, wkr, drops, handled, raced, stale>>

WaitTimeout ==
  /\ ringpc = "wait" /\ Answered = {} /\ drops < MaxDrops
  /\ ringpc' = "idle" /\ drops' = drops + 1 /\ stale' = TRUE
  /\ UNCHANGED <<connected, rhead, rtail, pending, entry, call, got, wkr, handled, raced>>

\* The next client of the ring takes the same slot.
Disconnect ==
  /\ ringpc = "idle" /\ drops < MaxDrops
  /\ connected' = FALSE /\ ringpc' = "off" /\ drops' = drops + 1 /\ stale' = TRUE
  /\ UNCHANGED <<rhead, rtail, pending, entry, call, got, wkr, handled, raced>>
-----------------------------------------------------------------------------
(* A worker in handle_shm_requests                                         *)

Taking(w) == wkr[w].at \in {"clear", "advance"}

\* wait_for_request: the tail entry, if its request is there.
Look(w) ==
  /\ wkr[w].at = "look" /\ connected /\ rtail # rhead /\ entry[rtail].ready
  /\ wkr' = [wkr EXCEPT ![w] = [at |-> "clear", tail |-> rtail, k |-> entry[rtail].request]]
  /\ raced' = (raced \/ \E v \in RingWorkers : Taking(v))
  /\ UNCHANGED <<connected, rhead, rtail, pending, entry, ringpc, call, got, drops, handled, stale>>

ClearReady(w) ==
  /\ wkr[w].at = "clear"
  /\ entry' = [entry EXCEPT ![wkr[w].tail].ready = FALSE]
  /\ wkr' = [wkr EXCEPT ![w].at = "advance"]
  /\ UNCHANGED <<connected, rhead, rtail, pending, ringpc, call, got, drops, handled, raced, stale>>

Advance_Bug(w) ==
  /\ wkr[w].at = "advance"
  /\ wkr' = [wkr EXCEPT ![w].at = "count"]
  /\ UNCHANGED <<connected, rhead, rtail, pending, entry, ringpc, call, got, drops, handled, raced, stale>>

Advance(w) ==
  /\ wkr[w].at = "advance"
  /\ rtail' = (wkr[w].tail + 1) % RingSize
  /\ wkr' = [wkr EXCEPT ![w].at = "count"]
  /\ UNCHANGED <<connected, rhead, pending, entry, ringpc, call, got, drops, handled, raced, stale>>

CountDown(w) ==
  /\ wkr[w].at = "count"
  /\ pending' = pending - 1
  /\ wkr' = [wkr EXCEPT ![w].at = "handle"]
  /\ UNCHANGED <<connected, rhead, rtail, entry, ringpc, call, got, drops, handled, raced, stale>>

Handle(w) ==
  /\ wkr[w].at = "handle"
  /\ handled' = [handled EXCEPT ![wkr[w].k] = @ + 1]
  /\ wkr' = [wkr EXCEPT ![w].at = "respond"]
  /\ UNCHANGED <<connected, rhead, rtail, pending, entry, ringpc, call, got, drops, raced, stale>>

\* The entries send_response can use, by their distance from head.
FreeDistances == {d \in RingSlots : LET e == entry[(rhead + d) % RingSize] IN ~e.ready /\ ~e.answered}

\* send_response: the first entry from head on that holds neither a request
\* nor a response; without one the response is lost.
SendResponse(w) ==
  /\ wkr[w].at = "respond"
  /\ IF FreeDistances = {} THEN UNCHANGED entry
     ELSE LET d == CHOOSE x \in FreeDistances : \A y \in FreeDistances : x <= y
          IN  entry' = [entry EXCEPT ![(rhead + d) % RingSize] =
                          [@ EXCEPT !.answered = TRUE, !.response = wkr[w].k]]
  /\ wkr' = [wkr EXCEPT ![w] = Looking]
  /\ UNCHANGED <<connected, rhead, rtail, pending, ringpc, call, got, drops, handled, raced, stale>>

RingWorker(w) ==
  \/ Look(w) \/ ClearReady(w) \/ Advance(w) \/ CountDown(w) \/ Handle(w) \/ SendResponse(w)
RingCall == SendHead \/ SendCount \/ WaitResponse \/ Return
RingNext ==
  \/ Connect \/ InitRing \/ SendEntry \/ RingCall \/ WaitTimeout \/ Disconnect
  \/ \E w \in RingWorkers : RingWorker(w)
RingSpec == RingInit /\ [][RingNext]_ringVars

\* Threads that can go on do; waiting for a response polls for ever here.
RingFairness == WF_ringVars(RingCall) /\ \A w \in RingWorkers : WF_ringVars(RingWorker(w))
-----------------------------------------------------------------------------
\* Every variable has its type; the count may go below zero for a moment, when
\* a worker is done before the client has counted its request.
RingTypeOK ==
  /\ connected \in BOOLEAN /\ rhead \in RingSlots /\ rtail \in RingSlots /\ pending \in Int
  /\ entry \in [RingSlots -> [ready : BOOLEAN, answered : BOOLEAN,
                          request : Calls \cup {0}, response : Calls \cup {0}]]
  /\ \A w \in RingWorkers : wkr[w].k \in Calls \cup {0}

\* As long as no two workers take from the ring at once and no client left a
\* request behind, the response the client takes from the ring is the response
\* to its request, and that request has been executed exactly once, although
\* the server puts the response into whatever entry is free.
ResponseMatches ==
  ringpc = "got" /\ ~raced /\ ~stale => got = call /\ handled[call] = 1

\* A client that waits is answered, unless two workers raced for its request
\* (the slower one moves tail back over a request that was already taken, and
\* the ring stands still) or a left-over of an earlier call is in the ring.
RingAnswers ==
  ringpc = "wait" ~> (ringpc # "wait" \/ raced \/ stale)
=============================================================================
