----------------------------- MODULE PgasSlots -----------------------------
(***************************************************************************)
(* The PGAS shared-memory transport: one request slot per client in the    *)
(* shared segment (cxl_shm_slot_t), four workers that poll all the slots   *)
(* (main_server.cc, poll_pgas_shm_requests), and the client side of the    *)
(* protocol as tests/test_back_invalidation.cpp performs it, polling with  *)
(* a bounded number of retries.  The memory is the in-segment table; the   *)
(* DCD and GFAM decisions (module Fabric) are an arbitrary verdict here.   *)
(***************************************************************************)
EXTENDS Integers, FiniteSets

CONSTANTS
  Clients,          \* one slot each
  Workers,          \* num_workers
  Lines,            \* the cache lines of the memory, 0 .. num_cachelines - 1
  CounterLines,     \* the lines programs only read and fetch-and-add
  BadLine,          \* an address behind the memory
  Requests,         \* the <<type, line>> pairs clients ask for
  MaxCalls,         \* bound of the model: calls, over all clients
  MaxTimeouts       \* bound of the model: calls that give up, over all clients

NONE == "NONE"
MetaOps == {"META"}                       \* the four *_META types
CapacityOps == {"CAPACITY"}               \* the DCD_* and GFAM_* types
PgasOps == {"READ", "WRITE", "FAA", "CAS", "FENCE"} \cup MetaOps \cup CapacityOps

ASSUME PgasAssumption ==
  /\ IsFiniteSet(Clients) /\ NONE \notin Clients /\ IsFiniteSet(Workers) /\ BadLine \notin Lines
  /\ CounterLines \subseteq Lines /\ Requests \subseteq PgasOps \X (Lines \cup {BadLine})
  /\ \A r \in Requests : r[1] \in {"WRITE", "CAS"} => r[2] \notin CounterLines
  /\ MaxCalls \in Nat /\ MaxTimeouts \in Nat

VARIABLES
  slot,             \* slot[c]: req_type, resp_status, addr, expected, and in
                    \* value both the operand and the data
  table,            \* table[l]: the word at line l
  client,           \* client[c]: where its call stands, and its request
  calls,            \* calls begun
  timeouts,         \* calls that gave up
  worker,           \* worker[w]: the slot it claimed, the request, its progress
  \* history, not in the code:
  window,           \* window[c]: the values its line had since c posted
  gaveUp,           \* gaveUp[c]: some call of c timed out
  writers,          \* the clients that have called with WRITE or CAS
  tickets,          \* the lines and values answered fetch-and-adds returned
  repeated          \* one of them was returned twice

pgasVars ==
  <<slot, table, client, calls, timeouts, worker, window, gaveUp, writers, tickets, repeated>>

Idle == [at |-> "idle", op |-> NONE, addr |-> BadLine, got |-> 0, ok |-> FALSE]
FreeSlot == [at |-> "poll", of |-> NONE, op |-> NONE, addr |-> BadLine]

PgasInit ==         \* init_pgas_shm
  /\ slot = [c \in Clients |-> [req |-> NONE, resp |-> NONE, addr |-> 0, value |-> 0,
                                expected |-> 0]]
  /\ table = [l \in Lines |-> 0]
  /\ client = [c \in Clients |-> Idle]
  /\ calls = 0 /\ timeouts = 0
  /\ worker = [w \in Workers |-> FreeSlot]
  /\ window = [c \in Clients |-> {}] /\ gaveUp = [c \in Clients |-> FALSE]
  /\ writers = {} /\ tickets = {} /\ repeated = FALSE
-----------------------------------------------------------------------------
(* The client: read_shm, write_shm, fence_shm                              *)

\* Waits for req_type NONE, then fills the slot; resp_status is not touched.
Fill(c) ==
  /\ client[c].at = "idle" /\ calls < MaxCalls
  /\ slot[c].req = NONE
  /\ \E r \in Requests :
       /\ client' = [client EXCEPT ![c] = [Idle EXCEPT !.at = "filled", !.op = r[1], !.addr = r[2]]]
       /\ slot' = [slot EXCEPT ![c].addr = r[2], ![c].value = 1, ![c].expected = 0]
       /\ writers' = IF r[1] \in {"WRITE", "CAS"} THEN writers \cup {c} ELSE writers
  /\ calls' = calls + 1
  /\ UNCHANGED <<table, timeouts, worker, window, gaveUp, tickets, repeated>>

Post(c) ==
  /\ client[c].at = "filled"
  /\ slot' = [slot EXCEPT ![c].req = client[c].op]
  /\ client' = [client EXCEPT ![c].at = "wait"]
  /\ window' = [window EXCEPT ![c] =
       IF client[c].addr \in Lines THEN {table[client[c].addr]} ELSE {}]
  /\ UNCHANGED <<table, calls, timeouts, worker, gaveUp, writers, tickets, repeated>>

Take(c) ==
  /\ client[c].at = "wait" /\ slot[c].resp # NONE
  /\ client' = [client EXCEPT ![c].at = "taken", ![c].got = slot[c].value,
                              ![c].ok = (slot[c].resp = "OK")]
  /\ LET ticket == <<client[c].addr, slot[c].value>>
     IN  IF client[c].op = "FAA" /\ slot[c].resp = "OK" /\ ~gaveUp[c]
         THEN /\ repeated' = (repeated \/ (ticket \in tickets /\ ticket[1] \in CounterLines))
              /\ tickets' = tickets \cup {ticket}
         ELSE UNCHANGED <<tickets, repeated>>
  /\ UNCHANGED <<slot, table, calls, timeouts, worker, window, gaveUp, writers>>

\* The two stores that give the slot back.
ResetResp_Bug(c) ==
  /\ client[c].at = "taken"
  /\ client' = [client EXCEPT ![c].at = "reset"]
  /\ UNCHANGED <<slot, table, calls, timeouts, worker, window, gaveUp, writers, tickets, repeated>>

ResetResp(c) ==
  /\ client[c].at = "taken"
  /\ slot' = [slot EXCEPT ![c].resp = NONE]
  /\ client' = [client EXCEPT ![c].at = "reset"]
  /\ UNCHANGED <<table, calls, timeouts, worker, window, gaveUp, writers, tickets, repeated>>

ResetReq(c) ==
  /\ client[c].at = "reset"
  /\ slot' = [slot EXCEPT ![c].req = NONE]
  /\ client' = [client EXCEPT ![c] = Idle]
  /\ window' = [window EXCEPT ![c] = {}]
  /\ UNCHANGED <<table, calls, timeouts, worker, gaveUp, writers, tickets, repeated>>

\* The retries ran out.  read_shm and write_shm return with the request still
\* in the slot or in a worker's hands; fence_shm gives the slot back first.
GiveUp(c) ==
  /\ client[c].at = "wait" /\ slot[c].resp = NONE /\ timeouts < MaxTimeouts
  /\ timeouts' = timeouts + 1
  /\ gaveUp' = [gaveUp EXCEPT ![c] = TRUE]
  /\ client' = [client EXCEPT ![c] = IF client[c].op = "FENCE" THEN [@ EXCEPT !.at = "taken"]
                                                             ELSE Idle]
  /\ window' = [window EXCEPT ![c] = {}]
  /\ UNCHANGED <<slot, table, calls, worker, writers, tickets, repeated>>
-----------------------------------------------------------------------------
(* A worker in poll_pgas_shm_requests                                      *)

Claim_Bug(w, c) ==
  /\ worker[w].at = "poll" /\ slot[c].req # NONE
  /\ worker' = [worker EXCEPT ![w] = [FreeSlot EXCEPT !.at = "fetch", !.of = c, !.op = slot[c].req]]
  /\ UNCHANGED <<slot, table, client, calls, timeouts, window, gaveUp, writers, tickets, repeated>>

\* The compare-and-swap of req_type to NONE.
Claim(w, c) ==
  /\ worker[w].at = "poll" /\ slot[c].req # NONE
  /\ worker' = [worker EXCEPT ![w] = [FreeSlot EXCEPT !.at = "fetch", !.of = c, !.op = slot[c].req]]
  /\ slot' = [slot EXCEPT ![c].req = NONE]
  /\ UNCHANGED <<table, client, calls, timeouts, window, gaveUp, writers, tickets, repeated>>

Answer(w, status) ==
  /\ slot' = [slot EXCEPT ![worker[w].of].resp = status]
  /\ worker' = [worker EXCEPT ![w] = FreeSlot]
  /\ UNCHANGED <<table, client, calls, timeouts, window, gaveUp, writers, tickets, repeated>>

\* Reads the address the slot holds now; a line behind the memory is an error
\* for every type, a type without a case is dropped.
Fetch(w) ==
  /\ worker[w].at = "fetch"
  /\ LET addr == slot[worker[w].of].addr
     IN  IF addr = BadLine THEN Answer(w, "ERROR")
         ELSE /\ worker' = [worker EXCEPT ![w] = IF @.op \in MetaOps THEN FreeSlot
                                ELSE [@ EXCEPT !.addr = addr, !.at = "serve"]]
              /\ UNCHANGED <<slot, table, client, calls, timeouts, window, gaveUp, writers, tickets, repeated>>

\* check_pgas_fabric_access refuses, the device operation fails, or the flush does.
Refuse(w) ==
  /\ worker[w].at = "serve"
  /\ Answer(w, "ERROR")

\* The value the operation leaves at the line, and the one it hands back.
Effect(op, s, old) ==
  CASE op = "WRITE" -> s.value
    [] op = "FAA"   -> old + s.value
    [] op = "CAS"   -> IF old = s.expected THEN s.value ELSE old
    [] OTHER        -> old

Serve(w) ==
  /\ worker[w].at = "serve"
  /\ LET c == worker[w].of  l == worker[w].addr  old == table[l]
         new == Effect(worker[w].op, slot[c], old)
     IN  /\ table' = [table EXCEPT ![l] = new]
         /\ slot' = [slot EXCEPT ![c].value =
              CASE worker[w].op \in {"READ", "FAA", "CAS"} -> old
                [] worker[w].op \in CapacityOps -> 0          \* a figure of the device
                [] OTHER -> @]
         /\ window' = [d \in Clients |->
              IF client[d].addr = l /\ client[d].at = "wait" THEN window[d] \cup {new} ELSE window[d]]
         /\ worker' = [worker EXCEPT ![w].at = "answer"]
  /\ UNCHANGED <<client, calls, timeouts, gaveUp, writers, tickets, repeated>>

Finish_Bug(w) ==
  /\ worker[w].at = "answer" /\ worker' = [worker EXCEPT ![w] = FreeSlot]
  /\ UNCHANGED <<slot, table, client, calls, timeouts, window, gaveUp, writers, tickets, repeated>>

Finish(w) == worker[w].at = "answer" /\ Answer(w, "OK")

WorkerStep(w) ==
  (\E c \in Clients : Claim(w, c)) \/ Fetch(w) \/ Refuse(w) \/ Serve(w) \/ Finish(w)
ClientStep(c) == Fill(c) \/ Post(c) \/ Take(c) \/ ResetResp(c) \/ ResetReq(c) \/ GiveUp(c)

PgasNext == (\E c \in Clients : ClientStep(c)) \/ (\E w \in Workers : WorkerStep(w))
PgasSpec == PgasInit /\ [][PgasNext]_pgasVars

\* Every worker's scan comes by every slot, and threads that can go on do.
PgasFairness ==
  /\ \A c \in Clients : /\ WF_pgasVars(\E w \in Workers : Claim(w, c))
                       /\ WF_pgasVars(Post(c) \/ Take(c) \/ ResetResp(c) \/ ResetReq(c))
  /\ \A w \in Workers : WF_pgasVars(Fetch(w) \/ Refuse(w) \/ Serve(w) \/ Finish(w))
-----------------------------------------------------------------------------
\* Every field has its type.
PgasTypeOK ==
  /\ slot \in [Clients -> [req : PgasOps \cup {NONE}, resp : {NONE, "OK", "ERROR"},
                           addr : Lines \cup {0, BadLine}, value : Nat, expected : {0}]]
  /\ table \in [Lines -> Nat]
  /\ \A c \in Clients : client[c].at \in {"idle", "filled", "wait", "taken", "reset"}
  /\ \A w \in Workers : /\ worker[w].at \in {"poll", "fetch", "serve", "answer"}
                        /\ worker[w].at \in {"serve", "answer"} => worker[w].addr \in Lines

Holders(c) == {w \in Workers : worker[w].of = c}

\* "Claim the request before doing any work so only one worker can service a
\* client slot": while no call of the client has timed out, its request is in
\* the slot, with one worker, or answered, and never in two of these places.
OnePlaceAtATime ==
  \A c \in Clients : ~gaveUp[c] =>
    /\ Cardinality(Holders(c)) + (IF slot[c].req # NONE THEN 1 ELSE 0)
         + (IF slot[c].resp # NONE THEN 1 ELSE 0) <= 1
    /\ client[c].at \in {"idle", "filled", "reset"} => slot[c].resp = NONE /\ Holders(c) = {}

\* What a read returns was in its line at some moment between the post of the
\* request and the answer, whatever the other clients did to the line, as
\* long as no earlier call of this client was abandoned.  And on a line that is
\* only fetched-and-added and read, no two answered fetch-and-adds got the same
\* value, although workers run them on the table concurrently and other
\* clients' calls time out, unless a client that writes had a timeout: the
\* worker that claimed a WRITE reads the address later, and may find that of the
\* client's next request.
PgasResultIsCurrent ==
  /\ \A c \in Clients : client[c].at = "taken" /\ client[c].op = "READ" /\ client[c].ok /\ ~gaveUp[c]
       => client[c].got \in window[c]
  /\ (\A c \in writers : ~gaveUp[c]) => ~repeated

\* A posted request of a type the server has a case for is answered, even when
\* earlier calls were abandoned and workers answer them late.
PgasAnswered ==
  \A c \in Clients :
    (client[c].at = "wait" /\ client[c].op \notin MetaOps) ~> client[c].at # "wait"
=============================================================================
