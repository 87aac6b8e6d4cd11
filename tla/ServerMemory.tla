---------------------------- MODULE ServerMemory ----------------------------
(***************************************************************************)
(* One cacheline of the memory server (src/src/main_server.cc): the data   *)
(* in shared memory, the directory entry (CachelineInfo), the queue of     *)
(* back invalidations and the connection threads that serve READ, WRITE,   *)
(* the atomics and the BI operations of their clients.                     *)
(*                                                                         *)
(* A client stamps a request with its clock (Send) and the thread of its   *)
(* connection handles it later.  A handler body under memory_mutex is one  *)
(* step, except that READ takes one for every queued back invalidation it  *)
(* applies, with both mutexes held.  OP_BI_WRITEBACK registers its entry   *)
(* after it has released memory_mutex, so it takes two.                    *)
(*                                                                         *)
(* Left out: has_dirty_update, dirty_update_time and version, which no     *)
(* code reads; EXCLUSIVE, which no code assigns; statistics and latencies; *)
(* the fabric check that precedes an access (module Fabric).               *)
(***************************************************************************)
EXTENDS Integers, Sequences, FiniteSets, Functions

CONSTANTS Threads,      \* connection threads (thread_id), one per client
          NumWords,     \* words of a cacheline
          NumValues,    \* values of a word: arithmetic is modulo NumValues
          IOErrors,     \* TRUE: write_cacheline may fail (msync, backend)
          Ops,          \* operations the clients send
          MaxClock,     \* bound on the clients' clock
          MaxQueue      \* bound on back_invalidation_queue

None == -1
OpTypes == {"READ", "WRITE", "FAA", "CAS", "BI_INVALIDATE", "BI_WRITEBACK"}

ASSUME ServerAssumption ==
    /\ IsFiniteSet(Threads) /\ None \notin Threads
    /\ NumWords \in Nat \ {0} /\ NumValues \in Nat \ {0}
    /\ IOErrors \in BOOLEAN /\ Ops \subseteq OpTypes
    /\ MaxClock \in Nat /\ MaxQueue \in Nat

VARIABLES mem,          \* the words of the line in shared memory
          info,         \* CachelineInfo: state, owner, sharers, last_access_time
          bi_queue,     \* back_invalidation_queue of the line
          clock,        \* the clock the clients stamp requests with
          req,          \* the request of each connection
          spc,          \* idle, sent, apply (READ holds both mutexes), or register
                        \* (second half of BI_WRITEBACK)
          \* history, not in the code:
          last,         \* the words as the handled writes left them
          holders,      \* threads whose copy of the line is current
          invalidated,  \* an OP_BI_INVALIDATE has been handled
          skewed,       \* a request older than the line's last access has been handled
          current       \* the latest READ returned the latest words

serverVars == <<mem, info, bi_queue, clock, req, spc, last, holders, invalidated, skewed, current>>

Words == 0 .. NumWords - 1
Values == 0 .. NumValues - 1
Line == [Words -> Values]

BiEntry(t, ts, size, v) == [source |-> t, timestamp |-> ts, size |-> size, val |-> v]

\* memcpy of size copies of v to the words from off on
Store(line, off, size, v) == [w \in Words |-> IF w \in off .. off + size - 1 THEN v ELSE line[w]]

NoReq == [op |-> "none", off |-> 0, size |-> 1, val |-> 0, expected |-> 0, timestamp |-> 0]

ServerInit ==
    /\ mem = [w \in Words |-> 0]
    /\ info = [state |-> "INVALID", owner |-> None, sharers |-> {}, last_access_time |-> 0]
    /\ bi_queue = <<>>
    /\ clock = 0
    /\ req = [t \in Threads |-> NoReq]
    /\ spc = [t \in Threads |-> "idle"]
    /\ last = mem
    /\ holders = {}
    /\ invalidated = FALSE
    /\ skewed = FALSE
    /\ current = TRUE

-----------------------------------------------------------------------------
(* The clients. *)

\* The requests of each operation that differ in what the handlers look at.  A
\* READ of part of the line returns a part of what the whole-line READ does.
Requests(op) ==
    {r \in [op : {op}, off : Words, size : 1 .. NumWords, val : Values, expected : Values, timestamp : {0}] :
        /\ r.off + r.size <= NumWords
        /\ op = "READ" => r.size = NumWords
        /\ op \in {"FAA", "CAS", "BI_INVALIDATE"} => r.size = 1
        /\ op = "BI_INVALIDATE" => r.off = 0
        /\ r.val \in CASE op \in {"READ", "BI_INVALIDATE"} -> {0} [] op = "FAA" -> {1} [] OTHER -> Values \ {0}
        /\ op # "CAS" => r.expected = 0}

\* A client stamps a request and sends it on its connection.
Send(t, op) ==
    /\ spc[t] = "idle"
    /\ \E tick \in {0, 1}, r \in Requests(op) :
        /\ clock + tick <= MaxClock
        /\ clock' = clock + tick
        /\ req' = [req EXCEPT ![t] = [r EXCEPT !.timestamp = clock + tick]]
    /\ spc' = [spc EXCEPT ![t] = "sent"]
    /\ UNCHANGED <<mem, info, bi_queue, last, holders, invalidated, skewed, current>>

\* No READ holds memory_mutex and back_invalidation_mutex.
MutexesFree == \A t \in Threads : spc[t] # "apply"

\* The thread of the connection takes the request up, in no fixed order.
Handles(t, op) ==
    /\ spc[t] = "sent" /\ req[t].op = op /\ MutexesFree
    /\ skewed' = (skewed \/ req[t].timestamp < info.last_access_time)

Done(t) ==
    /\ spc' = [spc EXCEPT ![t] = "idle"]
    /\ req' = [req EXCEPT ![t] = NoReq]

-----------------------------------------------------------------------------
(* The handlers' helpers. *)

handle_read_coherency_Bug(i, t) ==
    CASE i.state = "INVALID" -> [i EXCEPT !.state = "SHARED", !.sharers = @ \cup {t}]
      [] i.state = "SHARED" -> [i EXCEPT !.sharers = @ \cup {t}]
      [] i.state = "MODIFIED" -> [i EXCEPT !.state = "SHARED", !.sharers = @ \cup {t}, !.owner = None]

handle_read_coherency(i, t) ==
    CASE i.state = "INVALID" -> [i EXCEPT !.state = "SHARED", !.sharers = @ \cup {t}]
      [] i.state = "SHARED" -> [i EXCEPT !.sharers = @ \cup {t}]
      [] i.state = "MODIFIED" ->
            [i EXCEPT !.state = "SHARED", !.sharers = @ \cup {i.owner, t}, !.owner = None]

handle_write_coherency_Bug(i, t) ==
    CASE i.state \in {"INVALID", "MODIFIED"} -> [i EXCEPT !.state = "MODIFIED", !.owner = t]
      [] i.state = "SHARED" -> [i EXCEPT !.state = "MODIFIED", !.owner = t]

handle_write_coherency(i, t) ==
    CASE i.state \in {"INVALID", "MODIFIED"} -> [i EXCEPT !.state = "MODIFIED", !.owner = t]
      [] i.state = "SHARED" -> [i EXCEPT !.state = "MODIFIED", !.owner = t, !.sharers = {}]

\* The threads a write by t takes the line from.
threads_to_invalidate(i, t) ==
    CASE i.state = "INVALID" -> {}
      [] i.state = "SHARED" -> i.sharers \ {t}
      [] i.state = "MODIFIED" -> {i.owner} \ {t}

\* An entry without data invalidates the line.
Invalidate(i, e) ==
    [state |-> "INVALID", owner |-> None, sharers |-> {},
     last_access_time |-> IF e.timestamp > i.last_access_time THEN e.timestamp ELSE i.last_access_time]

\* Dirty data is applied when it is newer than the line's latest access.
Applies_Bug(e) == e.timestamp >= info.last_access_time
Applies(e) == e.timestamp > info.last_access_time

\* The queue after register_back_invalidation, once for each thread of a set.
Registered(victims, e) == bi_queue \o [i \in 1 .. Cardinality(victims) |-> e]

-----------------------------------------------------------------------------
(* handle_request *)

\* READ takes memory_mutex, and back_invalidation_mutex in
\* check_and_apply_back_invalidations.
ReadBegin(t) ==
    /\ Handles(t, "READ")
    /\ spc' = [spc EXCEPT ![t] = "apply"]
    /\ UNCHANGED <<mem, info, bi_queue, clock, req, last, holders, invalidated, current>>

\* One turn of its loop.  The data goes to the start of the line, wherever it
\* came from, unless write_cacheline fails; the entry is gone either way.
check_and_apply_back_invalidations(t) ==
    /\ spc[t] = "apply" /\ bi_queue # <<>>
    /\ LET e == Head(bi_queue)
       IN  \/ /\ e.size = 0
              /\ info' = Invalidate(info, e) /\ UNCHANGED mem
           \/ /\ e.size # 0 /\ Applies(e)
              /\ mem' = Store(mem, 0, e.size, e.val) /\ UNCHANGED info
           \/ /\ e.size # 0 /\ (Applies(e) => IOErrors)
              /\ UNCHANGED <<mem, info>>
    /\ bi_queue' = Tail(bi_queue)
    /\ UNCHANGED <<clock, req, spc, last, holders, invalidated, skewed, current>>

\* The rest of READ, once the queue is empty.
Read(t) ==
    /\ spc[t] = "apply" /\ bi_queue = <<>>
    /\ info' = [handle_read_coherency(info, t) EXCEPT !.last_access_time = req[t].timestamp]
    /\ current' = (mem = last)
    /\ holders' = holders \cup {t}
    /\ Done(t)
    /\ UNCHANGED <<mem, bi_queue, clock, last, invalidated, skewed>>

\* The stored words, the history of a write that took effect.
Stored(t) ==
    LET r == req[t]
    IN  /\ mem' = Store(mem, r.off, r.size, r.val)
        /\ last' = Store(last, r.off, r.size, r.val)

WriteOK(t) ==
    /\ Handles(t, "WRITE")
    /\ Stored(t)
    /\ info' = [handle_write_coherency(info, t) EXCEPT !.last_access_time = req[t].timestamp]
    /\ bi_queue' = Registered(threads_to_invalidate(info, t),
                           BiEntry(t, req[t].timestamp, req[t].size, req[t].val))
    /\ holders' = {t}
    /\ Done(t)
    /\ Len(bi_queue') <= MaxQueue
    /\ UNCHANGED <<clock, invalidated, current>>

\* write_cacheline fails after its memcpy (msync) or before any change
\* (backend): the directory has changed already, nothing is registered.
WriteFails(t) ==
    /\ IOErrors
    /\ Handles(t, "WRITE")
    /\ \/ Stored(t)
       \/ UNCHANGED <<mem, last>>
    /\ info' = handle_write_coherency(info, t)
    /\ holders' = {t}
    /\ Done(t)
    /\ UNCHANGED <<bi_queue, clock, invalidated, current>>

-----------------------------------------------------------------------------
(* handle_atomic_request *)

\* The directory entry an atomic or a BI write-back leaves.
Owned(t) == [state |-> "MODIFIED", owner |-> t, sharers |-> {}, last_access_time |-> req[t].timestamp]

Faa(t) ==
    /\ Handles(t, "FAA")
    /\ LET w == req[t].off
       IN  /\ mem' = [mem EXCEPT ![w] = (@ + req[t].val) % NumValues]
           /\ last' = [last EXCEPT ![w] = (@ + req[t].val) % NumValues]
    /\ info' = Owned(t)
    /\ holders' = {t}
    /\ Done(t)
    /\ UNCHANGED <<bi_queue, clock, invalidated, current>>

Cas(t) ==
    /\ Handles(t, "CAS")
    /\ IF mem[req[t].off] = req[t].expected
       THEN /\ Stored(t)
            /\ info' = Owned(t)
            /\ holders' = {t}
       ELSE /\ info' = [info EXCEPT !.last_access_time = req[t].timestamp]
            /\ UNCHANGED <<mem, last, holders>>
    /\ Done(t)
    /\ UNCHANGED <<bi_queue, clock, invalidated, current>>

-----------------------------------------------------------------------------
(* handle_bi_request *)

BiInvalidate(t) ==
    /\ Handles(t, "BI_INVALIDATE")
    /\ Len(bi_queue) < MaxQueue
    /\ bi_queue' = Append(bi_queue, BiEntry(t, req[t].timestamp, 0, 0))
    /\ holders' = {}
    /\ invalidated' = TRUE
    /\ Done(t)
    /\ UNCHANGED <<mem, info, clock, last, current>>

BiWriteback(t) ==
    /\ Handles(t, "BI_WRITEBACK")
    /\ Stored(t)
    /\ info' = Owned(t)
    /\ holders' = {t}
    /\ spc' = [spc EXCEPT ![t] = "register"]
    /\ UNCHANGED <<bi_queue, clock, req, invalidated, current>>

BiWritebackFails(t) ==
    /\ IOErrors
    /\ Handles(t, "BI_WRITEBACK")
    /\ \/ Stored(t)
       \/ UNCHANGED <<mem, last>>
    /\ Done(t)
    /\ UNCHANGED <<info, bi_queue, clock, holders, invalidated, current>>

\* memory_mutex has been released: other handlers may have run since.
BiRegister(t) ==
    /\ spc[t] = "register" /\ MutexesFree
    /\ Len(bi_queue) < MaxQueue
    /\ bi_queue' = Append(bi_queue, BiEntry(t, req[t].timestamp, req[t].size, req[t].val))
    /\ Done(t)
    /\ UNCHANGED <<mem, info, clock, last, holders, invalidated, skewed, current>>

ServerNext ==
    \E t \in Threads :
        \/ \E op \in Ops : Send(t, op)
        \/ ReadBegin(t) \/ check_and_apply_back_invalidations(t) \/ Read(t)
        \/ WriteOK(t) \/ WriteFails(t) \/ Faa(t) \/ Cas(t)
        \/ BiInvalidate(t) \/ BiWriteback(t) \/ BiWritebackFails(t) \/ BiRegister(t)

ServerSpec == ServerInit /\ [][ServerNext]_serverVars

-----------------------------------------------------------------------------
(* Properties *)

\* The directory entry and the queue are well formed whatever the order of
\* reads, writes, atomics, failed writes and late invalidations.  A line has an
\* owner exactly when it is MODIFIED and sharers exactly when it is SHARED, and
\* -1 never becomes a sharer, although handle_read_coherency inserts info.owner
\* into the sharers without a test.
DirectoryShape ==
    /\ info.state = "MODIFIED" <=> info.owner # None
    /\ info.state = "SHARED" <=> info.sharers # {}
    /\ mem \in Line /\ last \in Line
    /\ info.state \in {"INVALID", "SHARED", "MODIFIED"}
    /\ info.owner \in Threads \cup {None}
    /\ info.sharers \subseteq Threads
    /\ info.last_access_time \in 0 .. MaxClock
    /\ Len(bi_queue) <= MaxQueue
    /\ Range(bi_queue) \subseteq [source : Threads, timestamp : 0 .. MaxClock,
                               size : 0 .. NumWords, val : Values]
    /\ \A t \in Threads : spc[t] \in {"idle", "sent", "apply", "register"}
    /\ holders \subseteq Threads

\* handle_request: a READ handled by any thread returns, in every word, what
\* the write, atomic or BI write-back handled last left there.  No queued back
\* invalidation, the one registered late by OP_BI_WRITEBACK included, brings
\* older data back.  Stated for a line whose requests were handled in the
\* order of their stamps: a request that lowers last_access_time makes entries
\* applicable that are older than the data, and these go to the line's start.
ReadsLastWrite == ~skewed => current

\* The directory names exactly the threads whose copy of the line is current:
\* the ones that read it after the latest change, or made that change.  A
\* thread missing here is not among threads_to_invalidate of the next write.
\* Stated until a client sends OP_BI_INVALIDATE, whose entry a later READ
\* applies to whatever the directory says by then.
DirectoryTracksHolders ==
    ~invalidated => holders = IF info.state = "MODIFIED" THEN {info.owner} ELSE info.sharers
=============================================================================
