------------------------------ MODULE SsdCache ------------------------------
(***************************************************************************)
(* SsdStreamingBackend (ssd_streaming_backend.cpp): a bounded page cache   *)
(* over a backing file.  One mutex guards everything and is released only  *)
(* during page I/O and condition-variable waits; `mutex` is its holder and *)
(* the steps between an acquisition and a release follow the code.  A page *)
(* buffer is written by I/O without the mutex.                             *)
(*                                                                         *)
(* The data of a page is the number of the last write to it that the copy  *)
(* contains (Garbage for a buffer never filled), so "newer" is ">".        *)
(* A PageMeta is an object of Objs: a thread may hold one that pages_ no   *)
(* longer names.  Accesses are within one page, as cacheline accesses are. *)
(* io_uring against pread (a retry of the same transfer), generations,     *)
(* statistics and shutdown are left out.                                   *)
(***************************************************************************)
EXTENDS Integers, FiniteSets, Sequences, SequencesExt

CONSTANTS
  Threads,          \* threads that read and write
  Flushers,         \* threads that flush (fence requests)
  Pages,            \* page numbers 0 .. k
  Objs,             \* PageMeta objects, 1 .. k
  cache_pages,      \* config_.cache_pages
  read_ahead_pages, \* config_.read_ahead_pages
  Ops,              \* operations Threads issue
  IOErrors,         \* whether page I/O may fail
  MaxWrites,        \* bound of the model on writes per page
  MaxClock          \* bound of the model on stale clock_queue_ entries

ASSUME SsdAssumption ==
  /\ cache_pages \in Nat \ {0}
  /\ read_ahead_pages \in {0, 1}
  /\ IOErrors \in BOOLEAN
  /\ Ops \subseteq {"read", "write", "prefetch", "pin", "unpin", "evict_after",
                    "set_streaming"}

VARIABLES
  mutex,            \* mutex_: its holder, or Unheld
  pages,            \* pages_: page number -> object or Nil
  obj,              \* the PageMeta objects
  clock,            \* clock_queue_
  disk,             \* the backing file
  thr,              \* thr[t]: program counter and locals of thread t
  mem               \* history: number of writes done to each page

ssdVars == <<mutex, pages, obj, clock, disk, thr, mem>>

Unheld == "free"
Nil == 0
Garbage == -1
All == Threads \cup Flushers
Busy == {"Loading", "Evicting"}
Resident == {"ResidentClean", "ResidentDirty"}

NewMeta(p) == [slot |-> p, state |-> "NonResident", refcnt |-> 0, dirty |-> FALSE,
               accessed |-> FALSE, pinned |-> FALSE, data |-> Garbage]

IdleThread == [pc |-> "idle", op |-> "none", page |-> 0, page_obj |-> Nil,
         io |-> Nil, io_page |-> 0, back |-> "none", snapshot |-> {},
         todo |-> {}, need |-> [p \in Pages |-> 0]]

pc(t) == thr[t].pc
Cached == {p \in Pages : pages[p] # Nil}

\* Objects some thread or pages_ still points to (shared_ptr counts).
Referenced ==
  {pages[p] : p \in Cached} \cup
  UNION {{thr[t].page_obj, thr[t].io} \cup thr[t].snapshot : t \in All}

Fresh == CHOOSE o \in Objs \ Referenced : \A q \in Objs \ Referenced : o <= q

SsdGoto(t, l) == thr' = [thr EXCEPT ![t].pc = l]
ReturnFrom(t) == thr' = [thr EXCEPT ![t] = IdleThread] /\ mutex' = Unheld

\* cv.notify_all on object o, with the caller's own update of thr.
WakeAll(o, th) ==
  [t \in All |-> IF th[t].pc = "wait" /\ th[t].page_obj = o
                 THEN [th[t] EXCEPT !.pc = "woken"] ELSE th[t]]
-----------------------------------------------------------------------------
SsdInit ==
  /\ mutex = Unheld
  /\ pages = [p \in Pages |-> Nil]
  /\ obj = [o \in Objs |-> NewMeta(0)]
  /\ clock = <<>>
  /\ disk = [p \in Pages |-> 0]
  /\ thr = [t \in All |-> IdleThread]
  /\ mem = [p \in Pages |-> 0]

\* The operation takes the mutex.  "find" is ensure_page_loaded_locked.
BeginOp(t, op, p) ==
  /\ pc(t) = "idle" /\ mutex = Unheld
  /\ op = "write" => mem[p] < MaxWrites
  /\ op = "evict_after" => Len(clock) < MaxClock
  /\ mutex' = t
  /\ thr' = [thr EXCEPT ![t] = [IdleThread EXCEPT !.op = op, !.page = p, !.pc =
       CASE op = "unpin" -> "unpin"
         [] op = "evict_after" -> "evict_page"
         [] OTHER -> "find"]]
  /\ UNCHANGED <<pages, obj, clock, disk, mem>>

\* flush: every page gets a reference; need is what is to be durable.
BeginFlush(t) ==
  /\ pc(t) = "idle" /\ mutex = Unheld
  /\ LET snap == {pages[p] : p \in Cached}
     IN  /\ thr' = [thr EXCEPT ![t] = [IdleThread EXCEPT !.pc = "flush_next", !.op = "flush",
                      !.snapshot = snap, !.todo = snap, !.need = mem]]
         /\ obj' = [o \in Objs |-> IF o \in snap
                                   THEN [obj[o] EXCEPT !.refcnt = @ + 1] ELSE obj[o]]
  /\ mutex' = t
  /\ UNCHANGED <<pages, clock, disk, mem>>
-----------------------------------------------------------------------------

\* One turn of the CLOCK hand: [queue, recently accessed pages, victim].
RECURSIVE Sweep(_, _, _)
Sweep(q, acc, attempts) ==
  IF attempts = 0 \/ q = <<>> THEN [queue |-> q, accessed |-> acc, victim |-> Nil]
  ELSE LET p == Head(q)
           m == obj[pages[p]]
       IN  IF pages[p] = Nil THEN Sweep(Tail(q), acc, attempts - 1)
           ELSE IF m.pinned \/ m.refcnt # 0 \/ m.state \in Busy
             THEN Sweep(Append(Tail(q), p), acc, attempts - 1)
           ELSE IF p \in acc
             THEN Sweep(Append(Tail(q), p), acc \ {p}, attempts - 1)
           ELSE [queue |-> Tail(q), accessed |-> acc, victim |-> pages[p]]

\* An erased page: its buffer is not looked at before it is loaded again.
Erased(m) == [NewMeta(m.slot) EXCEPT !.refcnt = m.refcnt, !.pinned = m.pinned]

\* Set object o to Evicting and start its writeback without the mutex.
StartWriteback(t, o, p, back, objs) ==
  /\ obj' = [objs EXCEPT ![o].state = "Evicting"]
  /\ thr' = [thr EXCEPT ![t].pc = "write_io", ![t].io = o, ![t].io_page = p,
                        ![t].back = back]
  /\ mutex' = Unheld

\* evict_one_locked, reached from `here`; the caller's loop is tried again
\* after a success, and `there` is where it goes after a failure.
evict_one_locked(t, here, there) ==
  LET s == Sweep(clock, {p \in Cached : obj[pages[p]].accessed}, Len(clock) * 2 + 1)
      objs == [o \in Objs |-> IF \E p \in Cached : pages[p] = o /\ p \notin s.accessed
                              THEN [obj[o] EXCEPT !.accessed = FALSE] ELSE obj[o]]
  IN  /\ clock' = s.queue
      /\ IF s.victim = Nil
         THEN /\ obj' = objs /\ UNCHANGED pages
              /\ IF there = "fail" THEN ReturnFrom(t) ELSE SsdGoto(t, there) /\ UNCHANGED mutex
         ELSE LET v == CHOOSE p \in Cached : pages[p] = s.victim
              IN  IF obj[s.victim].dirty
                  THEN StartWriteback(t, s.victim, v, here, objs) /\ UNCHANGED pages
                  ELSE /\ obj' = [objs EXCEPT ![s.victim] = Erased(@)]
                       /\ pages' = [pages EXCEPT ![v] = Nil]
                       /\ UNCHANGED <<mutex, thr>>
      /\ UNCHANGED <<disk, mem>>

\* The guard of the eviction loops in front of get_or_create_page_locked.
find_Full(p) == pages[p] = Nil /\ Cardinality(Cached) >= cache_pages

\* get_or_create_page_locked, continuing at l with the page in field f.
get_or_create(t, p, l) ==
  LET o == IF pages[p] = Nil THEN Fresh ELSE pages[p]
  IN  /\ pages' = [pages EXCEPT ![p] = o]
      /\ obj' = IF pages[p] = Nil THEN [obj EXCEPT ![o] = NewMeta(p)] ELSE obj
      /\ clock' = IF pages[p] = Nil THEN Append(clock, p) ELSE clock
      /\ IF l = "settle" THEN thr' = [thr EXCEPT ![t].pc = l, ![t].page_obj = o]
                         ELSE thr' = [thr EXCEPT ![t].pc = l, ![t].io = o, ![t].io_page = p]

EnsureFind(t) ==
  /\ pc(t) = "find" /\ mutex = t
  /\ IF find_Full(thr[t].page)
     THEN evict_one_locked(t, "find", "fail")
     ELSE get_or_create(t, thr[t].page, "settle") /\ UNCHANGED <<mutex, disk, mem>>

\* load_page_locked up to its unlock.
StartLoad(t, o, p) ==
  /\ obj' = [obj EXCEPT ![o].state = "Loading", ![o].refcnt = @ + 1]
  /\ thr' = [thr EXCEPT ![t].pc = "read_io", ![t].io = o, ![t].io_page = p]
  /\ mutex' = Unheld

\* The wait loop, the cache hit and the miss of ensure_page_loaded_locked.
\* set_streaming stops after get_or_create.  The loop that evicts while there
\* are more than cache_pages pages never runs (SsdTypeOK).
EnsureSettle(t) ==
  LET o == thr[t].page_obj IN
  /\ pc(t) = "settle" /\ mutex = t
  /\ IF thr[t].op = "set_streaming"
     THEN obj' = [obj EXCEPT ![o].accessed = FALSE] /\ ReturnFrom(t)
     ELSE IF obj[o].state \in Busy
     THEN SsdGoto(t, "wait") /\ mutex' = Unheld /\ UNCHANGED obj
     ELSE IF obj[o].state \in Resident
     THEN obj' = [obj EXCEPT ![o].accessed = TRUE] /\ SsdGoto(t, "copy") /\ UNCHANGED mutex
     ELSE StartLoad(t, o, thr[t].page)
  /\ UNCHANGED <<pages, clock, disk, mem>>

\* A waiter that was notified takes the mutex back.
Wake(t) ==
  /\ pc(t) = "woken" /\ mutex = Unheld
  /\ mutex' = t
  /\ SsdGoto(t, CASE thr[t].op = "flush" -> "flush_page"
               [] thr[t].op = "evict_after" -> "evict_held"
               [] OTHER -> "settle")
  /\ UNCHANGED <<pages, obj, clock, disk, mem>>

\* read_page, without the mutex.
ReadIO(t) ==
  /\ pc(t) = "read_io"
  /\ \/ /\ obj' = [obj EXCEPT ![thr[t].io].data = disk[thr[t].io_page]]
        /\ SsdGoto(t, "read_done")
     \/ IOErrors /\ SsdGoto(t, "read_fail") /\ UNCHANGED obj
  /\ UNCHANGED <<mutex, pages, clock, disk, mem>>

LoadDone_Bug(t) ==
  LET o == thr[t].io
      own == o = thr[t].page_obj
  IN
  /\ pc(t) \in {"read_done", "read_fail"} /\ mutex = Unheld
  /\ obj' = [obj EXCEPT ![o].state = "ResidentClean", ![o].dirty = FALSE,
                        ![o].accessed = TRUE, ![o].refcnt = @ - 1]
  /\ thr' = WakeAll(o, [thr EXCEPT ![t] = [thr[t] EXCEPT !.io = Nil, !.pc =
       IF own /\ thr[t].op = "read" THEN "ahead" ELSE IF own THEN "copy" ELSE "ahead_end"]])
  /\ mutex' = t
  /\ UNCHANGED <<pages, clock, disk, mem>>

\* The rest of load_page_locked.  A read that loaded its own page goes on to
\* read ahead and keeps a reference to the page meanwhile.
LoadDone(t) ==
  LET o == thr[t].io
      own == o = thr[t].page_obj
      ahead == own /\ thr[t].op = "read"
  IN
  /\ pc(t) \in {"read_done", "read_fail"} /\ mutex = Unheld
  /\ obj' = IF pc(t) = "read_done"
            THEN [obj EXCEPT ![o].state = "ResidentClean", ![o].dirty = FALSE,
                             ![o].accessed = TRUE,
                             ![o].refcnt = IF ahead THEN @ ELSE @ - 1]
            ELSE [obj EXCEPT ![o].state = "NonResident", ![o].refcnt = @ - 1]
  /\ LET next == CASE own /\ pc(t) = "read_fail" -> IdleThread
                   [] ahead /\ pc(t) = "read_done" -> [thr[t] EXCEPT !.pc = "ahead", !.io = Nil]
                   [] own /\ ~ ahead -> [thr[t] EXCEPT !.pc = "copy", !.io = Nil]
                   [] OTHER -> [thr[t] EXCEPT !.pc = "ahead_end", !.io = Nil]
     IN  /\ thr' = WakeAll(o, [thr EXCEPT ![t] = next])
         /\ mutex' = IF next = IdleThread THEN Unheld ELSE t
  /\ UNCHANGED <<pages, clock, disk, mem>>

\* Read-ahead of the next page, one page deep.
ReadAhead(t) ==
  /\ pc(t) = "ahead" /\ mutex = t
  /\ LET p == thr[t].page + 1 IN
     IF read_ahead_pages = 0 \/ p \notin Pages
     THEN SsdGoto(t, "ahead_end") /\ UNCHANGED <<mutex, pages, obj, clock, disk, mem>>
     ELSE IF find_Full(p) THEN evict_one_locked(t, "ahead", "ahead_end")
     ELSE get_or_create(t, p, "ahead_load") /\ UNCHANGED <<mutex, disk, mem>>

ReadAheadLoad(t) ==
  /\ pc(t) = "ahead_load" /\ mutex = t
  /\ IF obj[thr[t].io].state = "NonResident"
     THEN StartLoad(t, thr[t].io, thr[t].io_page)
     ELSE SsdGoto(t, "ahead_end") /\ UNCHANGED <<mutex, obj>>
  /\ UNCHANGED <<pages, clock, disk, mem>>

ReadAheadEnd(t) ==
  /\ pc(t) = "ahead_end" /\ mutex = t
  /\ obj' = [obj EXCEPT ![thr[t].page_obj].refcnt = @ - 1]
  /\ thr' = [thr EXCEPT ![t].pc = "copy", ![t].io = Nil]
  /\ UNCHANGED <<mutex, pages, clock, disk, mem>>

\* pages_.at(page_no) and what the operation does with the page.  at() throws
\* when the page is not there; nothing catches it and the process ends (here:
\* the mutex is never released again).
Copy(t) ==
  LET p == thr[t].page
      o == pages[p]
      op == thr[t].op
  IN
  /\ pc(t) = "copy" /\ mutex = t
  /\ IF o = Nil /\ op # "prefetch"
     THEN SsdGoto(t, "terminate") /\ UNCHANGED <<mutex, obj, mem>>
     ELSE /\ obj' = CASE op = "write" ->
                           [obj EXCEPT ![o].data = mem[p] + 1, ![o].dirty = TRUE,
                              ![o].state = "ResidentDirty", ![o].accessed = TRUE]
                      [] op = "pin" -> [obj EXCEPT ![o].pinned = TRUE]
                      [] OTHER -> obj
          /\ mem' = IF op = "write" THEN [mem EXCEPT ![p] = @ + 1] ELSE mem
          /\ ReturnFrom(t)
  /\ UNCHANGED <<pages, clock, disk>>
-----------------------------------------------------------------------------
\* write_page, without the mutex.
WriteIO(t) ==
  /\ pc(t) = "write_io"
  /\ \/ /\ disk' = [disk EXCEPT ![obj[thr[t].io].slot] = obj[thr[t].io].data]
        /\ SsdGoto(t, "write_done")
     \/ IOErrors /\ SsdGoto(t, "write_fail") /\ UNCHANGED disk
  /\ UNCHANGED <<mutex, pages, obj, clock, mem>>

\* The end of flush_page_locked inside evict_page_locked: the page is erased
\* by its number.
EvictDone(t) ==
  /\ pc(t) = "write_done" /\ thr[t].op # "flush" /\ mutex = Unheld
  /\ obj' = [obj EXCEPT ![thr[t].io] = Erased(@)]
  /\ pages' = [pages EXCEPT ![thr[t].io_page] = Nil]
  /\ LET next == IF thr[t].back = "return" THEN IdleThread
                 ELSE [thr[t] EXCEPT !.pc = thr[t].back, !.io = Nil]
     IN  /\ thr' = WakeAll(thr[t].io, [thr EXCEPT ![t] = next])
         /\ mutex' = IF next = IdleThread THEN Unheld ELSE t
  /\ UNCHANGED <<clock, disk, mem>>

FlushDone_Bug(t) ==
  /\ pc(t) = "write_done" /\ thr[t].op = "flush" /\ mutex = Unheld
  /\ obj' = [obj EXCEPT ![thr[t].io].dirty = FALSE, ![thr[t].io].state = "ResidentClean"]
  /\ thr' = [thr EXCEPT ![t].pc = "flush_next", ![t].io = Nil]
  /\ mutex' = t
  /\ UNCHANGED <<pages, clock, disk, mem>>

\* The end of flush_page_locked inside flush.
FlushDone(t) ==
  /\ pc(t) = "write_done" /\ thr[t].op = "flush" /\ mutex = Unheld
  /\ obj' = [obj EXCEPT ![thr[t].io].dirty = FALSE, ![thr[t].io].state = "ResidentClean"]
  /\ thr' = WakeAll(thr[t].io, [thr EXCEPT ![t].pc = "flush_next", ![t].io = Nil])
  /\ mutex' = t
  /\ UNCHANGED <<pages, clock, disk, mem>>

\* A failed writeback returns without notify_all.  An eviction fails its
\* operation; flush goes on, and will return false.
WriteFailed(t) ==
  /\ pc(t) = "write_fail" /\ mutex = Unheld
  /\ LET o == thr[t].io
         next == CASE thr[t].op = "flush" ->
                        [thr[t] EXCEPT !.pc = "flush_next", !.io = Nil,
                                       !.need = [p \in Pages |-> 0]]
                   [] thr[t].back = "ahead" -> [thr[t] EXCEPT !.pc = "ahead_end", !.io = Nil]
                   [] OTHER -> IdleThread
     IN  /\ obj' = [obj EXCEPT ![o].state = "ResidentDirty"]
         /\ thr' = [thr EXCEPT ![t] = next]
         /\ mutex' = IF next = IdleThread THEN Unheld ELSE t
  /\ UNCHANGED <<pages, clock, disk, mem>>

\* The loop of flush over its snapshot, in any order (a hash map's).
FlushNext(t) ==
  /\ pc(t) = "flush_next" /\ mutex = t
  /\ IF thr[t].todo = {} THEN SsdGoto(t, "flush_end")
     ELSE \E o \in thr[t].todo :
            thr' = [thr EXCEPT ![t].pc = "flush_page", ![t].page_obj = o,
                               ![t].todo = @ \ {o}]
  /\ UNCHANGED <<mutex, pages, obj, clock, disk, mem>>

FlushPage_Bug(t) ==
  LET o == thr[t].page_obj IN
  /\ pc(t) = "flush_page" /\ mutex = t
  /\ IF obj[o].state \in Busy \/ ~ obj[o].dirty
     THEN SsdGoto(t, "flush_next") /\ UNCHANGED <<mutex, obj>>
     ELSE StartWriteback(t, o, obj[o].slot, "flush", obj)
  /\ UNCHANGED <<pages, clock, disk, mem>>

FlushPage(t) ==
  LET o == thr[t].page_obj IN
  /\ pc(t) = "flush_page" /\ mutex = t
  /\ IF obj[o].state \in Busy
     THEN SsdGoto(t, "wait") /\ mutex' = Unheld /\ UNCHANGED obj
     ELSE IF ~ obj[o].dirty THEN SsdGoto(t, "flush_next") /\ UNCHANGED <<mutex, obj>>
     ELSE StartWriteback(t, o, obj[o].slot, "flush", obj)
  /\ UNCHANGED <<pages, clock, disk, mem>>

FlushEnd_Bug(t) ==
  /\ pc(t) = "flush_end" /\ mutex = t
  /\ ReturnFrom(t)
  /\ UNCHANGED <<pages, obj, clock, disk, mem>>

FlushEnd(t) ==
  /\ pc(t) = "flush_end" /\ mutex = t
  /\ obj' = [o \in Objs |-> IF o \in thr[t].snapshot
                            THEN [obj[o] EXCEPT !.refcnt = @ - 1] ELSE obj[o]]
  /\ ReturnFrom(t)
  /\ UNCHANGED <<pages, clock, disk, mem>>
-----------------------------------------------------------------------------
\* evict_page_locked for evict_after.
EvictPage(t) ==
  /\ pc(t) = "evict_page" /\ mutex = t
  /\ IF pages[thr[t].page] = Nil THEN ReturnFrom(t)
     ELSE /\ thr' = [thr EXCEPT ![t].pc = "evict_held",
                                ![t].page_obj = pages[thr[t].page]]
          /\ UNCHANGED mutex
  /\ UNCHANGED <<pages, obj, clock, disk, mem>>

EvictHeld(t) ==
  LET o == thr[t].page_obj
      p == thr[t].page
  IN
  /\ pc(t) = "evict_held" /\ mutex = t
  /\ IF obj[o].state \in Busy
     THEN SsdGoto(t, "wait") /\ mutex' = Unheld /\ UNCHANGED <<obj, pages>>
     ELSE IF obj[o].pinned \/ obj[o].refcnt # 0 THEN ReturnFrom(t) /\ UNCHANGED <<obj, pages>>
     ELSE IF obj[o].dirty THEN StartWriteback(t, o, p, "return", obj) /\ UNCHANGED pages
     ELSE /\ obj' = [obj EXCEPT ![o] = Erased(@)]
          /\ pages' = [pages EXCEPT ![p] = Nil]
          /\ ReturnFrom(t)
  /\ UNCHANGED <<clock, disk, mem>>

Unpin(t) ==
  /\ pc(t) = "unpin" /\ mutex = t
  /\ LET o == pages[thr[t].page]
     IN  obj' = IF o = Nil THEN obj ELSE [obj EXCEPT ![o].pinned = FALSE]
  /\ ReturnFrom(t)
  /\ UNCHANGED <<pages, clock, disk, mem>>
-----------------------------------------------------------------------------
Step(t) ==
  \/ EnsureFind(t) \/ EnsureSettle(t) \/ Wake(t) \/ ReadIO(t) \/ LoadDone(t)
  \/ ReadAhead(t) \/ ReadAheadLoad(t) \/ ReadAheadEnd(t) \/ Copy(t)
  \/ WriteIO(t) \/ EvictDone(t) \/ FlushDone(t) \/ WriteFailed(t)
  \/ FlushNext(t) \/ FlushPage(t) \/ FlushEnd(t)
  \/ EvictPage(t) \/ EvictHeld(t) \/ Unpin(t)

SsdNext ==
  \/ \E t \in Threads, op \in Ops, p \in Pages : BeginOp(t, op, p)
  \/ \E t \in Flushers : BeginFlush(t)
  \/ \E t \in All : Step(t)

SsdSpec == SsdInit /\ [][SsdNext]_ssdVars

\* A thread inside an operation keeps running, I/O completes, and a thread
\* that waits for the mutex gets it in time.
SsdFairness == \A t \in All : SF_ssdVars(Step(t))
-----------------------------------------------------------------------------
Pcs == {"idle", "find", "settle", "wait", "woken", "read_io", "read_done",
        "read_fail", "ahead", "ahead_load", "ahead_end", "copy", "terminate",
        "write_io", "write_done", "write_fail", "flush_next", "flush_page",
        "flush_end", "evict_page", "evict_held", "unpin"}

\* Every variable has its type: pages_ names objects that exist, no reference
\* count goes below zero, and a thread is at a step of its operation.  The
\* cache is the "bounded in-memory page cache" of the code: evictions, which
\* give up the mutex during writeback, and creations by other threads never
\* make it larger than cache_pages.
SsdTypeOK ==
  /\ mutex \in All \cup {Unheld}
  /\ pages \in [Pages -> Objs \cup {Nil}]
  /\ \A o \in Objs :
       /\ obj[o].state \in Busy \cup Resident \cup {"NonResident"}
       /\ obj[o].refcnt \in 0 .. Cardinality(All) * 2
       /\ obj[o].data \in -1 .. MaxWrites
  /\ clock \in Seq(Pages)
  /\ disk \in [Pages -> -1 .. MaxWrites]
  /\ \A t \in All : pc(t) \in Pcs
  /\ mem \in [Pages -> 0 .. MaxWrites]
  /\ Cardinality(Cached) <= cache_pages

\* What a read copies is the last write to the page, whatever was evicted,
\* loaded, read ahead and flushed since.
ReadsLastWrite ==
  \A t \in All :
     pc(t) = "copy" /\ thr[t].op = "read" /\ pages[thr[t].page] # Nil =>
       obj[pages[thr[t].page]].data = mem[thr[t].page]

\* pages_.at never throws: the page an operation has made resident is still
\* cached when it copies, although the mutex was released for loads, evictions
\* and writebacks in between, and what a read copies is the last write to it.
CopyIsCurrent ==
  /\ \A t \in All : pc(t) = "copy" => pages[thr[t].page] # Nil
  /\ ReadsLastWrite

\* When flush returns true, every write that was complete when it was called
\* is in the backing file.
FlushDurable ==
  \A t \in All :
     pc(t) = "flush_end" => \A p \in Pages : disk[p] >= thr[t].need[p]

\* Every operation returns.
OpsReturn == \A t \in All : pc(t) # "idle" ~> pc(t) = "idle"
=============================================================================
