----------------------------- MODULE MpiMailbox -----------------------------
(***************************************************************************)
(* The mailbox of one rank of the MPI shim (mpi_cxl_shim.c): the ranks     *)
(* that call cxl_send put messages into its circular queue, the owner      *)
(* takes them out with cxl_recv.  A large message goes through a buffer    *)
(* that allocate_cxl_memory takes from the pool all ranks share and never  *)
(* gives back.  Every atomic operation and every group of plain stores     *)
(* between two of them is a step.  A payload is known by its sender and    *)
(* the number of its send; sizes are counted in pages of CXL_ALIGNMENT,    *)
(* with 0 for a payload that fits into the message.                        *)
(***************************************************************************)
EXTENDS Integers, Sequences, FiniteSets

CONSTANTS
  QueueSize,        \* CXL_MSG_QUEUE_SIZE
  Senders,          \* the ranks that send, one thread each
  MsgTags,          \* message tags
  PoolPages,        \* pages of the pool behind the header and the mailboxes
  PageCounts,       \* the sizes of messages
  MaxSends,         \* bound of the model on the calls of cxl_send
  Wild              \* MPI_ANY_SOURCE, MPI_ANY_TAG

ASSUME MailAssumption ==
  /\ QueueSize \in Nat \ {0} /\ PoolPages \in Nat /\ MaxSends \in Nat
  /\ PageCounts \subseteq Nat /\ Wild \notin Senders /\ Wild \notin MsgTags

VARIABLES
  active,           \* mailbox.active
  box_head, box_tail,
  msgs,             \* msgs[i]: mailbox.messages[i]
  alloc_offset,     \* header->alloc_offset, in pages from the first free one
  page,             \* page[p]: the payload a page of the pool holds
  snd,              \* snd[s]: where sender s is in cxl_send
  rcv,              \* where the owner is in cxl_recv
  got,              \* what cxl_recv returned, in order
  sends,            \* the number of calls of cxl_send
  \* history, not in the code:
  granted,          \* the buffers allocate_cxl_memory returned
  published,        \* the payloads of the sends that returned 0
  holes,            \* a send gave up after it had claimed an index
  overtaken,        \* a claim found a head other than the one checked
  crossed           \* an allocation began while another had still to roll back

mailVars == <<active, box_head, box_tail, msgs, alloc_offset, page, snd, rcv, got, sends,
              granted, published, holes, overtaken, crossed>>

NoData == <<>>
NullRptr == -1
MsgSlots == 0 .. QueueSize - 1
Pages == 0 .. PoolPages - 1
SlotOf(i) == i % QueueSize
Payload(s) == <<s, snd[s].n>>
NoSend(n) == [at |-> "idle", n |-> n, tag |-> Wild, pages |-> 0, tail |-> 0, head |-> 0, off |-> 0]
NoRecv == [at |-> "idle", src |-> Wild, tag |-> Wild, tail |-> 0, head |-> 0, i |-> 0]
Resting(s) == snd[s].at = "idle"
Ends(s) == [snd EXCEPT ![s] = NoSend(@.n)]
At(s, here, there) == snd[s].at = here /\ snd' = [snd EXCEPT ![s].at = there]

MailInit ==
  /\ active = TRUE /\ box_head = 0 /\ box_tail = 0
  /\ msgs = [i \in MsgSlots |-> [state |-> "EMPTY", src |-> Wild, tag |-> Wild,
                                 inlined |-> FALSE, data |-> NoData, rptr |-> 0]]
  /\ alloc_offset = 0 /\ page = [p \in Pages |-> NoData]
  /\ snd = [s \in Senders |-> NoSend(0)] /\ rcv = NoRecv
  /\ got = <<>> /\ sends = 0 /\ granted = {} /\ published = {}
  /\ holes = FALSE /\ overtaken = FALSE /\ crossed = FALSE
-----------------------------------------------------------------------------
(* cxl_send                                                                *)

\* cxl_rank_available, then the load of the destination's tail.
SendTail(s) ==
  /\ Resting(s) /\ sends < MaxSends /\ active /\ sends' = sends + 1
  /\ \E t \in MsgTags, k \in PageCounts :
       snd' = [snd EXCEPT ![s] = [@ EXCEPT !.at = "check", !.n = snd[s].n + 1, !.tag = t,
                                           !.pages = k, !.tail = box_tail]]
  /\ UNCHANGED <<active, box_head, box_tail, msgs, alloc_offset, page, rcv, got,
                 granted, published, holes, overtaken, crossed>>

\* The load of head: a full queue fails the send before it claims anything.
SendCheck(s) ==
  /\ snd[s].at = "check"
  /\ snd' = IF box_head - snd[s].tail >= QueueSize THEN Ends(s)
            ELSE [snd EXCEPT ![s] = [@ EXCEPT !.at = "claim", !.head = box_head]]
  /\ UNCHANGED <<active, box_head, box_tail, msgs, alloc_offset, page, rcv, got, sends,
                 granted, published, holes, overtaken, crossed>>

\* atomic_fetch_add on head claims an index, whatever head was checked.
SendClaim(s) ==
  /\ snd[s].at = "claim" /\ box_head' = box_head + 1
  /\ snd' = [snd EXCEPT ![s] = [@ EXCEPT !.at = "wait", !.head = box_head]]
  /\ overtaken' = (overtaken \/ box_head # snd[s].head)
  /\ UNCHANGED <<active, box_tail, msgs, alloc_offset, page, rcv, got, sends,
                 granted, published, holes, crossed>>

Slot(s) == SlotOf(snd[s].head)

\* The spin ends when the slot is empty.
SlotEmpty(s) ==
  /\ msgs[Slot(s)].state = "EMPTY" /\ At(s, "wait", "envelope")
  /\ UNCHANGED <<active, box_head, box_tail, msgs, alloc_offset, page, rcv, got, sends,
                 granted, published, holes, overtaken, crossed>>

\* It also ends after 10000 rounds, and the index stays claimed.
SlotTimeout(s) ==
  /\ snd[s].at = "wait" /\ msgs[Slot(s)].state # "EMPTY"
  /\ snd' = Ends(s) /\ holes' = TRUE
  /\ UNCHANGED <<active, box_head, box_tail, msgs, alloc_offset, page, rcv, got, sends,
                 granted, published, overtaken, crossed>>

\* source_rank, tag and data_size.
Envelope(s) ==
  /\ At(s, "envelope", IF snd[s].pages = 0 THEN "inline" ELSE "alloc")
  /\ msgs' = [msgs EXCEPT ![Slot(s)] = [@ EXCEPT !.src = s, !.tag = snd[s].tag]]
  /\ UNCHANGED <<active, box_head, box_tail, alloc_offset, page, rcv, got, sends,
                 granted, published, holes, overtaken, crossed>>

\* A small message: inline_data and is_inline, then data_rptr.
InlineData(s) ==
  /\ At(s, "inline", "norptr")
  /\ msgs' = [msgs EXCEPT ![Slot(s)] = [@ EXCEPT !.data = Payload(s), !.inlined = TRUE]]
  /\ UNCHANGED <<active, box_head, box_tail, alloc_offset, page, rcv, got, sends,
                 granted, published, holes, overtaken, crossed>>

InlineRptr(s) ==
  /\ At(s, "norptr", "publish") /\ msgs' = [msgs EXCEPT ![Slot(s)].rptr = NullRptr]
  /\ UNCHANGED <<active, box_head, box_tail, alloc_offset, page, rcv, got, sends,
                 granted, published, holes, overtaken, crossed>>
-----------------------------------------------------------------------------
(* allocate_cxl_memory, for a large message                                *)

Fits_Bug(old, k) == old <= PoolPages
Fits(old, k) == old + k <= PoolPages

RollingBack == {s \in Senders : snd[s].at = "rollback"}

\* The fetch_add.  Beyond the end of the pool it is taken back later.
Allocate(s) ==
  LET old == alloc_offset
      k == snd[s].pages
  IN /\ snd[s].at = "alloc"
     /\ alloc_offset' = old + k
     /\ crossed' = (crossed \/ RollingBack # {})
     /\ snd' = [snd EXCEPT ![s] = [@ EXCEPT !.off = old,
                                   !.at = IF Fits(old, k) THEN "copy" ELSE "rollback"]]
     /\ granted' = IF Fits(old, k) THEN granted \cup {[by |-> Payload(s), from |-> old, to |-> old + k]}
                   ELSE granted
     /\ UNCHANGED <<active, box_head, box_tail, msgs, page, rcv, got, sends,
                    published, holes, overtaken>>

\* The fetch_sub; cxl_send returns with its index claimed and its slot empty.
RollBack(s) ==
  /\ snd[s].at = "rollback" /\ alloc_offset' = alloc_offset - snd[s].pages
  /\ snd' = Ends(s) /\ holes' = TRUE
  /\ UNCHANGED <<active, box_head, box_tail, msgs, page, rcv, got, sends,
                 granted, published, overtaken, crossed>>

\* The payload into the buffer and the remotable pointer to it.
CopyOut(s) ==
  /\ At(s, "copy", "notinline")
  /\ page' = [p \in Pages |-> IF p \in snd[s].off .. snd[s].off + snd[s].pages - 1
                              THEN Payload(s) ELSE page[p]]
  /\ msgs' = [msgs EXCEPT ![Slot(s)].rptr = snd[s].off]
  /\ UNCHANGED <<active, box_head, box_tail, alloc_offset, rcv, got, sends,
                 granted, published, holes, overtaken, crossed>>

NotInline(s) ==
  /\ At(s, "notinline", "publish") /\ msgs' = [msgs EXCEPT ![Slot(s)].inlined = FALSE]
  /\ UNCHANGED <<active, box_head, box_tail, alloc_offset, page, rcv, got, sends,
                 granted, published, holes, overtaken, crossed>>

\* The message is ready.
Publish(s) ==
  /\ snd[s].at = "publish" /\ snd' = Ends(s)
  /\ msgs' = [msgs EXCEPT ![Slot(s)].state = "READY"]
  /\ published' = published \cup {Payload(s)}
  /\ UNCHANGED <<active, box_head, box_tail, alloc_offset, page, rcv, got, sends,
                 granted, holes, overtaken, crossed>>
-----------------------------------------------------------------------------
(* cxl_recv                                                                *)

\* A call for a source and a tag, or for any; it loads tail.
RecvTail ==
  /\ rcv.at = "idle" /\ active
  /\ \E src \in Senders \cup {Wild}, t \in MsgTags \cup {Wild} :
       rcv' = [rcv EXCEPT !.at = "head", !.src = src, !.tag = t, !.tail = box_tail]
  /\ UNCHANGED <<active, box_head, box_tail, msgs, alloc_offset, page, snd, got, sends,
                 granted, published, holes, overtaken, crossed>>

\* It loads head: an empty queue has no message.
RecvHead ==
  /\ rcv.at = "head"
  /\ rcv' = IF rcv.tail >= box_head THEN NoRecv
            ELSE [rcv EXCEPT !.at = "scan", !.head = box_head, !.i = rcv.tail]
  /\ UNCHANGED <<active, box_head, box_tail, msgs, alloc_offset, page, snd, got, sends,
                 granted, published, holes, overtaken, crossed>>

Wanted(m) ==
  /\ m.state = "READY"
  /\ rcv.src \in {Wild, m.src} /\ rcv.tag \in {Wild, m.tag}

\* One index of the scan.  The owner is the only reader, so the exchange of
\* READY for READING cannot fail.
RecvScan ==
  LET slot == SlotOf(rcv.i)
  IN /\ rcv.at = "scan"
     /\ \/ /\ rcv.i = rcv.head /\ rcv' = NoRecv
           /\ UNCHANGED msgs
        \/ /\ rcv.i < rcv.head /\ ~Wanted(msgs[slot])
           /\ rcv' = [rcv EXCEPT !.i = @ + 1] /\ UNCHANGED msgs
        \/ /\ rcv.i < rcv.head /\ Wanted(msgs[slot])
           /\ rcv' = [rcv EXCEPT !.at = "copy"]
           /\ msgs' = [msgs EXCEPT ![slot].state = "READING"]
     /\ UNCHANGED <<active, box_head, box_tail, alloc_offset, page, snd, got, sends,
                    granted, published, holes, overtaken, crossed>>

\* The payload is copied; a message with an invalid pointer is put back.
RecvCopy ==
  LET slot == SlotOf(rcv.i)
      m == msgs[slot]
  IN /\ rcv.at = "copy"
     /\ \/ /\ m.inlined \/ m.rptr # NullRptr
           /\ got' = Append(got, [src |-> m.src, tag |-> m.tag,
                                  data |-> IF m.inlined THEN m.data ELSE page[m.rptr]])
           /\ rcv' = [rcv EXCEPT !.at = "consume"] /\ UNCHANGED msgs
        \/ /\ ~m.inlined /\ m.rptr = NullRptr
           /\ msgs' = [msgs EXCEPT ![slot].state = "READY"]
           /\ rcv' = [rcv EXCEPT !.at = "scan", !.i = @ + 1] /\ UNCHANGED got
     /\ UNCHANGED <<active, box_head, box_tail, alloc_offset, page, snd, sends,
                    granted, published, holes, overtaken, crossed>>

RecvConsume_Bug ==
  /\ rcv.at = "consume" /\ msgs' = [msgs EXCEPT ![SlotOf(rcv.i)].state = "READY"]
  /\ rcv' = IF rcv.i = rcv.tail THEN [rcv EXCEPT !.at = "advance"] ELSE NoRecv
  /\ UNCHANGED <<active, box_head, box_tail, alloc_offset, page, snd, got, sends,
                 granted, published, holes, overtaken, crossed>>

\* Consumed; only the message at the tail lets the tail move.
RecvConsume ==
  /\ rcv.at = "consume" /\ msgs' = [msgs EXCEPT ![SlotOf(rcv.i)].state = "CONSUMED"]
  /\ rcv' = IF rcv.i = rcv.tail THEN [rcv EXCEPT !.at = "advance"] ELSE NoRecv
  /\ UNCHANGED <<active, box_head, box_tail, alloc_offset, page, snd, got, sends,
                 granted, published, holes, overtaken, crossed>>

RecvAdvance_Over ==
  LET slot == SlotOf(rcv.tail)
  IN /\ rcv.at = "advance"
     /\ \/ /\ rcv.tail <= rcv.head
           /\ msgs' = [msgs EXCEPT ![slot].state = "EMPTY"]
           /\ rcv' = [rcv EXCEPT !.tail = @ + 1] /\ UNCHANGED box_tail
        \/ /\ rcv.tail > rcv.head
           /\ box_tail' = rcv.tail /\ rcv' = NoRecv
           /\ UNCHANGED msgs
     /\ UNCHANGED <<active, box_head, alloc_offset, page, snd, got, sends,
                    granted, published, holes, overtaken, crossed>>

\* One slot of the loop past the consumed messages, and at last the store of tail.
RecvAdvance ==
  LET slot == SlotOf(rcv.tail)
  IN /\ rcv.at = "advance"
     /\ \/ /\ rcv.tail < rcv.head /\ msgs[slot].state = "CONSUMED"
           /\ msgs' = [msgs EXCEPT ![slot].state = "EMPTY"]
           /\ rcv' = [rcv EXCEPT !.tail = @ + 1] /\ UNCHANGED box_tail
        \/ /\ rcv.tail = rcv.head \/ msgs[slot].state # "CONSUMED"
           /\ box_tail' = rcv.tail /\ rcv' = NoRecv
           /\ UNCHANGED msgs
     /\ UNCHANGED <<active, box_head, alloc_offset, page, snd, got, sends,
                    granted, published, holes, overtaken, crossed>>

\* MPI_Finalize of the owner: later sends find it inactive.
Deactivate ==
  /\ active /\ rcv.at = "idle" /\ active' = FALSE
  /\ UNCHANGED <<box_head, box_tail, msgs, alloc_offset, page, snd, rcv, got, sends,
                 granted, published, holes, overtaken, crossed>>

SendStep(s) ==
  \/ SendTail(s) \/ SendCheck(s) \/ SendClaim(s) \/ SlotEmpty(s) \/ SlotTimeout(s)
  \/ Envelope(s) \/ InlineData(s) \/ InlineRptr(s) \/ Allocate(s) \/ RollBack(s)
  \/ CopyOut(s) \/ NotInline(s) \/ Publish(s)

MailNext ==
  \/ \E s \in Senders : SendStep(s)
  \/ RecvTail \/ RecvHead \/ RecvScan \/ RecvCopy \/ RecvConsume \/ RecvAdvance
  \/ Deactivate

MailSpec == MailInit /\ [][MailNext]_mailVars
-----------------------------------------------------------------------------
(* Properties                                                              *)

\* The indices only grow, the owner's copies of them lag behind, and a slot
\* is in one of its four states (cxl_send, cxl_recv).  "Check if queue is full
\* BEFORE claiming a slot": no more than QueueSize indices are claimed, unless
\* two senders that saw the same head both claimed.
QueueIndices ==
  /\ ~overtaken => box_head - box_tail <= QueueSize
  /\ box_tail \in Nat /\ box_head \in Nat /\ box_tail <= box_head
  /\ \A i \in MsgSlots : msgs[i].state \in {"EMPTY", "READY", "READING", "CONSUMED"}
  /\ rcv.tail <= box_head /\ rcv.head <= box_head

\* The same with the types of the pool.
MailTypeOK ==
  /\ QueueIndices
  /\ alloc_offset \in Nat
  /\ \A g \in granted : g.from \in Nat /\ g.to \in Nat /\ g.from < g.to

\* What cxl_recv returns is what one send put in: the payload is that of the
\* sender named in the envelope, and the messages of one sender with one tag
\* come in the order of its sends, none twice, also when sends give up half way.
\* A mailbox in which nothing is under way and every message was received has
\* given all its slots back, if no send gave up on a claimed index: messages
\* consumed out of order do not keep the tail behind.
MailDelivered ==
  /\ (~overtaken /\ ~crossed) =>
       /\ \A k \in DOMAIN got : got[k].data \in published /\ got[k].data[1] = got[k].src
       /\ \A j, k \in DOMAIN got :
            (j < k /\ got[j].src = got[k].src /\ got[j].tag = got[k].tag)
               => got[j].data[2] < got[k].data[2]
  /\ (~overtaken /\ ~holes /\ rcv.at = "idle" /\ (\A s \in Senders : Resting(s))
        /\ Len(got) = Cardinality(published))
       => box_tail = box_head

\* Buffers from allocate_cxl_memory lie in the pool and do not overlap, as
\* long as no allocation begins while a failed one has still to roll back.
PoolDisjoint ==
  /\ \A g \in granted : g.to <= PoolPages
  /\ ~crossed => \A g, h \in granted : g = h \/ g.to <= h.from \/ h.to <= g.from
=============================================================================
