----------------------------- MODULE MailProofs -----------------------------
(***************************************************************************)
(* The mailbox of the MPI shim, for any number of senders, messages, slots *)
(* and pages. An index is claimed behind room that was found, and room is  *)
(* never lost; a buffer of the pool starts where all others end. From      *)
(* there, in layers: which index owns which slot, what the messages hold,  *)
(* and the order in which they are published and read.                     *)
(***************************************************************************)
EXTENDS MpiMailbox, TLAPS

SendLabels == {"idle", "check", "claim", "wait", "envelope", "inline", "norptr", "alloc", "rollback",
               "copy", "notinline", "publish"}
SendTypes == [at : SendLabels, n : Nat, tag : MsgTags \cup {Wild}, pages : Nat, tail : Nat, head : Nat,
              off : Int]
RecvLabels == {"idle", "head", "scan", "copy", "consume", "advance"}
RecvTypes == [at : RecvLabels, src : Senders \cup {Wild}, tag : MsgTags \cup {Wild}, tail : Nat,
              head : Nat, i : Nat]
SlotStates == {"EMPTY", "READY", "READING", "CONSUMED"}
SlotTypes == [state : SlotStates, src : Senders \cup {Wild}, tag : MsgTags \cup {Wild},
              inlined : BOOLEAN, data : {NoData} \cup (Senders \X Nat), rptr : Int]

MailTypes ==
  /\ box_head \in Nat /\ box_tail \in Nat /\ alloc_offset \in Int
  /\ snd \in [Senders -> SendTypes] /\ rcv \in RecvTypes /\ msgs \in [MsgSlots -> SlotTypes]
  /\ granted \subseteq [by : Senders \X Nat, from : Int, to : Int]
  /\ overtaken \in BOOLEAN /\ crossed \in BOOLEAN

\* What the owner knows of the indices is old but not wrong.
OwnerLags ==
  /\ box_tail <= box_head /\ rcv.tail <= box_head /\ rcv.head <= box_head
  /\ rcv.at # "idle" => box_tail <= rcv.tail
  /\ rcv.at \in {"scan", "copy", "consume", "advance"} => rcv.tail <= rcv.head

\* A sender that is about to claim has found room, behind a tail that has only
\* moved on since.
RoomWasFound ==
  /\ \A s \in Senders : snd[s].at \in {"check", "claim"} => snd[s].tail <= box_tail
  /\ \A s \in Senders : snd[s].at = "claim" => snd[s].head - snd[s].tail < QueueSize
  /\ ~overtaken => box_head - box_tail <= QueueSize

\* The offset, less what the one failed allocation has still to give back, is
\* behind every buffer.
PoolInv ==
  /\ \A g \in granted : g.to <= PoolPages
  /\ ~crossed =>
       /\ \A s, t \in Senders : snd[s].at = "rollback" /\ snd[t].at = "rollback" => s = t
       /\ \A g \in granted :
            /\ (\A s \in Senders : snd[s].at # "rollback") => g.to <= alloc_offset
            /\ \A s \in Senders : snd[s].at = "rollback" => g.to <= alloc_offset - snd[s].pages
       /\ \A g, h \in granted : g = h \/ g.to <= h.from \/ h.to <= g.from

MailInv == MailTypes /\ OwnerLags /\ RoomWasFound /\ PoolInv

RecvStep == RecvTail \/ RecvHead \/ RecvScan \/ RecvCopy \/ RecvConsume \/ RecvAdvance

\* The shape of every step of a sender.
LEMMA SenderShape ==
  ASSUME MailTypes, NEW s \in Senders, SendStep(s)
  PROVE  /\ \E r \in SendTypes : snd' = [snd EXCEPT ![s] = r]
         /\ rcv' = rcv /\ box_tail' = box_tail
         /\ msgs' \in [MsgSlots -> SlotTypes]
<1>1. snd[s] \in SendTypes
  BY Zenon DEF MailTypes
<1>2. rcv' = rcv /\ box_tail' = box_tail
  BY Zenon DEF SendStep, SendTail, SendCheck, SendClaim, SlotEmpty, SlotTimeout, Envelope, InlineData, InlineRptr,
         Allocate, RollBack, CopyOut, NotInline, Publish
<1>3. NoSend(snd[s].n) \in SendTypes
  BY <1>1 DEF NoSend, SendTypes, SendLabels
<1>4. ASSUME NEW l \in SendLabels PROVE [snd[s] EXCEPT !.at = l] \in SendTypes
  BY <1>1, <1>4, Zenon DEF SendTypes
<1>5. Payload(s) \in Senders \X Nat
  BY <1>1, Zenon DEF Payload, SendTypes
<1>6. \E r \in SendTypes : snd' = [snd EXCEPT ![s] = r]
  <2>1. CASE SendTail(s)
    <3>1. PICK t \in MsgTags, k \in PageCounts :
            snd' = [snd EXCEPT ![s] = [snd[s] EXCEPT !.at = "check", !.n = snd[s].n + 1, !.tag = t,
                                                    !.pages = k, !.tail = box_tail]]
      BY <2>1, Zenon DEF SendTail
    <3>2. [snd[s] EXCEPT !.at = "check", !.n = snd[s].n + 1, !.tag = t, !.pages = k, !.tail = box_tail]
            \in SendTypes
      <4>1. k \in Nat /\ box_tail \in Nat /\ snd[s].n + 1 \in Nat
        BY <1>1, MailAssumption DEF MailTypes, SendTypes
      <4> QED BY <1>1, <4>1, Zenon DEF SendTypes, SendLabels
    <3> QED BY <3>1, <3>2, Zenon
  <2>2. CASE SendCheck(s)
    <3>1. snd' = Ends(s) \/ snd' = [snd EXCEPT ![s] = [snd[s] EXCEPT !.at = "claim", !.head = box_head]]
      BY <2>2, Zenon DEF SendCheck
    <3>2. [snd[s] EXCEPT !.at = "claim", !.head = box_head] \in SendTypes
      BY <1>1, Zenon DEF SendTypes, SendLabels, MailTypes
    <3> QED BY <1>3, <3>1, <3>2, Zenon DEF Ends
  <2>3. CASE SendClaim(s)
    <3>1. snd' = [snd EXCEPT ![s] = [snd[s] EXCEPT !.at = "wait", !.head = box_head]]
      BY <2>3, Zenon DEF SendClaim
    <3>2. [snd[s] EXCEPT !.at = "wait", !.head = box_head] \in SendTypes
      BY <1>1, Zenon DEF SendTypes, SendLabels, MailTypes
    <3> QED BY <3>1, <3>2, Zenon
  <2>4. CASE SlotEmpty(s) \/ Envelope(s) \/ InlineData(s) \/ InlineRptr(s) \/ CopyOut(s) \/ NotInline(s)
    <3>1. \E l \in SendLabels : snd' = [snd EXCEPT ![s].at = l]
      BY <2>4, Zenon DEF SlotEmpty, Envelope, InlineData, InlineRptr, CopyOut, NotInline, At, SendLabels
    <3> QED BY <1>4, <3>1, Zenon
  <2>5. CASE SlotTimeout(s) \/ RollBack(s) \/ Publish(s)
    BY <1>3, <2>5, Zenon DEF SlotTimeout, RollBack, Publish, Ends
  <2>6. CASE Allocate(s)
    <3>1. PICK l \in {"copy", "rollback"} :
            snd' = [snd EXCEPT ![s] = [snd[s] EXCEPT !.off = alloc_offset, !.at = l]]
      BY <2>6, Zenon DEF Allocate
    <3>2. [snd[s] EXCEPT !.off = alloc_offset, !.at = l] \in SendTypes
      BY <1>1, Zenon DEF SendTypes, SendLabels, MailTypes
    <3> QED BY <3>1, <3>2, Zenon
  <2> QED BY <2>1, <2>2, <2>3, <2>4, <2>5, <2>6, Zenon DEF SendStep
<1>7. msgs' \in [MsgSlots -> SlotTypes]
  <2>1. Slot(s) \in MsgSlots
    BY <1>1, MailAssumption DEF Slot, SlotOf, MsgSlots, SendTypes
  <2>2. msgs[Slot(s)] \in SlotTypes /\ msgs \in [MsgSlots -> SlotTypes]
    BY <2>1, Zenon DEF MailTypes
  <2>3. ASSUME NEW r \in SlotTypes, msgs' = [msgs EXCEPT ![Slot(s)] = r] PROVE msgs' \in [MsgSlots -> SlotTypes]
    BY <2>2, <2>3, Zenon
  <2>4. CASE Envelope(s)
    <3>1. msgs' = [msgs EXCEPT ![Slot(s)] = [msgs[Slot(s)] EXCEPT !.src = s, !.tag = snd[s].tag]]
      BY <2>4, Zenon DEF Envelope
    <3>2. [msgs[Slot(s)] EXCEPT !.src = s, !.tag = snd[s].tag] \in SlotTypes
      BY <1>1, <2>2, Zenon DEF SlotTypes, SendTypes
    <3> QED BY <2>3, <3>1, <3>2, Zenon
  <2>5. CASE InlineData(s)
    <3>1. msgs' = [msgs EXCEPT ![Slot(s)] = [msgs[Slot(s)] EXCEPT !.data = Payload(s), !.inlined = TRUE]]
      BY <2>5, Zenon DEF InlineData
    <3>2. [msgs[Slot(s)] EXCEPT !.data = Payload(s), !.inlined = TRUE] \in SlotTypes
      BY <1>5, <2>2, Zenon DEF SlotTypes
    <3> QED BY <2>3, <3>1, <3>2, Zenon
  <2>6. CASE InlineRptr(s) \/ CopyOut(s)
    <3>1. PICK x \in Int : msgs' = [msgs EXCEPT ![Slot(s)] = [msgs[Slot(s)] EXCEPT !.rptr = x]]
      BY <1>1, <2>6 DEF InlineRptr, CopyOut, NullRptr, SendTypes
    <3>2. [msgs[Slot(s)] EXCEPT !.rptr = x] \in SlotTypes
      BY <2>2, Zenon DEF SlotTypes
    <3> QED BY <2>3, <3>1, <3>2, Zenon
  <2>7. CASE NotInline(s)
    <3>1. msgs' = [msgs EXCEPT ![Slot(s)] = [msgs[Slot(s)] EXCEPT !.inlined = FALSE]]
      BY <2>7, Zenon DEF NotInline
    <3>2. [msgs[Slot(s)] EXCEPT !.inlined = FALSE] \in SlotTypes
      BY <2>2, Zenon DEF SlotTypes
    <3> QED BY <2>3, <3>1, <3>2, Zenon
  <2>8. CASE Publish(s)
    <3>1. msgs' = [msgs EXCEPT ![Slot(s)] = [msgs[Slot(s)] EXCEPT !.state = "READY"]]
      BY <2>8, Zenon DEF Publish
    <3>2. [msgs[Slot(s)] EXCEPT !.state = "READY"] \in SlotTypes
      BY <2>2, Zenon DEF SlotTypes, SlotStates
    <3> QED BY <2>3, <3>1, <3>2, Zenon
  <2>9. CASE UNCHANGED msgs
    BY <2>2, <2>9, Zenon
  <2> QED BY <2>4, <2>5, <2>6, <2>7, <2>8, <2>9, Zenon
          DEF SendStep, SendTail, SendCheck, SendClaim, SlotEmpty, SlotTimeout, Allocate, RollBack
<1> QED BY <1>2, <1>6, <1>7, Zenon

\* A step of a sender keeps the types.
LEMMA SenderTypes ==
  ASSUME MailTypes, NEW s \in Senders, SendStep(s) PROVE MailTypes'
<1>1. PICK r \in SendTypes : snd' = [snd EXCEPT ![s] = r]
  BY SenderShape, Zenon
<1>2. snd' \in [Senders -> SendTypes]
  BY <1>1, Zenon DEF MailTypes
<1>3. box_head' \in Nat /\ alloc_offset' \in Int
  <2>1. snd[s].pages \in Nat
    BY Zenon DEF MailTypes, SendTypes
  <2>2. box_head' \in {box_head, box_head + 1}
    BY Zenon DEF SendStep, SendTail, SendCheck, SendClaim, SlotEmpty, SlotTimeout, Envelope,
           InlineData, InlineRptr, Allocate, RollBack, CopyOut, NotInline, Publish
  <2>3. alloc_offset' \in {alloc_offset, alloc_offset + snd[s].pages, alloc_offset - snd[s].pages}
    BY Zenon DEF SendStep, SendTail, SendCheck, SendClaim, SlotEmpty, SlotTimeout, Envelope,
           InlineData, InlineRptr, Allocate, RollBack, CopyOut, NotInline, Publish
  <2> QED BY <2>1, <2>2, <2>3 DEF MailTypes
<1>4. overtaken' \in BOOLEAN /\ crossed' \in BOOLEAN
  BY Zenon DEF MailTypes, SendStep, SendTail, SendCheck, SendClaim, SlotEmpty, SlotTimeout, Envelope,
         InlineData, InlineRptr, Allocate, RollBack, CopyOut, NotInline, Publish
<1>5. granted' \subseteq [by : Senders \X Nat, from : Int, to : Int]
  <2>1. CASE Allocate(s)
    <3>1. snd[s] \in SendTypes
      BY Zenon DEF MailTypes
    <3>2. Payload(s) \in Senders \X Nat /\ snd[s].pages \in Nat
      BY <3>1, Zenon DEF Payload, SendTypes
    <3>3. granted' = granted \cup {[by |-> Payload(s), from |-> alloc_offset, to |-> alloc_offset + snd[s].pages]}
            \/ granted' = granted
      BY <2>1, Zenon DEF Allocate
    <3> QED BY <3>2, <3>3 DEF MailTypes
  <2>2. CASE UNCHANGED granted
    BY <2>2, Zenon DEF MailTypes
  <2> QED BY <2>1, <2>2, Zenon DEF SendStep, SendTail, SendCheck, SendClaim, SlotEmpty, SlotTimeout, Envelope,
                            InlineData, InlineRptr, RollBack, CopyOut, NotInline, Publish
<1> QED BY <1>2, <1>3, <1>4, <1>5, SenderShape, Zenon DEF MailTypes

\* A step of the owner keeps the types, and its copies of the indices lag.
LEMMA OwnerKeeps ==
  ASSUME MailTypes, OwnerLags, RecvStep
  PROVE  MailTypes' /\ OwnerLags' /\ box_tail' >= box_tail
<1>0. /\ rcv \in RecvTypes /\ msgs \in [MsgSlots -> SlotTypes] /\ box_head \in Nat /\ box_tail \in Nat
      /\ rcv.tail \in Nat /\ rcv.head \in Nat /\ rcv.i \in Nat
  BY Zenon DEF MailTypes, RecvTypes
<1>1. UNCHANGED <<box_head, alloc_offset, snd, granted, overtaken, crossed>>
  BY Zenon DEF RecvStep, RecvTail, RecvHead, RecvScan, RecvCopy, RecvConsume, RecvAdvance
<1>2. NoRecv \in RecvTypes /\ NoRecv.at = "idle" /\ NoRecv.tail = 0 /\ NoRecv.head = 0
  BY Zenon DEF NoRecv, RecvTypes, RecvLabels
<1>3. ASSUME NEW i \in Nat, NEW st \in SlotStates, msgs' = [msgs EXCEPT ![SlotOf(i)].state = st]
      PROVE  msgs' \in [MsgSlots -> SlotTypes]
  <2>1. SlotOf(i) \in MsgSlots
    BY MailAssumption DEF SlotOf, MsgSlots
  <2>2. [msgs[SlotOf(i)] EXCEPT !.state = st] \in SlotTypes
    <3>1. msgs[SlotOf(i)] \in SlotTypes BY <1>0, <2>1, Zenon
    <3> QED BY <3>1, Zenon DEF SlotTypes
  <2> QED BY <1>0, <1>3, <2>1, <2>2, Zenon
<1>4. ASSUME rcv' \in RecvTypes, msgs' \in [MsgSlots -> SlotTypes], box_tail' \in Nat PROVE MailTypes'
  BY <1>1, <1>4, Zenon DEF MailTypes
<1>5. CASE RecvTail
  <2>1. PICK src \in Senders \cup {Wild}, t \in MsgTags \cup {Wild} :
          rcv' = [rcv EXCEPT !.at = "head", !.src = src, !.tag = t, !.tail = box_tail]
    BY <1>5, Zenon DEF RecvTail
  <2>2. rcv' \in RecvTypes /\ rcv'.at = "head" /\ rcv'.tail = box_tail /\ rcv'.head = rcv.head
    BY <1>0, <2>1, Zenon DEF RecvTypes, RecvLabels
  <2>3. UNCHANGED <<msgs, box_tail>>
    BY <1>5, Zenon DEF RecvTail
  <2> QED BY <1>0, <1>1, <1>4, <2>2, <2>3 DEF OwnerLags
<1>6. CASE RecvHead
  <2>1. UNCHANGED <<msgs, box_tail>> /\ rcv.at = "head"
    BY <1>6, Zenon DEF RecvHead
  <2>2. CASE rcv' = NoRecv
    BY <1>0, <1>1, <1>2, <1>4, <2>1, <2>2 DEF OwnerLags
  <2>3. CASE rcv.tail < box_head /\ rcv' = [rcv EXCEPT !.at = "scan", !.head = box_head, !.i = rcv.tail]
    <3>1. rcv' \in RecvTypes /\ rcv'.at = "scan" /\ rcv'.tail = rcv.tail /\ rcv'.head = box_head
      BY <1>0, <2>3, Zenon DEF RecvTypes, RecvLabels
    <3> QED BY <1>0, <1>1, <1>4, <2>1, <2>3, <3>1 DEF OwnerLags
  <2> QED BY <1>0, <1>6, <2>2, <2>3 DEF RecvHead
<1>7. CASE RecvScan
  <2>1. box_tail' = box_tail /\ rcv.at = "scan"
    BY <1>7, Zenon DEF RecvScan
  <2>2. msgs' \in [MsgSlots -> SlotTypes]
    BY <1>0, <1>3, <1>7, Zenon DEF RecvScan, SlotStates
  <2>3. CASE rcv' = NoRecv
    BY <1>0, <1>1, <1>2, <1>4, <2>1, <2>2, <2>3 DEF OwnerLags
  <2>4. CASE rcv' = [rcv EXCEPT !.i = rcv.i + 1] \/ rcv' = [rcv EXCEPT !.at = "copy"]
    <3>1. /\ rcv' \in RecvTypes /\ rcv'.at \in {"scan", "copy"} /\ rcv'.tail = rcv.tail
          /\ rcv'.head = rcv.head
      BY <1>0, <2>1, <2>4 DEF RecvTypes, RecvLabels
    <3> QED BY <1>0, <1>1, <1>4, <2>1, <2>2, <3>1 DEF OwnerLags
  <2> QED BY <1>7, <2>3, <2>4, Zenon DEF RecvScan
<1>8. CASE RecvCopy
  <2>1. box_tail' = box_tail /\ rcv.at = "copy"
    BY <1>8, Zenon DEF RecvCopy
  <2>2. msgs' \in [MsgSlots -> SlotTypes]
    BY <1>0, <1>3, <1>8, Zenon DEF RecvCopy, SlotStates
  <2>3. rcv' = [rcv EXCEPT !.at = "consume"] \/ rcv' = [rcv EXCEPT !.at = "scan", !.i = rcv.i + 1]
    BY <1>8, Zenon DEF RecvCopy
  <2>4. /\ rcv' \in RecvTypes /\ rcv'.at \in {"scan", "consume"} /\ rcv'.tail = rcv.tail
        /\ rcv'.head = rcv.head
    <3>1. CASE rcv' = [rcv EXCEPT !.at = "consume"]
      BY <1>0, <3>1, Zenon DEF RecvTypes, RecvLabels
    <3>2. CASE rcv' = [rcv EXCEPT !.at = "scan", !.i = rcv.i + 1]
      <4>1. rcv.i + 1 \in Nat
        BY <1>0
      <4> QED BY <1>0, <3>2, <4>1, Zenon DEF RecvTypes, RecvLabels
    <3> QED BY <2>3, <3>1, <3>2, Zenon
  <2> QED BY <1>0, <1>1, <1>4, <2>1, <2>2, <2>4 DEF OwnerLags
<1>9. CASE RecvConsume
  <2>1. box_tail' = box_tail /\ rcv.at = "consume"
    BY <1>9, Zenon DEF RecvConsume
  <2>2. msgs' \in [MsgSlots -> SlotTypes]
    BY <1>0, <1>3, <1>9, Zenon DEF RecvConsume, SlotStates
  <2>3. CASE rcv' = NoRecv
    BY <1>0, <1>1, <1>2, <1>4, <2>1, <2>2, <2>3 DEF OwnerLags
  <2>4. CASE rcv' = [rcv EXCEPT !.at = "advance"]
    <3>1. rcv' \in RecvTypes /\ rcv'.at = "advance" /\ rcv'.tail = rcv.tail /\ rcv'.head = rcv.head
      BY <1>0, <2>4, Zenon DEF RecvTypes, RecvLabels
    <3> QED BY <1>0, <1>1, <1>4, <2>1, <2>2, <3>1 DEF OwnerLags
  <2> QED BY <1>9, <2>3, <2>4, Zenon DEF RecvConsume
<1>10. CASE RecvAdvance
  <2>1. rcv.at = "advance" /\ box_tail <= rcv.tail /\ rcv.tail <= rcv.head /\ rcv.head <= box_head
    BY <1>10, Zenon DEF RecvAdvance, OwnerLags
  <2>2. msgs' \in [MsgSlots -> SlotTypes]
    BY <1>0, <1>3, <1>10, Zenon DEF RecvAdvance, SlotStates
  <2>3. CASE rcv' = NoRecv /\ box_tail' = rcv.tail
    BY <1>0, <1>1, <1>2, <1>4, <2>1, <2>2, <2>3 DEF OwnerLags
  <2>4. CASE rcv.tail < rcv.head /\ rcv' = [rcv EXCEPT !.tail = rcv.tail + 1] /\ box_tail' = box_tail
    <3>1. rcv' \in RecvTypes /\ rcv'.at = "advance" /\ rcv'.tail = rcv.tail + 1 /\ rcv'.head = rcv.head
      BY <1>0, <2>1, <2>4 DEF RecvTypes, RecvLabels
    <3> QED BY <1>0, <1>1, <1>4, <2>1, <2>2, <2>4, <3>1 DEF OwnerLags
  <2> QED BY <1>10, <2>3, <2>4, Zenon DEF RecvAdvance
<1> QED BY <1>5, <1>6, <1>7, <1>8, <1>9, <1>10, Zenon DEF RecvStep

\* The owner moves the tail only forward, so room that was found stays.
LEMMA OwnerKeepsRoom ==
  ASSUME MailTypes, OwnerLags, RoomWasFound, PoolInv, RecvStep
  PROVE  RoomWasFound' /\ PoolInv'
<1>1. UNCHANGED <<box_head, alloc_offset, snd, granted, overtaken, crossed>>
  BY Zenon DEF RecvStep, RecvTail, RecvHead, RecvScan, RecvCopy, RecvConsume, RecvAdvance
<1>2. box_tail' >= box_tail /\ box_tail' \in Nat /\ box_tail \in Nat /\ box_head \in Nat
  BY OwnerKeeps, Zenon DEF MailTypes
<1>3. PoolInv'
  BY <1>1, Zenon DEF PoolInv
<1>4. \A s \in Senders : snd[s].tail \in Nat
  BY Zenon DEF MailTypes, SendTypes
<1>5. \A s \in Senders : snd[s].at \in {"check", "claim"} => snd[s].tail <= box_tail'
  BY <1>2, <1>4 DEF RoomWasFound
<1>6. ASSUME ~overtaken PROVE box_head - box_tail' <= QueueSize
  <2>1. box_head - box_tail <= QueueSize /\ QueueSize \in Nat
    BY <1>6, MailAssumption, Zenon DEF RoomWasFound
  <2>2. \A h, t, u, q \in Nat : h - t <= q /\ u >= t => h - u <= q
    OBVIOUS
  <2> QED BY <1>2, <2>1, <2>2, Zenon
<1>7. RoomWasFound'
  BY <1>1, <1>5, <1>6, Zenon DEF RoomWasFound
<1> QED BY <1>3, <1>7, Zenon

\* A sender claims an index only behind the room it found.
LEMMA SenderKeepsRoom ==
  ASSUME MailTypes, MailTypes', OwnerLags, RoomWasFound, NEW s \in Senders, SendStep(s)
  PROVE  OwnerLags' /\ RoomWasFound'
<1>1. rcv' = rcv /\ box_tail' = box_tail
  BY SenderShape, Zenon
<1>2. /\ box_head \in Nat /\ box_tail \in Nat /\ rcv.tail \in Nat /\ rcv.head \in Nat
      /\ snd[s] \in SendTypes /\ snd[s].tail \in Nat /\ snd[s].head \in Nat /\ QueueSize \in Nat
  BY MailAssumption, Zenon DEF MailTypes, SendTypes, RecvTypes
<1>3. \A u \in Senders : u # s => snd'[u] = snd[u]
  BY SenderShape, Zenon DEF MailTypes
<1>4. CASE SendClaim(s)
  <2>1. /\ snd[s].at = "claim" /\ box_head' = box_head + 1
        /\ snd' = [snd EXCEPT ![s] = [snd[s] EXCEPT !.at = "wait", !.head = box_head]]
    BY <1>4, Zenon DEF SendClaim
  <2>2. snd'[s].at = "wait"
    BY <1>2, <2>1, Zenon DEF MailTypes, SendTypes
  <2>3. ~overtaken' => ~overtaken /\ box_head = snd[s].head
    BY <1>4, Zenon DEF SendClaim
  <2>4. OwnerLags'
    BY <1>1, <1>2, <2>1 DEF OwnerLags
  <2>5. ~overtaken' => box_head' - box_tail' <= QueueSize
    BY <1>1, <1>2, <2>1, <2>3 DEF RoomWasFound
  <2> QED BY <1>1, <1>3, <2>2, <2>4, <2>5, Zenon DEF RoomWasFound
<1>5. CASE ~SendClaim(s)
  <2>1. box_head' = box_head /\ overtaken' = overtaken
    BY <1>5, Zenon DEF SendStep, SendTail, SendCheck, SlotEmpty, SlotTimeout, Envelope, InlineData,
                InlineRptr, Allocate, RollBack, CopyOut, NotInline, Publish
  <2>2. OwnerLags'
    BY <1>1, <2>1, Zenon DEF OwnerLags
  <2>3. CASE SendTail(s)
    <3>1. PICK t \in MsgTags, k \in PageCounts :
            snd' = [snd EXCEPT ![s] = [snd[s] EXCEPT !.at = "check", !.n = snd[s].n + 1, !.tag = t,
                                                    !.pages = k, !.tail = box_tail]]
      BY <2>3, Zenon DEF SendTail
    <3>2. snd'[s].at = "check" /\ snd'[s].tail = box_tail
      BY <1>2, <3>1, Zenon DEF MailTypes, SendTypes
    <3> QED BY <1>1, <1>2, <1>3, <2>1, <2>2, <3>2 DEF RoomWasFound
  <2>4. CASE SendCheck(s)
    <3>1. CASE snd' = Ends(s)
      <4>1. snd'[s].at = "idle"
        BY <3>1, Zenon DEF Ends, NoSend, MailTypes
      <4> QED BY <1>1, <1>3, <2>1, <2>2, <4>1, Zenon DEF RoomWasFound
    <3>2. CASE /\ ~(box_head - snd[s].tail >= QueueSize)
               /\ snd' = [snd EXCEPT ![s] = [snd[s] EXCEPT !.at = "claim", !.head = box_head]]
      <4>1. snd'[s].at = "claim" /\ snd'[s].head = box_head /\ snd'[s].tail = snd[s].tail
        BY <1>2, <3>2, Zenon DEF MailTypes, SendTypes
      <4>2. snd[s].tail <= box_tail
        BY <2>4, Zenon DEF SendCheck, RoomWasFound
      <4>3. box_head - snd[s].tail < QueueSize
        BY <1>2, <3>2
      <4> QED BY <1>1, <1>2, <1>3, <2>1, <2>2, <4>1, <4>2, <4>3, Zenon DEF RoomWasFound
    <3> QED BY <2>4, <3>1, <3>2, Zenon DEF SendCheck
  <2>5. CASE SlotTimeout(s) \/ RollBack(s) \/ Publish(s)
    <3>1. snd'[s].at = "idle"
      BY <2>5 DEF SlotTimeout, RollBack, Publish, Ends, NoSend, MailTypes
    <3> QED BY <1>1, <1>3, <2>1, <2>2, <3>1, Zenon DEF RoomWasFound
  <2>6. CASE SlotEmpty(s) \/ Envelope(s) \/ InlineData(s) \/ InlineRptr(s) \/ CopyOut(s) \/ NotInline(s)
    <3>1. \E l \in SendLabels \ {"check", "claim"} : snd' = [snd EXCEPT ![s].at = l]
      BY <2>6, Zenon DEF SlotEmpty, Envelope, InlineData, InlineRptr, CopyOut, NotInline, At, SendLabels
    <3>2. snd'[s].at \notin {"check", "claim"}
      BY <1>2, <3>1, Zenon DEF MailTypes, SendTypes
    <3> QED BY <1>1, <1>3, <2>1, <2>2, <3>2, Zenon DEF RoomWasFound
  <2>7. CASE Allocate(s)
    <3>1. PICK l \in {"copy", "rollback"} :
            snd' = [snd EXCEPT ![s] = [snd[s] EXCEPT !.off = alloc_offset, !.at = l]]
      BY <2>7, Zenon DEF Allocate
    <3>2. snd'[s].at \notin {"check", "claim"}
      BY <1>2, <3>1, Zenon DEF MailTypes, SendTypes
    <3> QED BY <1>1, <1>3, <2>1, <2>2, <3>2, Zenon DEF RoomWasFound
  <2> QED BY <1>5, <2>3, <2>4, <2>5, <2>6, <2>7, Zenon DEF SendStep
<1> QED BY <1>4, <1>5, Zenon

\* A buffer starts where all others end, and only a failed allocation moves the
\* offset back, by what it had added.
LEMMA SenderKeepsPool ==
  ASSUME MailTypes, MailTypes', PoolInv, NEW s \in Senders, SendStep(s)
  PROVE  PoolInv'
<1>1. /\ snd[s] \in SendTypes /\ snd[s].pages \in Nat /\ alloc_offset \in Int /\ PoolPages \in Nat
      /\ \A g \in granted : g.from \in Int /\ g.to \in Int
  BY MailAssumption, Zenon DEF MailTypes, SendTypes
<1>2. \A u \in Senders : u # s => snd'[u] = snd[u]
  BY SenderShape, Zenon DEF MailTypes
<1>3. CASE Allocate(s)
  <2> DEFINE k == snd[s].pages
             new == [by |-> Payload(s), from |-> alloc_offset, to |-> alloc_offset + k]
             kept == Fits(alloc_offset, k)
  <2>1. /\ snd[s].at = "alloc" /\ alloc_offset' = alloc_offset + k
        /\ granted' = IF kept THEN granted \cup {new} ELSE granted
        /\ snd' = [snd EXCEPT ![s] = [snd[s] EXCEPT !.off = alloc_offset,
                                                    !.at = IF kept THEN "copy" ELSE "rollback"]]
    BY <1>3, Zenon DEF Allocate
  <2>2. snd'[s].at = (IF kept THEN "copy" ELSE "rollback") /\ snd'[s].pages = k
    BY <1>1, <2>1, Zenon DEF MailTypes, SendTypes
  <2>3. new.from = alloc_offset /\ new.to = alloc_offset + k /\ (kept => new.to <= PoolPages)
    BY Zenon DEF Fits
  <2>4. \A g \in granted' : g.to <= PoolPages
    BY <2>1, <2>3, Zenon DEF PoolInv
  <2>5. SUFFICES ASSUME ~crossed'
                 PROVE  /\ \A u, t \in Senders : snd'[u].at = "rollback" /\ snd'[t].at = "rollback" => u = t
                        /\ \A g \in granted' :
                             /\ (\A u \in Senders : snd'[u].at # "rollback") => g.to <= alloc_offset'
                             /\ \A u \in Senders : snd'[u].at = "rollback" => g.to <= alloc_offset' - snd'[u].pages
                        /\ \A g, h \in granted' : g = h \/ g.to <= h.from \/ h.to <= g.from
    BY <2>4, <2>5, Zenon DEF PoolInv
  <2>6. ~crossed /\ \A u \in Senders : snd[u].at # "rollback"
    <3>1. ~crossed /\ RollingBack = {}
      BY <1>3, <2>5, Zenon DEF Allocate
    <3> QED BY <3>1, Zenon DEF RollingBack
  <2>7. /\ \A g \in granted : g.to <= alloc_offset
        /\ \A g, h \in granted : g = h \/ g.to <= h.from \/ h.to <= g.from
    BY <2>6, Zenon DEF PoolInv
  <2>8. \A u \in Senders : snd'[u].at = "rollback" => u = s /\ ~kept
    BY <1>2, <2>2, <2>6, Zenon
  <2>9. \A g \in granted' : g \in granted \/ (kept /\ g = new)
    BY <2>1, Zenon
  <2> HIDE DEF new, kept
  <2>10. \A g \in granted' :
            /\ (\A u \in Senders : snd'[u].at # "rollback") => g.to <= alloc_offset'
            /\ \A u \in Senders : snd'[u].at = "rollback" => g.to <= alloc_offset' - snd'[u].pages
    <3> SUFFICES ASSUME NEW g \in granted'
                 PROVE  /\ (\A u \in Senders : snd'[u].at # "rollback") => g.to <= alloc_offset'
                        /\ \A u \in Senders : snd'[u].at = "rollback" => g.to <= alloc_offset' - snd'[u].pages
      OBVIOUS
    <3>1. CASE g \in granted
      <4>1. g.to <= alloc_offset /\ g.to \in Int BY <1>1, <2>7, <3>1, Zenon
      <4> QED BY <1>1, <2>1, <2>2, <2>8, <4>1
    <3>2. CASE kept /\ g = new
      BY <1>1, <2>1, <2>3, <2>8, <3>2
    <3> QED BY <2>9, <3>1, <3>2, Zenon
  <2>11. \A g, h \in granted' : g = h \/ g.to <= h.from \/ h.to <= g.from
    BY <2>3, <2>7, <2>9, Zenon
  <2> QED BY <2>8, <2>10, <2>11, Zenon
<1>4. CASE RollBack(s)
  <2>1. /\ snd[s].at = "rollback" /\ alloc_offset' = alloc_offset - snd[s].pages
        /\ snd' = Ends(s) /\ UNCHANGED <<granted, crossed>>
    BY <1>4, Zenon DEF RollBack
  <2>2. snd'[s].at = "idle"
    BY <2>1, Zenon DEF Ends, NoSend, MailTypes
  <2>3. \A g \in granted : g.to <= PoolPages
    BY Zenon DEF PoolInv
  <2>4. ~crossed => /\ \A u \in Senders : u # s => snd[u].at # "rollback"
                    /\ \A g \in granted : g.to <= alloc_offset - snd[s].pages
                    /\ \A g, h \in granted : g = h \/ g.to <= h.from \/ h.to <= g.from
    BY <2>1, Zenon DEF PoolInv
  <2>5. ~crossed => \A u \in Senders : snd'[u].at # "rollback"
    BY <1>2, <2>2, <2>4, Zenon
  <2> QED BY <2>1, <2>3, <2>4, <2>5, Zenon DEF PoolInv
<1>5. CASE ~Allocate(s) /\ ~RollBack(s)
  <2>1. UNCHANGED <<alloc_offset, granted, crossed>> /\ snd[s].at # "rollback"
    BY <1>5, Zenon DEF SendStep, SendTail, SendCheck, SendClaim, SlotEmpty, SlotTimeout, Envelope, InlineData,
                InlineRptr, CopyOut, NotInline, Publish, At, Resting
  <2>2. snd'[s].at # "rollback"
    <3>1. CASE SendTail(s)
      <4>1. PICK t \in MsgTags, k \in PageCounts :
              snd' = [snd EXCEPT ![s] = [snd[s] EXCEPT !.at = "check", !.n = snd[s].n + 1, !.tag = t,
                                                      !.pages = k, !.tail = box_tail]]
        BY <3>1, Zenon DEF SendTail
      <4> QED BY <1>1, <4>1, Zenon DEF MailTypes, SendTypes
    <3>2. CASE SendCheck(s) \/ SlotTimeout(s) \/ Publish(s)
      <4>1. \/ snd' = [snd EXCEPT ![s] = NoSend(snd[s].n)]
            \/ snd' = [snd EXCEPT ![s] = [snd[s] EXCEPT !.at = "claim", !.head = box_head]]
        BY <3>2, Zenon DEF SendCheck, SlotTimeout, Publish, Ends
      <4>2. CASE snd' = [snd EXCEPT ![s] = NoSend(snd[s].n)]
        BY <4>2, Zenon DEF NoSend, MailTypes
      <4>3. CASE snd' = [snd EXCEPT ![s] = [snd[s] EXCEPT !.at = "claim", !.head = box_head]]
        BY <1>1, <4>3, Zenon DEF MailTypes, SendTypes
      <4> QED BY <4>1, <4>2, <4>3, Zenon
    <3>3. CASE SendClaim(s)
      <4>1. snd' = [snd EXCEPT ![s] = [snd[s] EXCEPT !.at = "wait", !.head = box_head]]
        BY <3>3, Zenon DEF SendClaim
      <4> QED BY <1>1, <4>1, Zenon DEF MailTypes, SendTypes
    <3>4. CASE SlotEmpty(s) \/ Envelope(s) \/ InlineData(s) \/ InlineRptr(s) \/ CopyOut(s) \/ NotInline(s)
      <4>1. \E l \in SendLabels \ {"rollback"} : snd' = [snd EXCEPT ![s].at = l]
        BY <3>4, Zenon DEF SlotEmpty, Envelope, InlineData, InlineRptr, CopyOut, NotInline, At, SendLabels
      <4> QED BY <1>1, <4>1, Zenon DEF MailTypes, SendTypes
    <3> QED BY <1>5, <3>1, <3>2, <3>3, <3>4, Zenon DEF SendStep
  <2>3. \A u \in Senders : snd'[u].at = "rollback" <=> snd[u].at = "rollback"
    BY <1>2, <2>1, <2>2, Zenon
  <2>4. \A u \in Senders : snd[u].at = "rollback" => snd'[u].pages = snd[u].pages
    BY <1>2, <2>1, Zenon
  <2> QED BY <2>1, <2>3, <2>4, Zenon DEF PoolInv
<1> QED BY <1>3, <1>4, <1>5, Zenon

\* An empty mailbox and an unused pool.
LEMMA MailInitInv == MailInit => MailInv
<1> SUFFICES ASSUME MailInit PROVE MailInv
  OBVIOUS
<1>1. NoSend(0) \in SendTypes /\ NoSend(0).at = "idle"
  BY DEF NoSend, SendTypes, SendLabels
<1>2. NoRecv \in RecvTypes /\ NoRecv.at = "idle" /\ NoRecv.tail = 0 /\ NoRecv.head = 0
  BY Zenon DEF NoRecv, RecvTypes, RecvLabels
<1>3. msgs \in [MsgSlots -> SlotTypes]
  BY DEF MailInit, SlotTypes, SlotStates
<1>4. overtaken \in BOOLEAN /\ crossed \in BOOLEAN
  BY Zenon DEF MailInit
<1>5. snd \in [Senders -> SendTypes] /\ \A s \in Senders : snd[s].at = "idle"
  BY <1>1, Zenon DEF MailInit
<1>6. box_head = 0 /\ box_tail = 0 /\ alloc_offset = 0 /\ rcv = NoRecv /\ granted = {}
  BY Zenon DEF MailInit
<1>7. MailTypes
  BY <1>2, <1>3, <1>4, <1>5, <1>6 DEF MailTypes
<1>8. OwnerLags
  BY <1>2, <1>6 DEF OwnerLags
<1>9. RoomWasFound
  BY <1>5, <1>6, MailAssumption DEF RoomWasFound
<1>10. PoolInv
  BY <1>5, <1>6, Zenon DEF PoolInv
<1> QED BY <1>7, <1>8, <1>9, <1>10, Zenon DEF MailInv

\* The invariant is inductive.
LEMMA MailInductive == MailInv /\ [MailNext]_mailVars => MailInv'
<1> SUFFICES ASSUME MailInv, [MailNext]_mailVars PROVE MailInv'
  OBVIOUS
<1>1. MailTypes /\ OwnerLags /\ RoomWasFound /\ PoolInv
  BY Zenon DEF MailInv
<1>2. ASSUME NEW s \in Senders, SendStep(s) PROVE MailInv'
  <2>1. MailTypes'
    BY <1>1, <1>2, SenderTypes, Zenon
  <2>2. OwnerLags' /\ RoomWasFound'
    BY <1>1, <1>2, <2>1, SenderKeepsRoom, Zenon
  <2>3. PoolInv'
    BY <1>1, <1>2, <2>1, SenderKeepsPool, Zenon
  <2> QED BY <2>1, <2>2, <2>3, Zenon DEF MailInv
<1>3. CASE RecvStep
  BY <1>1, <1>3, OwnerKeeps, OwnerKeepsRoom, Zenon DEF MailInv
<1>4. CASE Deactivate \/ UNCHANGED mailVars
  <2>1. UNCHANGED <<box_head, box_tail, msgs, alloc_offset, snd, rcv, granted, overtaken, crossed>>
    BY <1>4, Zenon DEF Deactivate, mailVars
  <2> QED BY <1>1, <2>1, Zenon DEF MailInv, MailTypes, OwnerLags, RoomWasFound, PoolInv
<1> QED BY <1>2, <1>3, <1>4, Zenon DEF MailNext, RecvStep

\* cxl_send never claims more indices than the queue has slots, unless a claim
\* overtook a check, and the owner's indices lag behind, for any number of
\* senders and slots.
THEOREM MailIndices == MailSpec => []QueueIndices
<1>1. MailInv => QueueIndices
  <2> SUFFICES ASSUME MailInv PROVE QueueIndices
    OBVIOUS
  <2>1. \A i \in MsgSlots : msgs[i].state \in SlotStates
    BY Zenon DEF MailInv, MailTypes, SlotTypes
  <2> QED BY <2>1, Zenon DEF MailInv, MailTypes, OwnerLags, RoomWasFound, QueueIndices, SlotStates
<1> QED BY <1>1, MailInitInv, MailInductive, PTL DEF MailSpec

\* The buffers allocate_cxl_memory returns lie in the pool, and they are
\* disjoint until an allocation begins before a failed one has rolled back, for
\* any pool, any sizes and any number of senders.
THEOREM MailPool == MailSpec => []PoolDisjoint
<1>1. MailInv => PoolDisjoint
  BY Zenon DEF MailInv, PoolInv, PoolDisjoint
<1> QED BY <1>1, MailInitInv, MailInductive, PTL DEF MailSpec

\* What one step of a sender does to its own record.
LEMMA SenderAfter ==
  ASSUME MailTypes, NEW s \in Senders
  PROVE  LET r == snd[s]
             q == snd'[s]
             kept == q.n = r.n /\ q.tag = r.tag /\ q.pages = r.pages /\ q.head = r.head
             moved == kept /\ q.off = r.off
         IN /\ SendTail(s) => r.at = "idle" /\ q.at = "check" /\ q.n = r.n + 1
            /\ SendCheck(s) => r.at = "check" /\ q.at \in {"idle", "claim"} /\ q.n = r.n
            /\ SendClaim(s) => /\ r.at = "claim" /\ q.at = "wait" /\ q.head = box_head
                               /\ q.n = r.n /\ q.tag = r.tag /\ q.pages = r.pages
            /\ SlotEmpty(s) => r.at = "wait" /\ q.at = "envelope" /\ moved
            /\ SlotTimeout(s) => r.at = "wait" /\ q.at = "idle" /\ q.n = r.n
            /\ Envelope(s) => /\ r.at = "envelope" /\ moved
                              /\ q.at = IF r.pages = 0 THEN "inline" ELSE "alloc"
            /\ InlineData(s) => r.at = "inline" /\ q.at = "norptr" /\ moved
            /\ InlineRptr(s) => r.at = "norptr" /\ q.at = "publish" /\ moved
            /\ Allocate(s) => /\ r.at = "alloc" /\ kept /\ q.off = alloc_offset
                              /\ q.at = IF Fits(alloc_offset, r.pages) THEN "copy" ELSE "rollback"
            /\ RollBack(s) => r.at = "rollback" /\ q.at = "idle" /\ q.n = r.n
            /\ CopyOut(s) => r.at = "copy" /\ q.at = "notinline" /\ moved
            /\ NotInline(s) => r.at = "notinline" /\ q.at = "publish" /\ moved
            /\ Publish(s) => r.at = "publish" /\ q.at = "idle" /\ q.n = r.n
<1>1. snd[s] \in SendTypes /\ snd \in [Senders -> SendTypes] BY Zenon DEF MailTypes
<1>2. ASSUME NEW r, snd' = [snd EXCEPT ![s] = r] PROVE snd'[s] = r BY <1>1, <1>2, Zenon
<1>3. ASSUME NEW l, snd' = [snd EXCEPT ![s].at = l]
      PROVE  /\ snd'[s].at = l /\ snd'[s].n = snd[s].n /\ snd'[s].tag = snd[s].tag
             /\ snd'[s].pages = snd[s].pages /\ snd'[s].head = snd[s].head /\ snd'[s].off = snd[s].off
  BY <1>1, <1>3, Zenon DEF SendTypes
<1>4. ASSUME snd' = Ends(s) PROVE snd'[s].at = "idle" /\ snd'[s].n = snd[s].n
  BY <1>1, <1>4, Zenon DEF Ends, NoSend
<1>5. ASSUME SendTail(s) PROVE snd[s].at = "idle" /\ snd'[s].at = "check" /\ snd'[s].n = snd[s].n + 1
  <2>1. PICK t \in MsgTags, k \in PageCounts :
          snd' = [snd EXCEPT ![s] = [snd[s] EXCEPT !.at = "check", !.n = snd[s].n + 1, !.tag = t,
                                                  !.pages = k, !.tail = box_tail]]
    BY <1>5, Zenon DEF SendTail
  <2>2. snd[s].at = "idle" BY <1>5, Zenon DEF SendTail, Resting
  <2> QED BY <1>1, <2>1, <2>2, Zenon DEF SendTypes
<1>6. ASSUME SendCheck(s) PROVE snd[s].at = "check" /\ snd'[s].at \in {"idle", "claim"} /\ snd'[s].n = snd[s].n
  <2>1. snd' = Ends(s) \/ snd' = [snd EXCEPT ![s] = [snd[s] EXCEPT !.at = "claim", !.head = box_head]]
    BY <1>6, Zenon DEF SendCheck
  <2>2. CASE snd' = [snd EXCEPT ![s] = [snd[s] EXCEPT !.at = "claim", !.head = box_head]]
    BY <1>1, <1>6, <2>2, Zenon DEF SendTypes, SendCheck
  <2> QED BY <1>4, <1>6, <2>1, <2>2, Zenon DEF SendCheck
<1>7. ASSUME SendClaim(s)
      PROVE  /\ snd[s].at = "claim" /\ snd'[s].at = "wait" /\ snd'[s].head = box_head
             /\ snd'[s].n = snd[s].n /\ snd'[s].tag = snd[s].tag /\ snd'[s].pages = snd[s].pages
  <2>1. snd' = [snd EXCEPT ![s] = [snd[s] EXCEPT !.at = "wait", !.head = box_head]] /\ snd[s].at = "claim"
    BY <1>7, Zenon DEF SendClaim
  <2> QED BY <1>1, <2>1, Zenon DEF SendTypes
<1>8. ASSUME Allocate(s)
      PROVE  /\ snd[s].at = "alloc" /\ snd'[s].off = alloc_offset
             /\ snd'[s].at = IF Fits(alloc_offset, snd[s].pages) THEN "copy" ELSE "rollback"
             /\ snd'[s].n = snd[s].n /\ snd'[s].tag = snd[s].tag
             /\ snd'[s].pages = snd[s].pages /\ snd'[s].head = snd[s].head
  <2> DEFINE l == IF Fits(alloc_offset, snd[s].pages) THEN "copy" ELSE "rollback"
  <2>1. snd' = [snd EXCEPT ![s] = [snd[s] EXCEPT !.off = alloc_offset, !.at = l]] /\ snd[s].at = "alloc"
    BY <1>8, Zenon DEF Allocate
  <2> HIDE DEF l
  <2>2. /\ snd'[s].off = alloc_offset /\ snd'[s].at = l
        /\ snd'[s].n = snd[s].n /\ snd'[s].tag = snd[s].tag
        /\ snd'[s].pages = snd[s].pages /\ snd'[s].head = snd[s].head
    BY <1>1, <2>1, Zenon DEF SendTypes
  <2> QED BY <2>1, <2>2, Zenon DEF l
<1>9. ASSUME SlotEmpty(s) PROVE snd[s].at = "wait" /\ snd' = [snd EXCEPT ![s].at = "envelope"]
  BY <1>9, Zenon DEF SlotEmpty, At
<1>10. ASSUME Envelope(s)
       PROVE  snd[s].at = "envelope" /\ snd' = [snd EXCEPT ![s].at = IF snd[s].pages = 0 THEN "inline" ELSE "alloc"]
  BY <1>10, Zenon DEF Envelope, At
<1>11. ASSUME InlineData(s) PROVE snd[s].at = "inline" /\ snd' = [snd EXCEPT ![s].at = "norptr"]
  BY <1>11, Zenon DEF InlineData, At
<1>12. ASSUME InlineRptr(s) PROVE snd[s].at = "norptr" /\ snd' = [snd EXCEPT ![s].at = "publish"]
  BY <1>12, Zenon DEF InlineRptr, At
<1>13. ASSUME CopyOut(s) PROVE snd[s].at = "copy" /\ snd' = [snd EXCEPT ![s].at = "notinline"]
  BY <1>13, Zenon DEF CopyOut, At
<1>14. ASSUME NotInline(s) PROVE snd[s].at = "notinline" /\ snd' = [snd EXCEPT ![s].at = "publish"]
  BY <1>14, Zenon DEF NotInline, At
<1>15. ASSUME SlotTimeout(s) PROVE snd[s].at = "wait" /\ snd'[s].at = "idle" /\ snd'[s].n = snd[s].n
  BY <1>4, <1>15, Zenon DEF SlotTimeout
<1>16. ASSUME RollBack(s) PROVE snd[s].at = "rollback" /\ snd'[s].at = "idle" /\ snd'[s].n = snd[s].n
  BY <1>4, <1>16, Zenon DEF RollBack
<1>17. ASSUME Publish(s) PROVE snd[s].at = "publish" /\ snd'[s].at = "idle" /\ snd'[s].n = snd[s].n
  BY <1>4, <1>17, Zenon DEF Publish
<1>18. SlotEmpty(s) => /\ snd[s].at = "wait" /\ snd'[s].at = "envelope" /\ snd'[s].n = snd[s].n
                       /\ snd'[s].tag = snd[s].tag /\ snd'[s].pages = snd[s].pages
                       /\ snd'[s].head = snd[s].head /\ snd'[s].off = snd[s].off
  BY <1>3, <1>9, Zenon
<1>19. Envelope(s) => /\ snd[s].at = "envelope" /\ snd'[s].at = (IF snd[s].pages = 0 THEN "inline" ELSE "alloc")
                      /\ snd'[s].n = snd[s].n
                      /\ snd'[s].tag = snd[s].tag /\ snd'[s].pages = snd[s].pages
                      /\ snd'[s].head = snd[s].head /\ snd'[s].off = snd[s].off
  BY <1>3, <1>10, Zenon
<1>20. InlineData(s) => /\ snd[s].at = "inline" /\ snd'[s].at = "norptr" /\ snd'[s].n = snd[s].n
                        /\ snd'[s].tag = snd[s].tag /\ snd'[s].pages = snd[s].pages
                        /\ snd'[s].head = snd[s].head /\ snd'[s].off = snd[s].off
  BY <1>3, <1>11, Zenon
<1>21. InlineRptr(s) => /\ snd[s].at = "norptr" /\ snd'[s].at = "publish" /\ snd'[s].n = snd[s].n
                        /\ snd'[s].tag = snd[s].tag /\ snd'[s].pages = snd[s].pages
                        /\ snd'[s].head = snd[s].head /\ snd'[s].off = snd[s].off
  BY <1>3, <1>12, Zenon
<1>22. CopyOut(s) => /\ snd[s].at = "copy" /\ snd'[s].at = "notinline" /\ snd'[s].n = snd[s].n
                     /\ snd'[s].tag = snd[s].tag /\ snd'[s].pages = snd[s].pages
                     /\ snd'[s].head = snd[s].head /\ snd'[s].off = snd[s].off
  BY <1>3, <1>13, Zenon
<1>23. NotInline(s) => /\ snd[s].at = "notinline" /\ snd'[s].at = "publish" /\ snd'[s].n = snd[s].n
                       /\ snd'[s].tag = snd[s].tag /\ snd'[s].pages = snd[s].pages
                       /\ snd'[s].head = snd[s].head /\ snd'[s].off = snd[s].off
  BY <1>3, <1>14, Zenon
<1> QED BY <1>5, <1>6, <1>7, <1>8, <1>15, <1>16, <1>17, <1>18, <1>19, <1>20, <1>21, <1>22, <1>23, Zenon

\* A send that went to the pool has something to put there.
Paged == \A s \in Senders : snd[s].at \in {"alloc", "rollback", "copy", "notinline"} => snd[s].pages > 0

\* Every step of a sender keeps that: Envelope sends an empty payload inline.
LEMMA PagedKept ==
  ASSUME MailTypes, Paged, NEW s \in Senders, SendStep(s)
  PROVE  Paged'
<1>1. snd[s].pages \in Nat BY Zenon DEF MailTypes, SendTypes
<1>2. \A u \in Senders : u # s => snd'[u] = snd[u]
  BY SenderShape, Zenon DEF MailTypes
<1>3. snd'[s].at \in {"alloc", "rollback", "copy", "notinline"} =>
        /\ snd'[s].pages = snd[s].pages
        /\ snd[s].at \in {"alloc", "copy"} \/ snd[s].pages # 0
  <2>1. CASE Envelope(s) BY <1>1, <2>1, SenderAfter
  <2>2. CASE Allocate(s) \/ CopyOut(s) BY <2>2, SenderAfter, Zenon
  <2>3. CASE ~Envelope(s) /\ ~Allocate(s) /\ ~CopyOut(s)
    <3>1. snd'[s].at \in {"idle", "check", "claim", "wait", "envelope", "norptr", "publish"}
      BY <2>3, SenderAfter, Zenon DEF SendStep
    <3>2. snd'[s].at \notin {"alloc", "rollback", "copy", "notinline"} BY <3>1
    <3> QED BY <3>2, Zenon
  <2> QED BY <2>1, <2>2, <2>3, Zenon
<1>4. snd'[s].at \in {"alloc", "rollback", "copy", "notinline"} => snd'[s].pages > 0
  BY <1>1, <1>3 DEF Paged
<1> QED BY <1>2, <1>4, Zenon DEF Paged

\* Until an allocation crosses a failed one, the offset never falls below the
\* start of the pool and every buffer begins in it.
PoolSound ==
  /\ Paged
  /\ ~crossed => /\ 0 <= alloc_offset
                 /\ \A s \in Senders : snd[s].at = "rollback" => 0 <= alloc_offset - snd[s].pages
                 /\ \A g \in granted : 0 <= g.from /\ g.from < g.to

\* Every step of a sender keeps the pool sound: a failed allocation takes back
\* what it added and no more.
LEMMA SoundKept ==
  ASSUME MailInv, PoolSound, NEW s \in Senders, SendStep(s)
  PROVE  PoolSound'
<1>1. /\ MailTypes /\ PoolInv /\ Paged /\ snd[s] \in SendTypes /\ snd[s].pages \in Nat /\ alloc_offset \in Int
  BY Zenon DEF MailInv, MailTypes, SendTypes, PoolSound
<1>2. \A u \in Senders : u # s => snd'[u] = snd[u]
  BY <1>1, SenderShape, Zenon DEF MailTypes
<1>3. Paged' BY <1>1, PagedKept, Zenon
<1>4. SUFFICES ASSUME ~crossed'
               PROVE  /\ 0 <= alloc_offset'
                      /\ \A u \in Senders : snd'[u].at = "rollback" => 0 <= alloc_offset' - snd'[u].pages
                      /\ \A g \in granted' : 0 <= g.from /\ g.from < g.to
  BY <1>3, <1>4, Zenon DEF PoolSound
<1>5. CASE Allocate(s)
  <2> DEFINE k == snd[s].pages
             new == [by |-> Payload(s), from |-> alloc_offset, to |-> alloc_offset + k]
  <2>1. /\ snd[s].at = "alloc" /\ alloc_offset' = alloc_offset + k
        /\ granted' = granted \/ granted' = granted \cup {new}
        /\ snd'[s].pages = k /\ ~crossed /\ RollingBack = {}
    <3>1. snd[s].at = "alloc" /\ snd'[s].pages = k BY <1>1, <1>5, SenderAfter, Zenon
    <3> QED BY <1>4, <1>5, <3>1, Zenon DEF Allocate
  <2>2. k > 0 /\ 0 <= alloc_offset BY <1>1, <2>1, Zenon DEF Paged, PoolSound
  <2>3. \A u \in Senders : snd'[u].at = "rollback" => u = s BY <1>2, <2>1, Zenon DEF RollingBack
  <2>4. 0 <= alloc_offset' /\ 0 <= alloc_offset' - k /\ alloc_offset < alloc_offset + k BY <1>1, <2>1, <2>2
  <2>5. 0 <= new.from /\ new.from < new.to
    <3>1. new.from = alloc_offset /\ new.to = alloc_offset + k BY Zenon
    <3> HIDE DEF new, k
    <3> QED BY <2>2, <2>4, <3>1, Zenon
  <2> HIDE DEF new, k
  <2>6. \A g \in granted' : 0 <= g.from /\ g.from < g.to BY <2>1, <2>5, Zenon DEF PoolSound
  <2>7. \A u \in Senders : snd'[u].at = "rollback" => 0 <= alloc_offset' - snd'[u].pages
    BY <2>1, <2>3, <2>4, Zenon
  <2> QED BY <2>4, <2>6, <2>7, Zenon
<1>6. CASE RollBack(s)
  <2>1. /\ snd[s].at = "rollback" /\ alloc_offset' = alloc_offset - snd[s].pages
        /\ granted' = granted /\ crossed' = crossed
    BY <1>6, Zenon DEF RollBack
  <2>2. ~crossed BY <1>4, <2>1, Zenon
  <2>3. 0 <= alloc_offset' /\ \A g \in granted' : 0 <= g.from /\ g.from < g.to BY <2>1, <2>2, Zenon DEF PoolSound
  <2>4. \A u \in Senders : snd'[u].at # "rollback"
    <3>1. snd'[s].at = "idle" BY <1>1, <1>6, SenderAfter, Zenon
    <3>2. snd'[s].at # "rollback" BY <3>1
    <3>3. \A u \in Senders : snd[u].at = "rollback" => u = s BY <1>1, <2>1, <2>2, Zenon DEF PoolInv
    <3> QED BY <1>2, <3>2, <3>3, Zenon
  <2> QED BY <2>3, <2>4, Zenon
<1>7. CASE ~Allocate(s) /\ ~RollBack(s)
  <2>1. UNCHANGED <<alloc_offset, granted, crossed>>
    BY <1>7, Zenon DEF SendStep, SendTail, SendCheck, SendClaim, SlotEmpty, SlotTimeout, Envelope, InlineData,
                InlineRptr, CopyOut, NotInline, Publish
  <2>2. snd'[s].at # "rollback"
    <3>1. snd'[s].at \in {"idle", "check", "claim", "wait", "envelope", "inline", "alloc", "norptr",
                          "notinline", "publish"}
      BY <1>1, <1>7, SenderAfter, Zenon DEF SendStep
    <3> QED BY <3>1
  <2>3. ~crossed BY <1>4, <2>1, Zenon
  <2> QED BY <1>2, <2>1, <2>2, <2>3, Zenon DEF PoolSound
<1> QED BY <1>5, <1>6, <1>7, Zenon

\* At first the pool is empty.
LEMMA SoundInit ==
  ASSUME MailInit PROVE PoolSound
<1>1. \A s \in Senders : snd[s].at = "idle" BY Zenon DEF MailInit, NoSend
<1>2. \A s \in Senders : snd[s].at \notin {"alloc", "rollback", "copy", "notinline"} /\ snd[s].at # "rollback"
  BY <1>1
<1>3. granted = {} /\ alloc_offset = 0 BY Zenon DEF MailInit
<1>4. 0 <= alloc_offset BY <1>3
<1> QED BY <1>2, <1>3, <1>4, Zenon DEF PoolSound, Paged

\* Every step keeps the pool sound.
LEMMA SoundInductive ==
  ASSUME MailInv, PoolSound, [MailNext]_mailVars PROVE PoolSound'
<1>1. CASE \E s \in Senders : SendStep(s) BY <1>1, SoundKept, Zenon
<1>2. CASE UNCHANGED <<snd, alloc_offset, granted, crossed>> BY <1>2, Zenon DEF PoolSound, Paged
<1>3. \/ \E s \in Senders : SendStep(s)
      \/ UNCHANGED <<snd, alloc_offset, granted, crossed>>
  BY Zenon DEF MailNext, RecvTail, RecvHead, RecvScan, RecvCopy, RecvConsume, RecvAdvance, Deactivate, mailVars
<1> QED BY <1>1, <1>2, <1>3, Zenon

\* A sender from the index it claims to the end of cxl_send.
Claimed == {"wait", "envelope", "inline", "norptr", "alloc", "rollback", "copy", "notinline", "publish"}
Writing(s) == snd[s].at \in Claimed

\* The indices from the tail, as far as the owner has moved it, to the head.
Low == IF rcv.at = "advance" THEN rcv.tail ELSE box_tail
Live == Low .. (box_head - 1)
Msg(i) == msgs[SlotOf(i)]

\* A claimed index is live and its slot is empty until it is published, no two
\* senders have the same, and a slot that is not empty belongs to a live index.
SlotsOwned ==
  /\ \A s \in Senders : Writing(s) => snd[s].head \in Live /\ Msg(snd[s].head).state = "EMPTY"
  /\ \A s, t \in Senders : Writing(s) /\ Writing(t) /\ snd[s].head = snd[t].head => s = t
  /\ \A k \in MsgSlots : msgs[k].state # "EMPTY" => \E i \in Live : k = SlotOf(i)

\* The owner reads one slot, inside what it scans.
OwnerReads ==
  /\ rcv.at \in {"head", "scan", "copy", "consume"} => rcv.tail = box_tail
  /\ rcv.at \in {"scan", "copy", "consume"} => rcv.tail <= rcv.i /\ rcv.i <= rcv.head
  /\ rcv.at \in {"copy", "consume"} => rcv.i < rcv.head /\ Msg(rcv.i).state = "READING"
  /\ \A k \in MsgSlots : msgs[k].state = "READING" => rcv.at \in {"copy", "consume"} /\ k = SlotOf(rcv.i)

\* A consumed message is never the one the tail is at, except while it moves.
TailIsLive ==
  /\ rcv.at \in {"scan", "copy", "consume", "advance"} =>
       \A i \in Live : Msg(i).state = "CONSUMED" => i < rcv.head
  /\ rcv.at # "advance" /\ box_tail < box_head => Msg(box_tail).state # "CONSUMED"

\* An empty slot of a live index is being written, if no send has given up.
NoIndexLost ==
  ~holes => \A i \in Live : Msg(i).state = "EMPTY" => \E s \in Senders : Writing(s) /\ snd[s].head = i

\* The sends of a rank are numbered.
Numbered ==
  /\ published \subseteq Senders \X Nat
  /\ \A p \in published : p[2] <= snd[p[1]].n /\ (snd[p[1]].at # "idle" => p[2] < snd[p[1]].n)

\* The messages cxl_recv has still to copy.
Unread == {k \in MsgSlots : msgs[k].state = "READY" \/ (msgs[k].state = "READING" /\ rcv.at = "copy")}

SlotsInv == SlotsOwned /\ OwnerReads /\ TailIsLive /\ NoIndexLost /\ Numbered

\* An index has one of the slots of the mailbox.
LEMMA SlotInRange ==
  ASSUME NEW i \in Nat PROVE SlotOf(i) \in MsgSlots
BY MailAssumption DEF SlotOf, MsgSlots

\* No two indices that are less than the queue apart share a slot.
LEMMA SlotInjective ==
  ASSUME NEW t \in Nat, NEW h \in Nat, h - t <= QueueSize,
         NEW i \in t .. (h - 1), NEW j \in t .. (h - 1), SlotOf(i) = SlotOf(j)
  PROVE  i = j
<1>1. QueueSize \in Nat /\ QueueSize > 0 /\ i \in Nat /\ j \in Nat BY MailAssumption
<1>2. ASSUME NEW x \in Nat, NEW y \in Nat, x < y, y - x < QueueSize, x % QueueSize = y % QueueSize PROVE FALSE
  <2> DEFINE r == x % QueueSize
             a == x \div QueueSize
             b == y \div QueueSize
  <2>1. r \in Nat /\ a \in Nat /\ b \in Nat /\ x = QueueSize * a + r BY <1>1
  <2>2. y = QueueSize * b + r BY <1>1, <1>2
  <2> HIDE DEF r, a, b
  <2>3. QueueSize * a \in Nat /\ QueueSize * b \in Nat BY <1>1, <2>1
  <2>4. CASE a < b
    <3>1. PICK d \in Nat : b = a + 1 + d
      <4>1. b - a - 1 \in Nat /\ b = a + 1 + (b - a - 1) BY <2>1, <2>4
      <4> QED BY <4>1, Zenon
    <3>2. QueueSize * b = QueueSize * a + QueueSize + QueueSize * d BY <1>1, <2>1, <3>1
    <3>3. QueueSize * d \in Nat BY <1>1, <3>1
    <3> QED BY <1>1, <1>2, <2>1, <2>2, <2>3, <3>2, <3>3
  <2>5. CASE ~(a < b)
    <3>1. PICK d \in Nat : a = b + d
      <4>1. a - b \in Nat /\ a = b + (a - b) BY <2>1, <2>5
      <4> QED BY <4>1, Zenon
    <3>2. QueueSize * a = QueueSize * b + QueueSize * d BY <1>1, <2>1, <3>1
    <3>3. QueueSize * d \in Nat BY <1>1, <3>1
    <3> QED BY <1>1, <1>2, <2>1, <2>2, <2>3, <3>2, <3>3
  <2> QED BY <2>4, <2>5, Zenon
<1>3. i % QueueSize = j % QueueSize BY Zenon DEF SlotOf
<1>4. ~(i < j)
  <2>1. i < j => j - i < QueueSize BY <1>1
  <2> QED BY <1>1, <1>2, <1>3, <2>1, Zenon
<1>5. ~(j < i)
  <2>1. j < i => i - j < QueueSize BY <1>1
  <2> QED BY <1>1, <1>2, <1>3, <2>1, Zenon
<1> QED BY <1>1, <1>4, <1>5

\* The live indices have slots of their own.
LEMMA LiveFacts ==
  ASSUME MailInv
  PROVE  /\ box_tail \in Nat /\ box_head \in Nat /\ Low \in Nat /\ box_tail <= Low /\ Low <= box_head
         /\ \A i : i \in Live <=> i \in Nat /\ Low <= i /\ i < box_head
         /\ \A i \in Live : SlotOf(i) \in MsgSlots
         /\ ~overtaken => \A i, j \in Live : SlotOf(i) = SlotOf(j) => i = j
<1>1. /\ box_tail \in Nat /\ box_head \in Nat /\ rcv.tail \in Nat /\ rcv.tail <= box_head /\ box_tail <= box_head
      /\ rcv.at # "idle" => box_tail <= rcv.tail
  BY Zenon DEF MailInv, MailTypes, RecvTypes, OwnerLags
<1>2. Low \in Nat /\ box_tail <= Low /\ Low <= box_head BY <1>1 DEF Low
<1>3. \A i : i \in Live <=> i \in Nat /\ Low <= i /\ i < box_head BY <1>1, <1>2 DEF Live
<1>4. \A i \in Live : SlotOf(i) \in MsgSlots BY <1>3, SlotInRange, Zenon
<1>5. ASSUME ~overtaken, NEW i \in Live, NEW j \in Live, SlotOf(i) = SlotOf(j) PROVE i = j
  <2>1. box_head - box_tail <= QueueSize BY <1>5, Zenon DEF MailInv, RoomWasFound
  <2>2. i \in box_tail .. (box_head - 1) /\ j \in box_tail .. (box_head - 1) BY <1>1, <1>2, <1>3
  <2> QED BY <1>1, <1>5, <2>1, <2>2, SlotInjective, Zenon
<1> QED BY <1>1, <1>2, <1>3, <1>4, <1>5, Zenon

LiveOK ==
  /\ \A i : i \in Live <=> i \in Nat /\ Low <= i /\ i < box_head
  /\ \A i \in Live : SlotOf(i) \in MsgSlots
  /\ ~overtaken => \A i, j \in Live : SlotOf(i) = SlotOf(j) => i = j

\* The same after a step.
LEMMA LiveNext == MailInv' => LiveOK'
<1>1. MailInv => LiveOK BY LiveFacts, Zenon DEF LiveOK
<1> QED BY <1>1, PTL

\* What a step of a sender leaves alone.
LEMMA SenderLeaves ==
  ASSUME MailTypes, NEW s \in Senders, SendStep(s)
  PROVE  /\ UNCHANGED <<rcv, got, box_tail>>
         /\ \A u \in Senders : u # s => snd'[u] = snd[u]
         /\ \A k \in MsgSlots : k # Slot(s) => msgs'[k] = msgs[k]
         /\ ~Publish(s) => published' = published /\ \A k \in MsgSlots : msgs'[k].state = msgs[k].state
         /\ ~SendClaim(s) => box_head' = box_head /\ overtaken' = overtaken
         /\ ~RollBack(s) /\ ~SlotTimeout(s) => holes' = holes
<1>1. UNCHANGED <<rcv, got, box_tail>>
  BY Zenon DEF SendStep, SendTail, SendCheck, SendClaim, SlotEmpty, SlotTimeout, Envelope, InlineData, InlineRptr,
         Allocate, RollBack, CopyOut, NotInline, Publish
<1>2. \A u \in Senders : u # s => snd'[u] = snd[u]
  BY SenderShape, Zenon DEF MailTypes
<1>3. msgs \in [MsgSlots -> SlotTypes] BY Zenon DEF MailTypes
<1>4. \/ msgs' = msgs
      \/ \E m : msgs' = [msgs EXCEPT ![Slot(s)] = m]
  BY Zenon DEF SendStep, SendTail, SendCheck, SendClaim, SlotEmpty, SlotTimeout, Envelope, InlineData, InlineRptr,
         Allocate, RollBack, CopyOut, NotInline, Publish
<1>5. \A k \in MsgSlots : k # Slot(s) => msgs'[k] = msgs[k] BY <1>3, <1>4, Zenon
<1>6. ASSUME ~Publish(s) PROVE published' = published /\ \A k \in MsgSlots : msgs'[k].state = msgs[k].state
  <2>1. published' = published
    BY <1>6, Zenon DEF SendStep, SendTail, SendCheck, SendClaim, SlotEmpty, SlotTimeout, Envelope, InlineData,
           InlineRptr, Allocate, RollBack, CopyOut, NotInline
  <2>2. ASSUME NEW k \in MsgSlots, k = Slot(s) PROVE msgs'[k].state = msgs[k].state
    <3>1. msgs[k] \in SlotTypes BY <1>3, Zenon
    <3>2. CASE msgs' = msgs BY <3>2, Zenon
    <3>3. CASE Envelope(s)
      <4>1. msgs' = [msgs EXCEPT ![Slot(s)] = [msgs[Slot(s)] EXCEPT !.src = s, !.tag = snd[s].tag]]
        BY <3>3, Zenon DEF Envelope
      <4> QED BY <1>3, <2>2, <3>1, <4>1, Zenon DEF SlotTypes
    <3>4. CASE InlineData(s)
      <4>1. msgs' = [msgs EXCEPT ![Slot(s)] = [msgs[Slot(s)] EXCEPT !.data = Payload(s), !.inlined = TRUE]]
        BY <3>4, Zenon DEF InlineData
      <4> QED BY <1>3, <2>2, <3>1, <4>1, Zenon DEF SlotTypes
    <3>5. CASE InlineRptr(s) \/ CopyOut(s)
      <4>1. PICK x : msgs' = [msgs EXCEPT ![Slot(s)].rptr = x] BY <3>5, Zenon DEF InlineRptr, CopyOut
      <4> QED BY <1>3, <2>2, <3>1, <4>1, Zenon DEF SlotTypes
    <3>6. CASE NotInline(s)
      <4>1. msgs' = [msgs EXCEPT ![Slot(s)].inlined = FALSE] BY <3>6, Zenon DEF NotInline
      <4> QED BY <1>3, <2>2, <3>1, <4>1, Zenon DEF SlotTypes
    <3> QED BY <1>6, <3>2, <3>3, <3>4, <3>5, <3>6, Zenon
            DEF SendStep, SendTail, SendCheck, SendClaim, SlotEmpty, SlotTimeout, Allocate, RollBack
  <2> QED BY <1>5, <2>1, <2>2, Zenon
<1>7. ~SendClaim(s) => box_head' = box_head /\ overtaken' = overtaken
  BY Zenon DEF SendStep, SendTail, SendCheck, SlotEmpty, SlotTimeout, Envelope, InlineData, InlineRptr,
         Allocate, RollBack, CopyOut, NotInline, Publish
<1>8. ~RollBack(s) /\ ~SlotTimeout(s) => holes' = holes
  BY Zenon DEF SendStep, SendTail, SendCheck, SendClaim, SlotEmpty, Envelope, InlineData, InlineRptr,
         Allocate, CopyOut, NotInline, Publish
<1> QED BY <1>1, <1>2, <1>5, <1>6, <1>7, <1>8, Zenon

\* Whether a sender has an index, before and after its step.
LEMMA SenderIndex ==
  ASSUME MailTypes, NEW s \in Senders, SendStep(s)
  PROVE  /\ SendClaim(s) => ~Writing(s) /\ snd'[s].at \in Claimed
         /\ SlotTimeout(s) \/ RollBack(s) \/ Publish(s) => Writing(s) /\ ~(snd'[s].at \in Claimed)
         /\ ~SendClaim(s) /\ ~SlotTimeout(s) /\ ~RollBack(s) /\ ~Publish(s) =>
              /\ snd'[s].at \in Claimed <=> Writing(s)
              /\ Writing(s) => snd'[s].head = snd[s].head
         /\ (snd'[s].n = snd[s].n /\ snd[s].at # "idle") \/ snd'[s].n = snd[s].n + 1
<1>1. CASE SendTail(s) BY <1>1, SenderAfter DEF Writing, Claimed, SendClaim, SlotTimeout, RollBack, Publish
<1>2. CASE SendCheck(s) BY <1>2, SenderAfter DEF Writing, Claimed, SendClaim, SlotTimeout, RollBack, Publish
<1>3. CASE SendClaim(s) BY <1>3, SenderAfter DEF Writing, Claimed, SlotTimeout, RollBack, Publish
<1>4. CASE SlotTimeout(s) BY <1>4, SenderAfter DEF Writing, Claimed, SendClaim
<1>5. CASE RollBack(s) BY <1>5, SenderAfter DEF Writing, Claimed, SendClaim
<1>6. CASE Publish(s) BY <1>6, SenderAfter DEF Writing, Claimed, SendClaim
<1>7. CASE \/ SlotEmpty(s) \/ Envelope(s) \/ InlineData(s) \/ InlineRptr(s) \/ Allocate(s) \/ CopyOut(s)
           \/ NotInline(s)
  <2>1. /\ snd[s].at \in {"wait", "envelope", "inline", "norptr", "alloc", "copy", "notinline"}
        /\ snd'[s].at \in {"envelope", "inline", "alloc", "norptr", "publish", "copy", "rollback", "notinline"}
        /\ snd'[s].head = snd[s].head /\ snd'[s].n = snd[s].n
    BY <1>7, SenderAfter, Zenon
  <2>2. ~SendClaim(s) /\ (SlotTimeout(s) \/ RollBack(s) \/ Publish(s) => Writing(s) /\ ~(snd'[s].at \in Claimed))
    <3>1. ~SendClaim(s) BY <2>1 DEF SendClaim
    <3>2. SlotTimeout(s) \/ RollBack(s) \/ Publish(s) => snd'[s].at = "idle" BY SenderAfter, Zenon
    <3> QED BY <2>1, <3>1, <3>2
  <2>3. Writing(s) /\ snd'[s].at \in Claimed /\ snd[s].at # "idle" BY <2>1 DEF Writing, Claimed
  <2> QED BY <2>1, <2>2, <2>3, Zenon
<1> QED BY <1>1, <1>2, <1>3, <1>4, <1>5, <1>6, <1>7, Zenon DEF SendStep

\* Every step of a sender keeps the numbering: a send has a number that none
\* before it has.
LEMMA NumberedKept ==
  ASSUME MailTypes, Numbered, NEW s \in Senders, SendStep(s) PROVE Numbered'
<1>1. snd[s] \in SendTypes /\ snd[s].n \in Nat BY Zenon DEF MailTypes, SendTypes
<1>2. \A u \in Senders : u # s => snd'[u] = snd[u] BY SenderLeaves, Zenon
<1>3. Payload(s) \in Senders \X Nat /\ Payload(s)[1] = s /\ Payload(s)[2] = snd[s].n
  BY <1>1 DEF Payload
<1>4. published' \subseteq published \cup {Payload(s)} /\ (~Publish(s) => published' = published)
  BY SenderLeaves, Zenon DEF Publish
<1>5. ASSUME NEW p \in published PROVE p[2] <= snd'[p[1]].n /\ (snd'[p[1]].at # "idle" => p[2] < snd'[p[1]].n)
  <2>1. /\ p[1] \in Senders /\ p[2] \in Nat
        /\ p[2] <= snd[p[1]].n /\ (snd[p[1]].at # "idle" => p[2] < snd[p[1]].n)
    BY Zenon DEF Numbered
  <2>2. CASE p[1] # s BY <1>2, <2>1, <2>2, Zenon
  <2>3. CASE p[1] = s
    <3>1. (snd'[s].n = snd[s].n /\ snd[s].at # "idle") \/ snd'[s].n = snd[s].n + 1 BY SenderIndex, Zenon
    <3>2. p[2] <= snd[s].n /\ (snd[s].at # "idle" => p[2] < snd[s].n) BY <2>1, <2>3, Zenon
    <3>3. p[2] < snd'[s].n BY <1>1, <2>1, <3>1, <3>2
    <3>4. p[2] <= snd'[s].n BY <1>1, <2>1, <3>1, <3>2
    <3> QED BY <2>3, <3>3, <3>4, Zenon
  <2> QED BY <2>2, <2>3, Zenon
<1>6. CASE Publish(s)
  <2>1. snd'[s].at = "idle" /\ snd'[s].n = snd[s].n BY <1>6, SenderAfter, Zenon
  <2>2. snd[s].n <= snd[s].n BY <1>1
  <2>3. Payload(s)[2] <= snd'[Payload(s)[1]].n /\ snd'[Payload(s)[1]].at = "idle"
    BY <1>3, <2>1, <2>2, Zenon
  <2>4. published \subseteq Senders \X Nat BY Zenon DEF Numbered
  <2> QED BY <1>3, <1>4, <1>5, <2>3, <2>4, Zenon DEF Numbered
<1>7. CASE ~Publish(s)
  <2>1. published' = published BY <1>4, <1>7, Zenon
  <2> QED BY <1>5, <2>1, Zenon DEF Numbered
<1> QED BY <1>6, <1>7, Zenon

\* The spin on a claimed slot does not time out: the slot is empty.
LEMMA NoTimeout ==
  ASSUME SlotsOwned, NEW s \in Senders PROVE ~SlotTimeout(s)
<1> SUFFICES ASSUME SlotTimeout(s) PROVE FALSE OBVIOUS
<1>1. snd[s].at = "wait" /\ msgs[Slot(s)].state # "EMPTY" BY Zenon DEF SlotTimeout
<1>2. Writing(s) BY <1>1 DEF Writing, Claimed
<1> QED BY <1>1, <1>2, Zenon DEF SlotsOwned, Msg, Slot

\* A step of a sender that claims, publishes and gives up nothing leaves the
\* slots to those that had them.
LEMMA QuietKeepsSlots ==
  ASSUME MailInv, SlotsInv, NEW s \in Senders, SendStep(s),
         ~SendClaim(s), ~RollBack(s), ~Publish(s), ~SlotTimeout(s)
  PROVE  SlotsOwned' /\ OwnerReads' /\ TailIsLive' /\ NoIndexLost'
<1>1. MailTypes /\ SlotsOwned /\ OwnerReads /\ TailIsLive /\ NoIndexLost BY Zenon DEF MailInv, SlotsInv
<1>2. /\ UNCHANGED <<rcv, got, box_tail, box_head, published, holes>>
      /\ \A k \in MsgSlots : msgs'[k].state = msgs[k].state
  BY <1>1, SenderLeaves, Zenon
<1>3. \A u \in Senders : (snd'[u].at \in Claimed <=> Writing(u)) /\ (Writing(u) => snd'[u].head = snd[u].head)
  <2>1. \A u \in Senders : u # s => snd'[u] = snd[u] BY <1>1, SenderLeaves, Zenon
  <2>2. (snd'[s].at \in Claimed <=> Writing(s)) /\ (Writing(s) => snd'[s].head = snd[s].head)
    BY <1>1, SenderIndex, Zenon
  <2> QED BY <2>1, <2>2, Zenon DEF Writing
<1>4. Live' = Live BY <1>2, Zenon DEF Live, Low
<1>5. \A i \in Live : SlotOf(i) \in MsgSlots BY LiveFacts, Zenon
<1>6. SlotsOwned'
  <2>1. \A u \in Senders : snd'[u].at \in Claimed =>
          snd'[u].head \in Live /\ msgs'[SlotOf(snd'[u].head)].state = "EMPTY"
    BY <1>1, <1>2, <1>3, <1>5, Zenon DEF SlotsOwned, Msg
  <2>2. \A u, t \in Senders : snd'[u].at \in Claimed /\ snd'[t].at \in Claimed /\ snd'[u].head = snd'[t].head => u = t
    BY <1>1, <1>3, Zenon DEF SlotsOwned
  <2>3. \A k \in MsgSlots : msgs'[k].state # "EMPTY" => \E i \in Live : k = SlotOf(i)
    BY <1>1, <1>2, Zenon DEF SlotsOwned
  <2> QED BY <1>4, <2>1, <2>2, <2>3, Zenon DEF SlotsOwned, Writing, Msg
<1>7. OwnerReads'
  <2>1. rcv.at \in {"copy", "consume"} => SlotOf(rcv.i) \in MsgSlots
    <3>1. rcv.i \in Nat BY <1>1, Zenon DEF MailTypes, RecvTypes
    <3> QED BY <3>1, SlotInRange, Zenon
  <2> QED BY <1>1, <1>2, <2>1, Zenon DEF OwnerReads, Msg
<1>8. TailIsLive'
  <2>1. SlotOf(box_tail) \in MsgSlots BY LiveFacts, SlotInRange, Zenon
  <2> QED BY <1>1, <1>2, <1>4, <1>5, <2>1, Zenon DEF TailIsLive, Msg
<1>9. NoIndexLost'
  <2>1. ASSUME ~holes, NEW i \in Live, msgs'[SlotOf(i)].state = "EMPTY"
        PROVE  \E u \in Senders : snd'[u].at \in Claimed /\ snd'[u].head = i
    BY <1>1, <1>2, <1>3, <1>5, <2>1, Zenon DEF NoIndexLost, Msg
  <2> QED BY <1>2, <1>4, <2>1, Zenon DEF NoIndexLost, Msg, Writing
<1> QED BY <1>6, <1>7, <1>8, <1>9, Zenon

\* A claim takes an index whose slot is empty: the one that had the slot before
\* is behind the tail.
LEMMA ClaimKeepsSlots ==
  ASSUME MailInv, MailInv', ~overtaken', SlotsInv, NEW s \in Senders, SendStep(s), SendClaim(s)
  PROVE  SlotsOwned' /\ OwnerReads' /\ TailIsLive' /\ NoIndexLost'
<1>1. MailTypes /\ SlotsOwned /\ OwnerReads /\ TailIsLive /\ NoIndexLost BY Zenon DEF MailInv, SlotsInv
<1>2. /\ UNCHANGED <<rcv, got, box_tail, published, holes, msgs>>
      /\ box_head' = box_head + 1 /\ snd'[s].head = box_head
      /\ ~Writing(s) /\ snd'[s].at \in Claimed
      /\ \A u \in Senders : u # s => snd'[u] = snd[u]
  BY <1>1, SenderLeaves, SenderIndex, SenderAfter, Zenon DEF SendClaim
<1>3. Low' = Low BY <1>2, Zenon DEF Low
<1>4. /\ \A i : i \in Live <=> i \in Nat /\ Low <= i /\ i < box_head
      /\ box_head \in Nat /\ Low \in Nat /\ Low <= box_head /\ box_tail \in Nat /\ box_tail <= Low
  BY LiveFacts, Zenon
<1>5. /\ \A i : i \in Live' <=> i \in Nat /\ Low' <= i /\ i < box_head'
      /\ \A i \in Live' : SlotOf(i) \in MsgSlots
      /\ \A i, j \in Live' : SlotOf(i) = SlotOf(j) => i = j
  BY LiveNext, Zenon DEF LiveOK
<1>6. /\ \A i \in Live : i \in Live' /\ i # box_head
      /\ box_head \in Live'
      /\ \A i \in Live' : i \in Live \/ i = box_head
  BY <1>2, <1>3, <1>4, <1>5
<1>7. Msg(box_head).state = "EMPTY"
  <2> SUFFICES ASSUME msgs[SlotOf(box_head)].state # "EMPTY" PROVE FALSE BY Zenon DEF Msg
  <2>1. SlotOf(box_head) \in MsgSlots BY <1>5, <1>6, Zenon
  <2>2. PICK i \in Live : SlotOf(box_head) = SlotOf(i) BY <1>1, <2>1, Zenon DEF SlotsOwned
  <2> QED BY <1>5, <1>6, <2>2, Zenon
<1>8. SlotsOwned'
  <2>1. \A u \in Senders : snd'[u].at \in Claimed =>
          snd'[u].head \in Live' /\ msgs[SlotOf(snd'[u].head)].state = "EMPTY"
    BY <1>1, <1>2, <1>6, <1>7, Zenon DEF SlotsOwned, Msg, Writing
  <2>2. \A u, t \in Senders : snd'[u].at \in Claimed /\ snd'[t].at \in Claimed /\ snd'[u].head = snd'[t].head => u = t
    BY <1>1, <1>2, <1>6, Zenon DEF SlotsOwned, Writing
  <2>3. \A k \in MsgSlots : msgs[k].state # "EMPTY" => \E i \in Live' : k = SlotOf(i)
    BY <1>1, <1>6, Zenon DEF SlotsOwned
  <2> QED BY <1>2, <2>1, <2>2, <2>3, Zenon DEF SlotsOwned, Writing, Msg
<1>9. OwnerReads' BY <1>1, <1>2, Zenon DEF OwnerReads, Msg
<1>10. TailIsLive'
  <2>0. Msg(box_head).state # "CONSUMED" BY <1>7
  <2>1. rcv.at \in {"scan", "copy", "consume", "advance"} =>
          \A i \in Live' : Msg(i).state = "CONSUMED" => i < rcv.head
    BY <1>1, <1>6, <2>0, Zenon DEF TailIsLive
  <2>2. box_tail < box_head \/ box_tail = box_head BY <1>4
  <2>3. rcv.at # "advance" => Msg(box_tail).state # "CONSUMED"
    BY <1>1, <2>0, <2>2, Zenon DEF TailIsLive
  <2> QED BY <1>2, <2>1, <2>3, Zenon DEF TailIsLive, Msg
<1>11. NoIndexLost'
  <2>1. ASSUME ~holes, NEW i \in Live', Msg(i).state = "EMPTY"
        PROVE  \E u \in Senders : snd'[u].at \in Claimed /\ snd'[u].head = i
    <3>1. CASE i = box_head BY <1>2, <3>1, Zenon
    <3>2. CASE i \in Live
      <4>1. PICK u \in Senders : Writing(u) /\ snd[u].head = i BY <1>1, <2>1, <3>2, Zenon DEF NoIndexLost
      <4> QED BY <1>2, <4>1, Zenon DEF Writing
    <3> QED BY <1>6, <3>1, <3>2, Zenon
  <2> QED BY <1>2, <2>1, Zenon DEF NoIndexLost, Msg, Writing
<1> QED BY <1>8, <1>9, <1>10, <1>11, Zenon

\* An allocation that failed leaves its index without a sender.
LEMMA RollBackKeepsSlots ==
  ASSUME MailInv, SlotsInv, NEW s \in Senders, SendStep(s), RollBack(s)
  PROVE  SlotsOwned' /\ OwnerReads' /\ TailIsLive' /\ NoIndexLost'
<1>1. MailTypes /\ SlotsOwned /\ OwnerReads /\ TailIsLive /\ NoIndexLost BY Zenon DEF MailInv, SlotsInv
<1>2. /\ UNCHANGED <<rcv, got, box_tail, box_head, published, msgs>> /\ holes' = TRUE
      /\ ~(snd'[s].at \in Claimed)
      /\ \A u \in Senders : u # s => snd'[u] = snd[u]
  BY <1>1, SenderLeaves, SenderIndex, Zenon DEF RollBack
<1>3. Live' = Live BY <1>2, Zenon DEF Live, Low
<1>4. SlotsOwned' BY <1>1, <1>2, <1>3, Zenon DEF SlotsOwned, Writing, Msg
<1>5. OwnerReads' BY <1>1, <1>2, Zenon DEF OwnerReads, Msg
<1>6. TailIsLive' BY <1>1, <1>2, <1>3, Zenon DEF TailIsLive, Msg
<1>7. NoIndexLost' BY <1>2, Zenon DEF NoIndexLost
<1> QED BY <1>4, <1>5, <1>6, <1>7, Zenon

\* Publishing turns the empty slot of the sender into a message to read.
LEMMA PublishKeepsSlots ==
  ASSUME MailInv, ~overtaken, SlotsInv, NEW s \in Senders, SendStep(s), Publish(s)
  PROVE  SlotsOwned' /\ OwnerReads' /\ TailIsLive' /\ NoIndexLost'
<1>1. MailTypes /\ SlotsOwned /\ OwnerReads /\ TailIsLive /\ NoIndexLost /\ Numbered
  BY Zenon DEF MailInv, SlotsInv
<1> DEFINE z == Slot(s)
<1>2. /\ UNCHANGED <<rcv, got, box_tail, box_head, holes>> /\ published' = published \cup {Payload(s)}
      /\ Writing(s) /\ ~(snd'[s].at \in Claimed)
      /\ \A u \in Senders : u # s => snd'[u] = snd[u]
      /\ \A k \in MsgSlots : k # z => msgs'[k] = msgs[k]
  <2>1. ~SendClaim(s) /\ ~RollBack(s) /\ ~SlotTimeout(s) BY DEF Publish, SendClaim, RollBack, SlotTimeout
  <2> QED BY <1>1, <2>1, SenderLeaves, SenderIndex, Zenon DEF Publish
<1>3. Live' = Live BY <1>2, Zenon DEF Live, Low
<1>4. /\ \A i \in Live : SlotOf(i) \in MsgSlots
      /\ \A i, j \in Live : SlotOf(i) = SlotOf(j) => i = j
  BY LiveFacts, Zenon
<1>5. z = SlotOf(snd[s].head) /\ snd[s].head \in Live /\ z \in MsgSlots /\ msgs[z].state = "EMPTY"
  BY <1>1, <1>2, <1>4, Zenon DEF SlotsOwned, Slot, Msg
<1>6. msgs'[z].state = "READY"
  <2>1. msgs[z] \in SlotTypes /\ msgs \in [MsgSlots -> SlotTypes] BY <1>1, <1>5, Zenon DEF MailTypes
  <2>2. msgs' = [msgs EXCEPT ![z] = [msgs[z] EXCEPT !.state = "READY"]] BY Zenon DEF Publish
  <2> HIDE DEF z
  <2> QED BY <1>5, <2>1, <2>2, Zenon DEF SlotTypes
<1> HIDE DEF z
<1>7. \A k \in MsgSlots : /\ msgs'[k].state = "READING" <=> msgs[k].state = "READING"
                          /\ msgs'[k].state = "CONSUMED" <=> msgs[k].state = "CONSUMED"
                          /\ msgs'[k].state = "EMPTY" <=> msgs[k].state = "EMPTY" /\ k # z
  <2> SUFFICES ASSUME NEW k \in MsgSlots
               PROVE  /\ msgs'[k].state = "READING" <=> msgs[k].state = "READING"
                      /\ msgs'[k].state = "CONSUMED" <=> msgs[k].state = "CONSUMED"
                      /\ msgs'[k].state = "EMPTY" <=> msgs[k].state = "EMPTY" /\ k # z
    OBVIOUS
  <2>1. CASE k = z BY <1>5, <1>6, <2>1
  <2>2. CASE k # z BY <1>2, <2>2, Zenon
  <2> QED BY <2>1, <2>2, Zenon
<1>8. SlotsOwned'
  <2>1. ASSUME NEW u \in Senders, snd'[u].at \in Claimed
        PROVE  snd'[u].head \in Live /\ msgs'[SlotOf(snd'[u].head)].state = "EMPTY"
    <3>1. u # s /\ snd'[u] = snd[u] /\ Writing(u) BY <1>2, <2>1, Zenon DEF Writing
    <3>2. snd[u].head \in Live /\ msgs[SlotOf(snd[u].head)].state = "EMPTY" /\ snd[u].head # snd[s].head
      BY <1>1, <1>2, <3>1, Zenon DEF SlotsOwned, Msg
    <3>3. SlotOf(snd[u].head) # z /\ SlotOf(snd[u].head) \in MsgSlots BY <1>4, <1>5, <3>2, Zenon
    <3> QED BY <1>7, <3>1, <3>2, <3>3, Zenon
  <2>2. \A u, t \in Senders : snd'[u].at \in Claimed /\ snd'[t].at \in Claimed /\ snd'[u].head = snd'[t].head => u = t
    BY <1>1, <1>2, Zenon DEF SlotsOwned, Writing
  <2>3. \A k \in MsgSlots : msgs'[k].state # "EMPTY" => \E i \in Live : k = SlotOf(i)
    BY <1>1, <1>5, <1>7, Zenon DEF SlotsOwned
  <2> QED BY <1>3, <2>1, <2>2, <2>3, Zenon DEF SlotsOwned, Writing, Msg
<1>9. OwnerReads'
  <2>1. rcv.at \in {"copy", "consume"} => SlotOf(rcv.i) \in MsgSlots
    <3>1. rcv.i \in Nat BY <1>1, Zenon DEF MailTypes, RecvTypes
    <3> QED BY <3>1, SlotInRange, Zenon
  <2> QED BY <1>1, <1>2, <1>7, <2>1, Zenon DEF OwnerReads, Msg
<1>10. TailIsLive'
  <2>1. SlotOf(box_tail) \in MsgSlots BY LiveFacts, SlotInRange, Zenon
  <2> QED BY <1>1, <1>2, <1>3, <1>4, <1>7, <2>1, Zenon DEF TailIsLive, Msg
<1>11. NoIndexLost'
  <2>1. ASSUME ~holes, NEW i \in Live, msgs'[SlotOf(i)].state = "EMPTY"
        PROVE  \E u \in Senders : snd'[u].at \in Claimed /\ snd'[u].head = i
    <3>1. Msg(i).state = "EMPTY" /\ SlotOf(i) # z BY <1>4, <1>7, <2>1, Zenon DEF Msg
    <3>2. PICK u \in Senders : Writing(u) /\ snd[u].head = i BY <1>1, <2>1, <3>1, Zenon DEF NoIndexLost
    <3>3. u # s BY <1>5, <3>1, <3>2, Zenon
    <3> QED BY <1>2, <3>2, <3>3, Zenon DEF Writing
  <2> QED BY <1>2, <1>3, <2>1, Zenon DEF NoIndexLost, Msg, Writing
<1> QED BY <1>8, <1>9, <1>10, <1>11, Zenon

\* Setting the state of one message changes nothing else.
LEMMA StateSet ==
  ASSUME MailTypes, NEW z \in MsgSlots, NEW st, msgs' = [msgs EXCEPT ![z].state = st]
  PROVE  /\ msgs'[z].state = st
         /\ \A k \in MsgSlots : k # z => msgs'[k] = msgs[k]
         /\ \A k \in MsgSlots : /\ msgs'[k].src = msgs[k].src /\ msgs'[k].tag = msgs[k].tag
                                /\ msgs'[k].inlined = msgs[k].inlined /\ msgs'[k].data = msgs[k].data
                                /\ msgs'[k].rptr = msgs[k].rptr
<1>1. msgs \in [MsgSlots -> SlotTypes] /\ msgs[z] \in SlotTypes BY Zenon DEF MailTypes
<1>2. \A k \in MsgSlots : k # z => msgs'[k] = msgs[k] BY <1>1, Zenon
<1>3. /\ msgs'[z].state = st /\ msgs'[z].src = msgs[z].src /\ msgs'[z].tag = msgs[z].tag
      /\ msgs'[z].inlined = msgs[z].inlined /\ msgs'[z].data = msgs[z].data /\ msgs'[z].rptr = msgs[z].rptr
  BY <1>1, Zenon DEF SlotTypes
<1> QED BY <1>2, <1>3, Zenon

\* What a step of the owner leaves alone.
LEMMA OwnerLeaves ==
  ASSUME RecvStep
  PROVE  /\ UNCHANGED <<snd, published, box_head, holes, overtaken, crossed, page, granted>>
         /\ ~RecvCopy => got' = got
         /\ ~RecvAdvance => box_tail' = box_tail
BY Zenon DEF RecvStep, RecvTail, RecvHead, RecvScan, RecvCopy, RecvConsume, RecvAdvance

\* A call that begins, loads the head or ends without a message.
LEMMA LoadsKeepSlots ==
  ASSUME MailInv, SlotsInv, RecvTail \/ RecvHead \/ (RecvScan /\ UNCHANGED msgs)
  PROVE  SlotsOwned' /\ OwnerReads' /\ TailIsLive' /\ NoIndexLost'
<1>1. MailTypes /\ SlotsOwned /\ OwnerReads /\ TailIsLive /\ NoIndexLost BY Zenon DEF MailInv, SlotsInv
<1>2. UNCHANGED <<snd, published, box_head, box_tail, holes, got, msgs>>
  BY Zenon DEF RecvTail, RecvHead, RecvScan
<1>3. rcv \in RecvTypes /\ rcv.tail \in Nat /\ rcv.head \in Nat /\ rcv.i \in Nat /\ box_head \in Nat
  BY <1>1, Zenon DEF MailTypes, RecvTypes
<1>4. /\ rcv.at \in {"idle", "head", "scan"}
      /\ \/ rcv'.at = "idle"
         \/ rcv'.at = "head" /\ rcv'.tail = box_tail
         \/ /\ rcv'.at = "scan" /\ rcv'.tail = rcv.tail /\ rcv'.tail = box_tail
            /\ rcv'.head = box_head \/ (rcv'.head = rcv.head /\ rcv.at = "scan")
            /\ rcv'.tail <= rcv'.i /\ rcv'.i <= rcv'.head
  <2>1. CASE RecvTail
    <3>1. PICK src \in Senders \cup {Wild}, t \in MsgTags \cup {Wild} :
            rcv' = [rcv EXCEPT !.at = "head", !.src = src, !.tag = t, !.tail = box_tail]
      BY <2>1, Zenon DEF RecvTail
    <3>2. rcv'.at = "head" /\ rcv'.tail = box_tail BY <1>3, <3>1, Zenon DEF RecvTypes
    <3> QED BY <2>1, <3>2, Zenon DEF RecvTail
  <2>2. CASE RecvHead
    <3>0. rcv.at = "head" /\ rcv.tail = box_tail BY <1>1, <2>2, Zenon DEF RecvHead, OwnerReads
    <3>1. CASE rcv' = NoRecv BY <3>0, <3>1, Zenon DEF NoRecv
    <3>2. CASE rcv.tail < box_head /\ rcv' = [rcv EXCEPT !.at = "scan", !.head = box_head, !.i = rcv.tail]
      <4>1. rcv'.at = "scan" /\ rcv'.tail = rcv.tail /\ rcv'.head = box_head /\ rcv'.i = rcv.tail
        BY <1>3, <3>2, Zenon DEF RecvTypes
      <4>2. rcv.tail <= rcv.tail /\ rcv.tail <= box_head BY <1>3, <3>2
      <4>3. rcv'.tail <= rcv'.i /\ rcv'.i <= rcv'.head BY <4>1, <4>2
      <4> QED BY <3>0, <4>1, <4>3, Zenon
    <3> QED BY <1>3, <2>2, <3>1, <3>2 DEF RecvHead
  <2>3. CASE RecvScan /\ UNCHANGED msgs
    <3>0. rcv.at = "scan" /\ rcv.tail = box_tail /\ rcv.tail <= rcv.i /\ rcv.i <= rcv.head
      BY <1>1, <2>3, Zenon DEF RecvScan, OwnerReads
    <3>1. CASE rcv' = NoRecv BY <3>0, <3>1, Zenon DEF NoRecv
    <3>2. CASE rcv.i < rcv.head /\ rcv' = [rcv EXCEPT !.i = rcv.i + 1]
      <4>1. rcv'.at = "scan" /\ rcv'.tail = rcv.tail /\ rcv'.head = rcv.head /\ rcv'.i = rcv.i + 1
        BY <1>3, <3>0, <3>2, Zenon DEF RecvTypes
      <4>2. rcv.tail <= rcv.i + 1 /\ rcv.i + 1 <= rcv.head BY <1>3, <3>0, <3>2
      <4> QED BY <3>0, <4>1, <4>2, Zenon
    <3>3. CASE Wanted(msgs[SlotOf(rcv.i)]) /\ msgs' = [msgs EXCEPT ![SlotOf(rcv.i)].state = "READING"]
      <4>1. SlotOf(rcv.i) \in MsgSlots BY <1>3, SlotInRange, Zenon
      <4>2. msgs'[SlotOf(rcv.i)].state = "READING" BY <1>1, <3>3, <4>1, StateSet, Zenon
      <4> QED BY <2>3, <3>3, <4>2 DEF Wanted
    <3> QED BY <2>3, <3>1, <3>2, <3>3, Zenon DEF RecvScan
  <2> QED BY <2>1, <2>2, <2>3, Zenon
<1>5. rcv'.at \in {"idle", "head", "scan"} BY <1>4, Zenon
<1>6. Low' = Low /\ Low = box_tail
  BY <1>2, <1>4, <1>5 DEF Low
<1>7. Live' = Live BY <1>2, <1>6, Zenon DEF Live
<1>8. SlotsOwned' BY <1>1, <1>2, <1>7, Zenon DEF SlotsOwned, Writing, Msg
<1>9. \A k \in MsgSlots : msgs[k].state # "READING"
  <2>1. rcv.at \notin {"copy", "consume"} BY <1>4
  <2> QED BY <1>1, <2>1, Zenon DEF OwnerReads
<1>10. OwnerReads'
  <2>1. rcv'.at \notin {"copy", "consume"} BY <1>5
  <2>2. rcv'.at \in {"head", "scan"} => rcv'.tail = box_tail BY <1>4
  <2>3. rcv'.at = "scan" => rcv'.tail <= rcv'.i /\ rcv'.i <= rcv'.head BY <1>4
  <2> QED BY <1>2, <1>9, <2>1, <2>2, <2>3, Zenon DEF OwnerReads, Msg
<1>11. TailIsLive'
  <2>1. rcv'.at # "advance" /\ rcv'.at \notin {"copy", "consume", "advance"} /\ rcv.at # "advance" BY <1>4, <1>5
  <2>2. \A i \in Live : i < box_head BY LiveFacts, Zenon
  <2>3. rcv'.at = "scan" => (rcv'.head = box_head \/ (rcv'.head = rcv.head /\ rcv.at = "scan")) BY <1>4
  <2>4. rcv'.at = "scan" => \A i \in Live : Msg(i).state = "CONSUMED" => i < rcv'.head
    BY <1>1, <2>2, <2>3, Zenon DEF TailIsLive
  <2>5. box_tail < box_head => Msg(box_tail).state # "CONSUMED" BY <1>1, <2>1, Zenon DEF TailIsLive
  <2> QED BY <1>2, <1>7, <2>1, <2>4, <2>5, Zenon DEF TailIsLive, Msg
<1>12. NoIndexLost' BY <1>1, <1>2, <1>7, Zenon DEF NoIndexLost, Msg, Writing
<1> QED BY <1>8, <1>10, <1>11, <1>12, Zenon

\* The index the owner is at is live while it reads it.
LEMMA ReadingLive ==
  ASSUME MailInv, OwnerReads, rcv.at \in {"scan", "copy", "consume"}
  PROVE  /\ rcv.i \in Nat /\ rcv.tail \in Nat /\ rcv.head \in Nat /\ SlotOf(rcv.i) \in MsgSlots
         /\ Low = box_tail /\ rcv.tail = box_tail
         /\ rcv.i < rcv.head => rcv.i \in Live
         /\ rcv.tail <= rcv.i /\ rcv.i <= rcv.head /\ rcv.head <= box_head
<1>1. /\ rcv.i \in Nat /\ rcv.tail \in Nat /\ rcv.head \in Nat /\ rcv.head <= box_head
      /\ box_head \in Nat /\ box_tail \in Nat
  BY Zenon DEF MailInv, MailTypes, RecvTypes, OwnerLags
<1>2. Low = box_tail BY DEF Low
<1>3. rcv.tail = box_tail /\ rcv.tail <= rcv.i /\ rcv.i <= rcv.head BY DEF OwnerReads
<1>4. rcv.i < rcv.head => rcv.i \in Live BY <1>1, <1>2, <1>3 DEF Live
<1> QED BY <1>1, <1>2, <1>3, <1>4, SlotInRange, Zenon

\* The owner marks the message it found.
LEMMA FoundKeepsSlots ==
  ASSUME MailInv, ~overtaken, SlotsInv, RecvScan, ~UNCHANGED msgs
  PROVE  SlotsOwned' /\ OwnerReads' /\ TailIsLive' /\ NoIndexLost'
<1>1. MailTypes /\ SlotsOwned /\ OwnerReads /\ TailIsLive /\ NoIndexLost BY Zenon DEF MailInv, SlotsInv
<1> DEFINE z == SlotOf(rcv.i)
<1>2. /\ UNCHANGED <<snd, published, box_head, box_tail, holes, got>>
      /\ rcv.at = "scan" /\ rcv.i < rcv.head /\ Wanted(msgs[z]) /\ rcv' = [rcv EXCEPT !.at = "copy"]
      /\ msgs' = [msgs EXCEPT ![z].state = "READING"]
  BY Zenon DEF RecvScan
<1>3. /\ z \in MsgSlots /\ rcv.i \in Live /\ rcv.tail = box_tail /\ Low = box_tail
      /\ rcv.tail <= rcv.i /\ rcv.i <= rcv.head
  BY <1>1, <1>2, ReadingLive, Zenon
<1>4. msgs[z].state = "READY" BY <1>2, Zenon DEF Wanted
<1>5. msgs'[z].state = "READING" /\ \A k \in MsgSlots : k # z => msgs'[k] = msgs[k]
  BY <1>1, <1>2, <1>3, StateSet, Zenon
<1>6. rcv'.at = "copy" /\ rcv'.tail = rcv.tail /\ rcv'.head = rcv.head /\ rcv'.i = rcv.i
  BY <1>1, <1>2, Zenon DEF MailTypes, RecvTypes
<1> HIDE DEF z
<1>7. Live' = Live
  <2>1. Low' = Low BY <1>2, <1>3, <1>6 DEF Low
  <2> QED BY <1>2, <2>1, Zenon DEF Live
<1>8. \A k \in MsgSlots : /\ msgs'[k].state = "EMPTY" <=> msgs[k].state = "EMPTY"
                          /\ msgs'[k].state = "CONSUMED" <=> msgs[k].state = "CONSUMED"
                          /\ msgs'[k].state = "READING" <=> k = z
  <2> SUFFICES ASSUME NEW k \in MsgSlots
               PROVE  /\ msgs'[k].state = "EMPTY" <=> msgs[k].state = "EMPTY"
                      /\ msgs'[k].state = "CONSUMED" <=> msgs[k].state = "CONSUMED"
                      /\ msgs'[k].state = "READING" <=> k = z
    OBVIOUS
  <2>1. CASE k = z BY <1>4, <1>5, <2>1
  <2>2. CASE k # z
    <3>1. msgs[k].state # "READING" BY <1>1, <1>2 DEF OwnerReads
    <3> QED BY <1>5, <2>2, <3>1, Zenon
  <2> QED BY <2>1, <2>2, Zenon
<1>9. \A i \in Live : SlotOf(i) \in MsgSlots BY LiveFacts, Zenon
<1>10. SlotsOwned' BY <1>1, <1>2, <1>7, <1>8, <1>9, Zenon DEF SlotsOwned, Writing, Msg
<1>11. OwnerReads' BY <1>2, <1>3, <1>6, <1>8, Zenon DEF OwnerReads, Msg, z
<1>12. TailIsLive'
  <2>1. SlotOf(box_tail) \in MsgSlots BY LiveFacts, SlotInRange, Zenon
  <2>2. rcv'.at # "advance" /\ rcv.at # "advance" BY <1>2, <1>6
  <2> QED BY <1>1, <1>2, <1>6, <1>7, <1>8, <1>9, <2>1, <2>2, Zenon DEF TailIsLive, Msg
<1>13. NoIndexLost' BY <1>1, <1>2, <1>7, <1>8, <1>9, Zenon DEF NoIndexLost, Msg, Writing
<1> QED BY <1>10, <1>11, <1>12, <1>13, Zenon

\* The owner copies a message, or puts back one it cannot read.
LEMMA CopyKeepsSlots ==
  ASSUME MailInv, ~overtaken, SlotsInv, RecvCopy
  PROVE  SlotsOwned' /\ OwnerReads' /\ TailIsLive' /\ NoIndexLost'
<1>1. MailTypes /\ SlotsOwned /\ OwnerReads /\ TailIsLive /\ NoIndexLost BY Zenon DEF MailInv, SlotsInv
<1> DEFINE z == SlotOf(rcv.i)
<1>2. UNCHANGED <<snd, published, box_head, box_tail, holes>> /\ rcv.at = "copy" BY Zenon DEF RecvCopy
<1>3. /\ z \in MsgSlots /\ rcv.i \in Live /\ rcv.tail = box_tail /\ Low = box_tail
      /\ rcv.tail <= rcv.i /\ rcv.i <= rcv.head /\ rcv.i < rcv.head /\ msgs[z].state = "READING"
      /\ rcv.i \in Nat /\ rcv.tail \in Nat /\ rcv.head \in Nat
  BY <1>1, <1>2, ReadingLive, Zenon DEF OwnerReads, Msg
<1>4. \A k \in MsgSlots : msgs[k].state = "READING" <=> k = z
  BY <1>1, <1>3, Zenon DEF OwnerReads
<1>8. \A i \in Live : SlotOf(i) \in MsgSlots BY LiveFacts, Zenon
<1>9. SlotOf(box_tail) \in MsgSlots BY LiveFacts, SlotInRange, Zenon
<1>10. CASE msgs' = msgs
  <2>1. PICK e : got' = Append(got, e) /\ rcv' = [rcv EXCEPT !.at = "consume"]
    <3>1. CASE msgs' = [msgs EXCEPT ![z].state = "READY"]
      <4>1. msgs'[z].state = "READY" BY <1>1, <1>3, <3>1, StateSet, Zenon
      <4> QED BY <1>3, <1>10, <4>1
    <3> QED BY <3>1, Zenon DEF RecvCopy
  <2>2. rcv'.at = "consume" /\ rcv'.tail = rcv.tail /\ rcv'.head = rcv.head /\ rcv'.i = rcv.i
    BY <1>1, <2>1, Zenon DEF MailTypes, RecvTypes
  <2>3. Live' = Live
    <3>1. Low' = Low BY <1>2, <1>3, <2>2 DEF Low
    <3> QED BY <1>2, <3>1, Zenon DEF Live
  <2>4. SlotsOwned' BY <1>1, <1>2, <1>10, <2>3, Zenon DEF SlotsOwned, Writing, Msg
  <2>5. OwnerReads' BY <1>2, <1>3, <1>4, <1>10, <2>2, Zenon DEF OwnerReads, Msg
  <2>6. TailIsLive'
    <3>1. rcv'.at # "advance" /\ rcv.at # "advance" BY <1>2, <2>2
    <3> QED BY <1>1, <1>2, <1>10, <2>2, <2>3, <3>1, Zenon DEF TailIsLive, Msg
  <2>7. NoIndexLost' BY <1>1, <1>2, <1>10, <2>3, Zenon DEF NoIndexLost, Msg, Writing
  <2> HIDE DEF z
  <2> QED BY <2>4, <2>5, <2>6, <2>7, Zenon
<1>11. CASE msgs' # msgs
  <2>1. /\ got' = got /\ rcv' = [rcv EXCEPT !.at = "scan", !.i = rcv.i + 1]
        /\ msgs' = [msgs EXCEPT ![z].state = "READY"]
    BY <1>11, Zenon DEF RecvCopy
  <2>2. rcv'.at = "scan" /\ rcv'.tail = rcv.tail /\ rcv'.head = rcv.head /\ rcv'.i = rcv.i + 1
    BY <1>1, <2>1, Zenon DEF MailTypes, RecvTypes
  <2>3. msgs'[z].state = "READY" /\ \A k \in MsgSlots : k # z => msgs'[k] = msgs[k]
    BY <1>1, <1>3, <2>1, StateSet, Zenon
  <2>4. Live' = Live
    <3>1. Low' = Low BY <1>2, <1>3, <2>2 DEF Low
    <3> QED BY <1>2, <3>1, Zenon DEF Live
  <2> HIDE DEF z
  <2>5. \A k \in MsgSlots : /\ msgs'[k].state = "EMPTY" <=> msgs[k].state = "EMPTY"
                            /\ msgs'[k].state = "CONSUMED" <=> msgs[k].state = "CONSUMED"
                            /\ msgs'[k].state # "READING"
                            /\ msgs'[k].state = "READY" <=> msgs[k].state = "READY" \/ k = z
    <3> SUFFICES ASSUME NEW k \in MsgSlots
                 PROVE  /\ msgs'[k].state = "EMPTY" <=> msgs[k].state = "EMPTY"
                        /\ msgs'[k].state = "CONSUMED" <=> msgs[k].state = "CONSUMED"
                        /\ msgs'[k].state # "READING"
                        /\ msgs'[k].state = "READY" <=> msgs[k].state = "READY" \/ k = z
      OBVIOUS
    <3>1. CASE k = z BY <1>3, <2>3, <3>1
    <3>2. CASE k # z BY <1>4, <2>3, <3>2, Zenon
    <3> QED BY <3>1, <3>2, Zenon
  <2>6. SlotsOwned' BY <1>1, <1>2, <1>8, <2>4, <2>5, Zenon DEF SlotsOwned, Writing, Msg
  <2>7. OwnerReads'
    <3>1. rcv'.at \notin {"copy", "consume"} BY <2>2
    <3>2. rcv'.tail <= rcv'.i /\ rcv'.i <= rcv'.head BY <1>3, <2>2
    <3> QED BY <1>2, <1>3, <2>2, <2>5, <3>1, <3>2, Zenon DEF OwnerReads, Msg
  <2>8. TailIsLive'
    <3>1. rcv'.at # "advance" /\ rcv.at # "advance" BY <1>2, <2>2
    <3> QED BY <1>1, <1>2, <1>8, <1>9, <2>2, <2>4, <2>5, <3>1, Zenon DEF TailIsLive, Msg
  <2>9. NoIndexLost' BY <1>1, <1>2, <1>8, <2>4, <2>5, Zenon DEF NoIndexLost, Msg, Writing
  <2> QED BY <2>6, <2>7, <2>8, <2>9, Zenon
<1> QED BY <1>10, <1>11, Zenon

\* The message is consumed.
LEMMA ConsumeKeepsSlots ==
  ASSUME MailInv, ~overtaken, SlotsInv, RecvConsume
  PROVE  SlotsOwned' /\ OwnerReads' /\ TailIsLive' /\ NoIndexLost'
<1>1. MailTypes /\ SlotsOwned /\ OwnerReads /\ TailIsLive /\ NoIndexLost BY Zenon DEF MailInv, SlotsInv
<1> DEFINE z == SlotOf(rcv.i)
<1>2. /\ UNCHANGED <<snd, published, box_head, box_tail, holes, got>> /\ rcv.at = "consume"
      /\ msgs' = [msgs EXCEPT ![z].state = "CONSUMED"]
      /\ rcv' = IF rcv.i = rcv.tail THEN [rcv EXCEPT !.at = "advance"] ELSE NoRecv
  BY Zenon DEF RecvConsume
<1>3. /\ z \in MsgSlots /\ rcv.i \in Live /\ rcv.tail = box_tail /\ Low = box_tail
      /\ rcv.i < rcv.head /\ msgs[z].state = "READING"
  BY <1>1, <1>2, ReadingLive, Zenon DEF OwnerReads, Msg
<1>4. \A k \in MsgSlots : msgs[k].state = "READING" <=> k = z
  BY <1>1, <1>3, Zenon DEF OwnerReads
<1>5. msgs'[z].state = "CONSUMED" /\ \A k \in MsgSlots : k # z => msgs'[k] = msgs[k]
  BY <1>1, <1>2, <1>3, StateSet, Zenon
<1>6. \/ rcv'.at = "advance" /\ rcv'.tail = rcv.tail /\ rcv'.head = rcv.head /\ rcv.i = rcv.tail
      \/ rcv'.at = "idle" /\ rcv.i # rcv.tail
  <2>1. CASE rcv.i = rcv.tail
    <3>1. rcv' = [rcv EXCEPT !.at = "advance"] BY <1>2, <2>1, Zenon
    <3> QED BY <1>1, <2>1, <3>1, Zenon DEF MailTypes, RecvTypes
  <2>2. CASE rcv.i # rcv.tail
    <3>1. rcv' = NoRecv BY <1>2, <2>2, Zenon
    <3> QED BY <2>2, <3>1, Zenon DEF NoRecv
  <2> QED BY <2>1, <2>2, Zenon
<1>7. Live' = Live
  <2>1. Low' = Low BY <1>2, <1>3, <1>6 DEF Low
  <2> QED BY <1>2, <2>1, Zenon DEF Live
<1>8. /\ \A i \in Live : SlotOf(i) \in MsgSlots
      /\ \A i, j \in Live : SlotOf(i) = SlotOf(j) => i = j
      /\ box_tail < box_head => box_tail \in Live
  <2>1. /\ \A i \in Live : SlotOf(i) \in MsgSlots
        /\ \A i, j \in Live : SlotOf(i) = SlotOf(j) => i = j
        /\ \A i : i \in Live <=> i \in Nat /\ Low <= i /\ i < box_head
        /\ box_tail \in Nat
    BY LiveFacts, Zenon
  <2>2. box_tail <= box_tail BY <2>1
  <2> QED BY <1>3, <2>1, <2>2, Zenon
<1>9. \A k \in MsgSlots : /\ msgs'[k].state = "EMPTY" <=> msgs[k].state = "EMPTY"
                          /\ msgs'[k].state = "CONSUMED" <=> msgs[k].state = "CONSUMED" \/ k = z
                          /\ msgs'[k].state # "READING"
                          /\ msgs'[k].state = "READY" <=> msgs[k].state = "READY"
  <2> SUFFICES ASSUME NEW k \in MsgSlots
               PROVE  /\ msgs'[k].state = "EMPTY" <=> msgs[k].state = "EMPTY"
                      /\ msgs'[k].state = "CONSUMED" <=> msgs[k].state = "CONSUMED" \/ k = z
                      /\ msgs'[k].state # "READING"
                      /\ msgs'[k].state = "READY" <=> msgs[k].state = "READY"
    OBVIOUS
  <2> HIDE DEF z
  <2>1. CASE k = z BY <1>3, <1>5, <2>1
  <2>2. CASE k # z BY <1>4, <1>5, <2>2, Zenon
  <2> QED BY <2>1, <2>2, Zenon
<1>10. SlotsOwned' BY <1>1, <1>2, <1>7, <1>8, <1>9, Zenon DEF SlotsOwned, Writing, Msg
<1>11. OwnerReads'
  <2>1. rcv'.at \notin {"head", "scan", "copy", "consume"} BY <1>6
  <2> QED BY <1>9, <2>1, Zenon DEF OwnerReads
<1>12. TailIsLive'
  <2>0. rcv.at \in {"scan", "copy", "consume", "advance"} /\ rcv.at # "advance" BY <1>2
  <2>1. ASSUME NEW i \in Live, msgs'[SlotOf(i)].state = "CONSUMED" PROVE i < rcv.head
    <3>1. Msg(i).state = "CONSUMED" \/ SlotOf(i) = z BY <1>8, <1>9, <2>1, Zenon DEF Msg
    <3>2. SlotOf(i) = z => i = rcv.i BY <1>3, <1>8, Zenon
    <3> QED BY <1>1, <1>3, <2>0, <3>1, <3>2, Zenon DEF TailIsLive
  <2>2. ASSUME rcv'.at # "advance", box_tail < box_head PROVE msgs'[SlotOf(box_tail)].state # "CONSUMED"
    <3>1. rcv.i # box_tail /\ box_tail \in Live BY <1>3, <1>6, <1>8, <2>2, Zenon
    <3>2. SlotOf(box_tail) # z /\ SlotOf(box_tail) \in MsgSlots BY <1>3, <1>8, <3>1, Zenon
    <3>3. msgs[SlotOf(box_tail)].state # "CONSUMED" BY <1>1, <2>0, <2>2, Zenon DEF TailIsLive, Msg
    <3> QED BY <1>9, <3>2, <3>3, Zenon
  <2>3. rcv'.at \in {"scan", "copy", "consume", "advance"} => rcv'.head = rcv.head BY <1>6
  <2> QED BY <1>2, <1>7, <2>1, <2>2, <2>3, Zenon DEF TailIsLive, Msg
<1>13. NoIndexLost' BY <1>1, <1>2, <1>7, <1>8, <1>9, Zenon DEF NoIndexLost, Msg, Writing
<1> QED BY <1>10, <1>11, <1>12, <1>13, Zenon

\* The tail moves past a consumed message, whose slot is empty from now on, or
\* stops at one that is not.
LEMMA AdvanceKeepsSlots ==
  ASSUME MailInv, ~overtaken, SlotsInv, RecvAdvance
  PROVE  SlotsOwned' /\ OwnerReads' /\ TailIsLive' /\ NoIndexLost'
<1>1. MailTypes /\ SlotsOwned /\ OwnerReads /\ TailIsLive /\ NoIndexLost BY Zenon DEF MailInv, SlotsInv
<1> DEFINE z == SlotOf(rcv.tail)
<1>2. UNCHANGED <<snd, published, box_head, holes, got>> /\ rcv.at = "advance" BY Zenon DEF RecvAdvance
<1>3. /\ Low = rcv.tail /\ rcv.tail \in Nat /\ rcv.head \in Nat /\ rcv.head <= box_head /\ rcv.tail <= rcv.head
      /\ box_head \in Nat /\ z \in MsgSlots
  <2>1. /\ rcv.tail \in Nat /\ rcv.head \in Nat /\ rcv.head <= box_head /\ rcv.tail <= rcv.head /\ box_head \in Nat
    BY <1>2, Zenon DEF MailInv, MailTypes, RecvTypes, OwnerLags
  <2> QED BY <1>2, <2>1, SlotInRange, Zenon DEF Low
<1>4. /\ \A i \in Live : SlotOf(i) \in MsgSlots
      /\ \A i, j \in Live : SlotOf(i) = SlotOf(j) => i = j
      /\ \A i : i \in Live <=> i \in Nat /\ Low <= i /\ i < box_head
  BY LiveFacts, Zenon
<1>5. \A k \in MsgSlots : msgs[k].state # "READING"
  <2>1. rcv.at \notin {"copy", "consume"} BY <1>2
  <2> QED BY <1>1, <2>1, Zenon DEF OwnerReads
<1>6. rcv.at # "copy" /\ rcv.at \in {"scan", "copy", "consume", "advance"} BY <1>2
<1>7. CASE rcv' = NoRecv
  <2>1. /\ rcv.tail = rcv.head \/ msgs[z].state # "CONSUMED"
        /\ box_tail' = rcv.tail /\ msgs' = msgs
    <3>1. CASE rcv' = [rcv EXCEPT !.tail = rcv.tail + 1]
      <4>1. rcv'.at = "advance" /\ NoRecv.at = "idle" BY <1>1, <1>2, <3>1, Zenon DEF MailTypes, RecvTypes, NoRecv
      <4> QED BY <1>7, <4>1
    <3> QED BY <3>1, Zenon DEF RecvAdvance
  <2>2. rcv'.at = "idle" BY <1>7, Zenon DEF NoRecv
  <2>3. Live' = Live
    <3>1. Low' = Low BY <1>3, <2>1, <2>2 DEF Low
    <3> QED BY <1>2, <3>1, Zenon DEF Live
  <2>4. SlotsOwned' BY <1>1, <1>2, <2>1, <2>3, Zenon DEF SlotsOwned, Writing, Msg
  <2>5. OwnerReads'
    <3>1. rcv'.at \notin {"head", "scan", "copy", "consume"} BY <2>2
    <3> QED BY <1>5, <2>1, <3>1, Zenon DEF OwnerReads
  <2>6. TailIsLive'
    <3>1. rcv'.at \notin {"scan", "copy", "consume", "advance"} BY <2>2
    <3>2. ASSUME rcv.tail < box_head PROVE msgs[z].state # "CONSUMED"
      <4>1. rcv.tail \in Live
        <5>1. rcv.tail <= rcv.tail BY <1>3
        <5> QED BY <1>3, <1>4, <3>2, <5>1, Zenon
      <4>2. ~(rcv.tail < rcv.tail) BY <1>3
      <4>3. CASE rcv.tail = rcv.head BY <1>1, <1>6, <4>1, <4>2, <4>3, Zenon DEF TailIsLive, Msg
      <4> QED BY <2>1, <4>3, Zenon
    <3> QED BY <1>2, <2>1, <3>1, <3>2, Zenon DEF TailIsLive, Msg
  <2>7. NoIndexLost' BY <1>1, <1>2, <2>1, <2>3, Zenon DEF NoIndexLost, Msg, Writing
  <2> QED BY <2>4, <2>5, <2>6, <2>7, Zenon
<1>8. CASE rcv' # NoRecv
  <2>1. /\ rcv.tail < rcv.head /\ msgs[z].state = "CONSUMED" /\ msgs' = [msgs EXCEPT ![z].state = "EMPTY"]
        /\ rcv' = [rcv EXCEPT !.tail = rcv.tail + 1] /\ box_tail' = box_tail
    BY <1>8, Zenon DEF RecvAdvance
  <2>2. rcv'.at = "advance" /\ rcv'.tail = rcv.tail + 1 /\ rcv'.head = rcv.head
    BY <1>1, <1>2, <2>1, Zenon DEF MailTypes, RecvTypes
  <2>3. msgs'[z].state = "EMPTY" /\ \A k \in MsgSlots : k # z => msgs'[k] = msgs[k]
    BY <1>1, <1>3, <2>1, StateSet, Zenon
  <2>4. Live' = Live \ {rcv.tail} /\ rcv.tail \in Live
    <3>1. Low' = rcv.tail + 1 BY <2>2 DEF Low
    <3>2. Live' = (rcv.tail + 1) .. (box_head - 1) BY <1>2, <3>1, Zenon DEF Live
    <3>3. Live = rcv.tail .. (box_head - 1) BY <1>3, Zenon DEF Live
    <3> QED BY <1>3, <2>1, <3>2, <3>3
  <2>5. \A i \in Live : i # rcv.tail => SlotOf(i) # z BY <1>4, <2>4, Zenon
  <2> HIDE DEF z
  <2>6. \A k \in MsgSlots : /\ msgs'[k].state = "EMPTY" <=> msgs[k].state = "EMPTY" \/ k = z
                            /\ msgs'[k].state = "CONSUMED" <=> msgs[k].state = "CONSUMED" /\ k # z
                            /\ msgs'[k].state # "READING"
                            /\ msgs'[k].state = "READY" <=> msgs[k].state = "READY"
    <3> SUFFICES ASSUME NEW k \in MsgSlots
                 PROVE  /\ msgs'[k].state = "EMPTY" <=> msgs[k].state = "EMPTY" \/ k = z
                        /\ msgs'[k].state = "CONSUMED" <=> msgs[k].state = "CONSUMED" /\ k # z
                        /\ msgs'[k].state # "READING"
                        /\ msgs'[k].state = "READY" <=> msgs[k].state = "READY"
      OBVIOUS
    <3>1. CASE k = z BY <2>1, <2>3, <3>1
    <3>2. CASE k # z BY <1>5, <2>3, <3>2, Zenon
    <3> QED BY <3>1, <3>2, Zenon
  <2>7. SlotsOwned'
    <3>1. ASSUME NEW u \in Senders, Writing(u)
          PROVE  snd[u].head \in Live' /\ msgs'[SlotOf(snd[u].head)].state = "EMPTY"
      <4>1. snd[u].head \in Live /\ Msg(snd[u].head).state = "EMPTY" BY <1>1, <3>1, Zenon DEF SlotsOwned
      <4>2. snd[u].head # rcv.tail BY <2>1, <4>1 DEF Msg, z
      <4>3. SlotOf(snd[u].head) \in MsgSlots BY <1>4, <4>1, Zenon
      <4> QED BY <2>4, <2>6, <4>1, <4>2, <4>3, Zenon DEF Msg
    <3>2. \A k \in MsgSlots : msgs'[k].state # "EMPTY" => \E i \in Live' : k = SlotOf(i)
      BY <1>1, <2>4, <2>6, Zenon DEF SlotsOwned, z
    <3> QED BY <1>1, <1>2, <3>1, <3>2, Zenon DEF SlotsOwned, Writing, Msg
  <2>8. OwnerReads'
    <3>1. rcv'.at \notin {"head", "scan", "copy", "consume"} BY <2>2
    <3> QED BY <2>6, <3>1, Zenon DEF OwnerReads
  <2>9. TailIsLive'
    <3>1. \A i \in Live' : msgs'[SlotOf(i)].state = "CONSUMED" => i < rcv.head
      BY <1>1, <1>4, <1>6, <2>4, <2>6, Zenon DEF TailIsLive, Msg
    <3> QED BY <2>2, <3>1, Zenon DEF TailIsLive, Msg
  <2>10. NoIndexLost'
    <3>1. ASSUME ~holes, NEW i \in Live', msgs'[SlotOf(i)].state = "EMPTY"
          PROVE  \E u \in Senders : Writing(u) /\ snd[u].head = i
      <4>1. i \in Live /\ SlotOf(i) \in MsgSlots /\ SlotOf(i) # z BY <1>4, <2>4, <2>5, Zenon
      <4>2. Msg(i).state = "EMPTY" BY <2>6, <3>1, <4>1, Zenon DEF Msg
      <4> QED BY <1>1, <3>1, <4>1, <4>2, Zenon DEF NoIndexLost
    <3> QED BY <1>2, <3>1, Zenon DEF NoIndexLost, Msg, Writing
  <2> QED BY <2>7, <2>8, <2>9, <2>10, Zenon
<1> QED BY <1>7, <1>8, Zenon

\* Every step keeps the slots in order, as long as no claim overtook a check.
LEMMA SlotsKept ==
  ASSUME MailInv, MailInv', SlotsInv, ~overtaken', [MailNext]_mailVars
  PROVE  SlotsInv' /\ ~overtaken
<1>1. MailTypes /\ SlotsOwned /\ Numbered BY Zenon DEF MailInv, SlotsInv
<1>2. ASSUME NEW s \in Senders, SendStep(s) PROVE SlotsInv' /\ ~overtaken
  <2>1. Numbered' BY <1>1, <1>2, NumberedKept, Zenon
  <2>2. ~overtaken BY <1>1, <1>2, SenderLeaves, Zenon DEF SendClaim
  <2>3. SlotsOwned' /\ OwnerReads' /\ TailIsLive' /\ NoIndexLost'
    BY <1>1, <1>2, <2>2, NoTimeout, QuietKeepsSlots, ClaimKeepsSlots, RollBackKeepsSlots, PublishKeepsSlots, Zenon
  <2> QED BY <2>1, <2>2, <2>3, Zenon DEF SlotsInv
<1>3. CASE RecvStep
  <2>1. UNCHANGED <<snd, published, overtaken>> BY <1>3, OwnerLeaves, Zenon
  <2>2. Numbered' BY <1>1, <2>1, Zenon DEF Numbered
  <2>3. SlotsOwned' /\ OwnerReads' /\ TailIsLive' /\ NoIndexLost'
    BY <1>3, <2>1, LoadsKeepSlots, FoundKeepsSlots, CopyKeepsSlots, ConsumeKeepsSlots, AdvanceKeepsSlots, Zenon
       DEF RecvStep
  <2> QED BY <2>1, <2>2, <2>3, Zenon DEF SlotsInv
<1>4. CASE Deactivate \/ UNCHANGED mailVars
  <2>1. UNCHANGED <<box_head, box_tail, msgs, snd, rcv, got, published, holes, overtaken>>
    BY <1>4, Zenon DEF Deactivate, mailVars
  <2>2. Live' = Live BY <2>1, Zenon DEF Live, Low
  <2>3. SlotsOwned' BY <2>1, <2>2, Zenon DEF SlotsInv, SlotsOwned, Writing, Msg
  <2>4. OwnerReads' BY <2>1, Zenon DEF SlotsInv, OwnerReads, Msg
  <2>5. TailIsLive' BY <2>1, <2>2, Zenon DEF SlotsInv, TailIsLive, Msg
  <2>6. NoIndexLost' BY <2>1, <2>2, Zenon DEF SlotsInv, NoIndexLost, Writing, Msg
  <2>7. Numbered' BY <2>1, Zenon DEF SlotsInv, Numbered
  <2> QED BY <2>1, <2>3, <2>4, <2>5, <2>6, <2>7, Zenon DEF SlotsInv
<1> QED BY <1>2, <1>3, <1>4, Zenon DEF MailNext, RecvStep

\* What cxl_recv copies out of message m when the pool holds pg.
Content(m, pg) == IF m.inlined THEN m.data ELSE pg[m.rptr]

\* Message m holds the payload of a send of the sender it names, in its own
\* bytes or in a buffer that was granted to that send.
Intact(m, pg, pub, gr) ==
  /\ Content(m, pg) \in pub /\ Content(m, pg)[1] = m.src
  /\ ~m.inlined => m.rptr # NullRptr /\ \E g \in gr : g.by = Content(m, pg) /\ g.from = m.rptr

\* How far a sender has come with message m, when the pool holds pg.
Enveloped == {"inline", "norptr", "alloc", "rollback", "copy", "notinline", "publish"}
Grant(s) == [by |-> Payload(s), from |-> snd[s].off, to |-> snd[s].off + snd[s].pages]
Wrote(s, m, pg) ==
  /\ snd[s].at \in Enveloped => m.src = s /\ m.tag = snd[s].tag
  /\ snd[s].at \in {"copy", "notinline"} => Grant(s) \in granted
  /\ snd[s].at = "notinline" => m.rptr = snd[s].off /\ pg[snd[s].off] = Payload(s)
  /\ snd[s].at = "norptr" => m.inlined /\ m.data = Payload(s)
  /\ snd[s].at = "publish" => /\ Content(m, pg) = Payload(s)
                              /\ ~m.inlined => m.rptr = snd[s].off /\ Grant(s) \in granted

ContentInv ==
  /\ \A s \in Senders : Wrote(s, msgs[Slot(s)], page)
  /\ \A k \in MsgSlots : msgs[k].state # "EMPTY" => Intact(msgs[k], page, published, granted)

\* Two buffers of different sends have no page in common.
LEMMA BuffersApart ==
  ASSUME MailInv, PoolSound, ~crossed, NEW g \in granted, NEW h \in granted, g.by # h.by
  PROVE  g.from \in Pages /\ g.from \notin h.from .. (h.to - 1)
<1>1. /\ g.from \in Int /\ g.to \in Int /\ h.from \in Int /\ h.to \in Int
      /\ g.to <= PoolPages /\ PoolPages \in Nat
      /\ g.to <= h.from \/ h.to <= g.from
  BY MailAssumption, Zenon DEF MailInv, MailTypes, PoolInv
<1>2. 0 <= g.from /\ g.from < g.to BY Zenon DEF PoolSound
<1> DEFINE a == g.from
           b == g.to
           c == h.from
           d == h.to
<1>3. a \in Int /\ b \in Int /\ c \in Int /\ d \in Int /\ b <= PoolPages /\ (b <= c \/ d <= a) /\ 0 <= a /\ a < b
  BY <1>1, <1>2, Zenon
<1> HIDE DEF a, b, c, d
<1>4. a \in Pages /\ a \notin c .. (d - 1) BY <1>1, <1>3 DEF Pages
<1> QED BY <1>4, Zenon DEF a, b, c, d

\* The fields of a message that a step of its sender writes.
LEMMA MessageAfter ==
  ASSUME MailTypes, NEW s \in Senders, Slot(s) \in MsgSlots
  PROVE  LET m == msgs[Slot(s)]
             q == msgs'[Slot(s)]
         IN /\ Envelope(s) => q.src = s /\ q.tag = snd[s].tag
            /\ InlineData(s) => q.src = m.src /\ q.tag = m.tag /\ q.inlined /\ q.data = Payload(s)
            /\ InlineRptr(s) => q.src = m.src /\ q.tag = m.tag /\ q.inlined = m.inlined /\ q.data = m.data
            /\ CopyOut(s) => q.src = m.src /\ q.tag = m.tag /\ q.rptr = snd[s].off
            /\ NotInline(s) => q.src = m.src /\ q.tag = m.tag /\ ~q.inlined /\ q.rptr = m.rptr
            /\ Publish(s) => /\ q.state = "READY" /\ q.src = m.src /\ q.tag = m.tag /\ q.inlined = m.inlined
                             /\ q.data = m.data /\ q.rptr = m.rptr
<1>1. msgs \in [MsgSlots -> SlotTypes] /\ msgs[Slot(s)] \in SlotTypes BY Zenon DEF MailTypes
<1> DEFINE z == Slot(s)
<1>0. z \in MsgSlots BY Zenon
<1>2. ASSUME Envelope(s) PROVE msgs'[z].src = s /\ msgs'[z].tag = snd[s].tag
  <2>1. msgs' = [msgs EXCEPT ![z] = [msgs[z] EXCEPT !.src = s, !.tag = snd[s].tag]] BY <1>2, Zenon DEF Envelope
  <2> HIDE DEF z
  <2> QED BY <1>0, <1>1, <2>1, Zenon DEF SlotTypes, z
<1>3. ASSUME InlineData(s)
      PROVE  /\ msgs'[z].src = msgs[z].src /\ msgs'[z].tag = msgs[z].tag
             /\ msgs'[z].inlined /\ msgs'[z].data = Payload(s)
  <2>1. msgs' = [msgs EXCEPT ![z] = [msgs[z] EXCEPT !.data = Payload(s), !.inlined = TRUE]]
    BY <1>3, Zenon DEF InlineData
  <2> DEFINE p == Payload(s)
  <2> HIDE DEF z, p
  <2> QED BY <1>0, <1>1, <2>1, Zenon DEF SlotTypes, z, p
<1>4. ASSUME InlineRptr(s)
      PROVE  /\ msgs'[z].src = msgs[z].src /\ msgs'[z].tag = msgs[z].tag
             /\ msgs'[z].inlined = msgs[z].inlined /\ msgs'[z].data = msgs[z].data
  <2>1. msgs' = [msgs EXCEPT ![z].rptr = NullRptr] BY <1>4, Zenon DEF InlineRptr
  <2> QED BY <1>0, <1>1, <2>1, Zenon DEF SlotTypes
<1>5. ASSUME CopyOut(s)
      PROVE  msgs'[z].src = msgs[z].src /\ msgs'[z].tag = msgs[z].tag /\ msgs'[z].rptr = snd[s].off
  <2>1. msgs' = [msgs EXCEPT ![z].rptr = snd[s].off] BY <1>5, Zenon DEF CopyOut
  <2> QED BY <1>0, <1>1, <2>1, Zenon DEF SlotTypes
<1>6. ASSUME NotInline(s)
      PROVE  /\ msgs'[z].src = msgs[z].src /\ msgs'[z].tag = msgs[z].tag /\ ~msgs'[z].inlined
             /\ msgs'[z].rptr = msgs[z].rptr
  <2>1. msgs' = [msgs EXCEPT ![z].inlined = FALSE] BY <1>6, Zenon DEF NotInline
  <2> QED BY <1>0, <1>1, <2>1, Zenon DEF SlotTypes
<1>7. ASSUME Publish(s)
      PROVE  /\ msgs'[z].state = "READY" /\ msgs'[z].src = msgs[z].src /\ msgs'[z].tag = msgs[z].tag
             /\ msgs'[z].inlined = msgs[z].inlined /\ msgs'[z].data = msgs[z].data /\ msgs'[z].rptr = msgs[z].rptr
  <2>1. msgs' = [msgs EXCEPT ![z].state = "READY"] BY <1>7, Zenon DEF Publish
  <2> QED BY <1>0, <2>1, StateSet, Zenon
<1> QED BY <1>2, <1>3, <1>4, <1>5, <1>6, <1>7, Zenon

\* What a step of a sender does to the pool: it writes the buffer of its own
\* send and no other.
LEMMA PoolAfter ==
  ASSUME MailInv, PoolSound, ContentInv, ~crossed', NEW s \in Senders, SendStep(s)
  PROVE  /\ ~crossed /\ granted \subseteq granted' /\ published \subseteq published'
         /\ ~CopyOut(s) => page' = page
         /\ \A g \in granted : g.by # Payload(s) => page'[g.from] = page[g.from]
         /\ CopyOut(s) => page'[snd[s].off] = Payload(s)
<1>1. ~crossed /\ granted \subseteq granted' /\ published \subseteq published' /\ (~CopyOut(s) => page' = page)
  <2>1. ~CopyOut(s) => page' = page
    BY Zenon DEF SendStep, SendTail, SendCheck, SendClaim, SlotEmpty, SlotTimeout, Envelope, InlineData, InlineRptr,
           Allocate, RollBack, NotInline, Publish
  <2>2. published \subseteq published'
    <3>1. published' = published \/ Publish(s) BY SenderLeaves, Zenon DEF MailInv
    <3> QED BY <3>1, Zenon DEF Publish
  <2>3. CASE Allocate(s) BY <2>1, <2>2, <2>3, Zenon DEF Allocate, CopyOut, At
  <2>4. CASE ~Allocate(s)
    <3>1. crossed' = crossed /\ granted' = granted
      BY <2>4, Zenon DEF SendStep, SendTail, SendCheck, SendClaim, SlotEmpty, SlotTimeout, Envelope, InlineData,
             InlineRptr, RollBack, NotInline, Publish, CopyOut
    <3> QED BY <2>1, <2>2, <3>1, Zenon
  <2> QED BY <2>3, <2>4, Zenon
<1>2. CASE CopyOut(s)
  <2>1. /\ page' = [p \in Pages |-> IF p \in snd[s].off .. snd[s].off + snd[s].pages - 1
                                    THEN Payload(s) ELSE page[p]]
        /\ snd[s].at = "copy"
    BY <1>2, Zenon DEF CopyOut, At
  <2>2. Grant(s) \in granted BY <2>1, Zenon DEF ContentInv, Wrote
  <2> DEFINE W == snd[s].off .. snd[s].off + snd[s].pages - 1
  <2> DEFINE o == snd[s].off
             e == snd[s].off + snd[s].pages
  <2>0. W = o .. (e - 1)
    <3>1. snd[s].off \in Int /\ snd[s].pages \in Nat BY Zenon DEF MailInv, MailTypes, SendTypes
    <3> QED BY <3>1
  <2>3. Grant(s).by = Payload(s) /\ Grant(s).from = o /\ Grant(s).to = e BY Zenon DEF Grant
  <2>4. ASSUME NEW g \in granted, g.by # Payload(s) PROVE page'[g.from] = page[g.from]
    <3>1. g.from \in Pages /\ g.from \notin o .. (e - 1) BY <1>1, <2>2, <2>3, <2>4, BuffersApart, Zenon
    <3>2. page' = [p \in Pages |-> IF p \in W THEN Payload(s) ELSE page[p]] BY <2>1, Zenon
    <3> HIDE DEF W
    <3> QED BY <2>0, <3>1, <3>2, Zenon
  <2>5. o \in Pages /\ o \in o .. (e - 1)
    <3>1. o \in Int /\ e \in Int /\ e <= PoolPages /\ PoolPages \in Nat
      BY <2>2, <2>3, MailAssumption, Zenon DEF MailInv, MailTypes, PoolInv
    <3>2. 0 <= o /\ o < e BY <1>1, <2>2, <2>3, Zenon DEF PoolSound
    <3> HIDE DEF o, e
    <3> QED BY <3>1, <3>2 DEF Pages
  <2>6. page'[o] = Payload(s)
    <3>2. page' = [p \in Pages |-> IF p \in W THEN Payload(s) ELSE page[p]] BY <2>1, Zenon
    <3> HIDE DEF W
    <3> QED BY <2>0, <2>5, <3>2, Zenon
  <2> QED BY <1>1, <1>2, <2>4, <2>6, Zenon
<1>3. CASE ~CopyOut(s) BY <1>1, <1>3, Zenon
<1> QED BY <1>2, <1>3, Zenon

\* A message that is intact stays so when only buffers of unpublished sends are
\* written.
LEMMA IntactStays ==
  ASSUME NEW m, NEW pg, NEW pub, NEW gr, NEW pg2, NEW pub2, NEW gr2, Intact(m, pg, pub, gr),
         pub \subseteq pub2, gr \subseteq gr2, \A g \in gr : g.by \in pub => pg2[g.from] = pg[g.from]
  PROVE  Intact(m, pg2, pub2, gr2) /\ Content(m, pg2) = Content(m, pg)
<1>1. CASE m.inlined BY <1>1, Zenon DEF Intact, Content
<1>2. CASE ~m.inlined
  <2>1. PICK g \in gr : g.by = Content(m, pg) /\ g.from = m.rptr BY <1>2, Zenon DEF Intact
  <2>2. pg2[m.rptr] = pg[m.rptr] BY <2>1, Zenon DEF Intact
  <2>3. Content(m, pg2) = Content(m, pg) BY <1>2, <2>2, Zenon DEF Content
  <2> QED BY <2>3, Zenon DEF Intact
<1> QED BY <1>1, <1>2, Zenon

\* The slot of a sender that has an index is one of the mailbox, is empty and
\* is no other sender's.
LEMMA OwnSlot ==
  ASSUME MailInv, ~overtaken, SlotsOwned, NEW s \in Senders, Writing(s)
  PROVE  /\ Slot(s) \in MsgSlots /\ msgs[Slot(s)].state = "EMPTY"
         /\ \A u \in Senders : Writing(u) /\ u # s => Slot(u) # Slot(s)
<1>1. /\ \A u \in Senders : Writing(u) => snd[u].head \in Live
      /\ msgs[Slot(s)].state = "EMPTY"
  BY Zenon DEF SlotsOwned, Msg, Slot
<1>2. /\ \A i \in Live : SlotOf(i) \in MsgSlots
      /\ \A i, j \in Live : SlotOf(i) = SlotOf(j) => i = j
  BY LiveFacts, Zenon
<1> QED BY <1>1, <1>2, Zenon DEF SlotsOwned, Slot

\* The payload of a send under way is not among the published ones.
LEMMA NotYetPublished ==
  ASSUME MailTypes, Numbered, NEW s \in Senders, snd[s].at # "idle"
  PROVE  /\ Payload(s) \notin published /\ Payload(s) \in Senders \X Nat
         /\ Payload(s)[1] = s /\ Payload(s)[2] = snd[s].n
         /\ \A p \in published : p[1] = s => p[2] < snd[s].n
<1>1. snd[s].n \in Nat BY Zenon DEF MailTypes, SendTypes
<1>2. Payload(s) \in Senders \X Nat /\ Payload(s)[1] = s /\ Payload(s)[2] = snd[s].n BY <1>1 DEF Payload
<1>3. \A p \in published : p[1] = s => p[2] < snd[s].n BY Zenon DEF Numbered
<1>4. ~(snd[s].n < snd[s].n) BY <1>1
<1> QED BY <1>2, <1>3, <1>4, Zenon

\* A message changes only under the hands of its sender, and then it is empty.
LEMMA MessagesStay ==
  ASSUME MailInv, PoolSound, SlotsInv, ContentInv, ~overtaken, ~crossed', NEW s \in Senders, SendStep(s),
         NEW k \in MsgSlots, msgs[k].state # "EMPTY"
  PROVE  /\ msgs'[k] = msgs[k] /\ Content(msgs'[k], page') = Content(msgs[k], page)
         /\ Intact(msgs'[k], page', published', granted')
<1>1. MailTypes /\ SlotsOwned /\ Numbered BY Zenon DEF MailInv, SlotsInv
<1>2. msgs'[k] = msgs[k]
  <2>1. CASE Writing(s)
    <3>1. k # Slot(s) BY <1>1, <2>1, OwnSlot, Zenon
    <3> QED BY <1>1, <3>1, SenderLeaves, Zenon
  <2>2. CASE ~Writing(s)
    <3>1. snd[s].at \notin {"envelope", "inline", "norptr", "copy", "notinline", "publish"}
      BY <2>2 DEF Writing, Claimed
    <3>2. /\ ~Envelope(s) /\ ~InlineData(s) /\ ~InlineRptr(s) /\ ~CopyOut(s) /\ ~NotInline(s) /\ ~Publish(s)
      BY <3>1 DEF Envelope, InlineData, InlineRptr, CopyOut, NotInline, Publish, At
    <3>3. msgs' = msgs
      BY <3>2, Zenon DEF SendStep, SendTail, SendCheck, SendClaim, SlotEmpty, SlotTimeout, Allocate, RollBack
    <3> QED BY <3>3, Zenon
  <2> QED BY <2>1, <2>2, Zenon
<1>3. Intact(msgs[k], page, published, granted) BY Zenon DEF ContentInv
<1>4. granted \subseteq granted' /\ published \subseteq published' BY PoolAfter, Zenon
<1>5. \A g \in granted : g.by \in published => page'[g.from] = page[g.from]
  <2>1. CASE CopyOut(s)
    <3>1. snd[s].at # "idle" BY <2>1 DEF CopyOut, At
    <3>2. Payload(s) \notin published BY <1>1, <3>1, NotYetPublished, Zenon
    <3> QED BY <3>2, PoolAfter, Zenon
  <2>2. CASE ~CopyOut(s) BY <2>2, PoolAfter, Zenon
  <2> QED BY <2>1, <2>2, Zenon
<1>6. Intact(msgs[k], page', published', granted') /\ Content(msgs[k], page') = Content(msgs[k], page)
  BY <1>3, <1>4, <1>5, IntactStays
<1> QED BY <1>2, <1>6, Zenon

\* What the other senders have written is still there.
LEMMA OthersWrote ==
  ASSUME MailInv, PoolSound, SlotsInv, ContentInv, ~overtaken, ~crossed', NEW s \in Senders, SendStep(s),
         NEW u \in Senders, u # s
  PROVE  Wrote(u, msgs[Slot(u)], page)'
<1>1. MailTypes /\ SlotsOwned BY Zenon DEF MailInv, SlotsInv
<1>2. snd'[u] = snd[u] BY <1>1, SenderLeaves, Zenon
<1>3. Payload(u)' = Payload(u) /\ Slot(u)' = Slot(u) /\ Grant(u)' = Grant(u) BY <1>2, Zenon DEF Payload, Slot, Grant
<1>4. granted \subseteq granted' BY PoolAfter, Zenon
<1>5. Wrote(u, msgs[Slot(u)], page) BY Zenon DEF ContentInv
<1>6. CASE ~Writing(u)
  <2>1. /\ snd[u].at \notin Enveloped /\ snd[u].at \notin {"copy", "notinline"} /\ snd[u].at # "notinline"
        /\ snd[u].at # "norptr" /\ snd[u].at # "publish"
    BY <1>6 DEF Writing, Claimed, Enveloped
  <2> QED BY <1>2, <2>1, Zenon DEF Wrote
<1>7. CASE Writing(u)
  <2>1. msgs'[Slot(u)] = msgs[Slot(u)]
    <3>1. Slot(u) \in MsgSlots BY <1>1, <1>7, OwnSlot, Zenon
    <3>2. CASE Writing(s)
      <4>1. Slot(u) # Slot(s) BY <1>1, <1>7, <3>2, OwnSlot, Zenon
      <4> QED BY <1>1, <3>1, <4>1, SenderLeaves, Zenon
    <3>3. CASE ~Writing(s)
      <4>1. snd[s].at \notin {"envelope", "inline", "norptr", "copy", "notinline", "publish"}
        BY <3>3 DEF Writing, Claimed
      <4>2. /\ ~Envelope(s) /\ ~InlineData(s) /\ ~InlineRptr(s) /\ ~CopyOut(s) /\ ~NotInline(s) /\ ~Publish(s)
        BY <4>1 DEF Envelope, InlineData, InlineRptr, CopyOut, NotInline, Publish, At
      <4>3. msgs' = msgs
        BY <4>2, Zenon DEF SendStep, SendTail, SendCheck, SendClaim, SlotEmpty, SlotTimeout, Allocate, RollBack
      <4> QED BY <4>3, Zenon
    <3> QED BY <3>2, <3>3, Zenon
  <2>2. Grant(u) \in granted => page'[snd[u].off] = page[snd[u].off]
    <3>1. Grant(u).by = Payload(u) /\ Grant(u).from = snd[u].off BY Zenon DEF Grant
    <3>2. Payload(u) # Payload(s) BY DEF Payload
    <3>3. \A g \in granted : g.by # Payload(s) => page'[g.from] = page[g.from] BY PoolAfter, Zenon
    <3>4. Grant(u) \in granted => page'[Grant(u).from] = page[Grant(u).from] BY <3>1, <3>2, <3>3, Zenon
    <3> QED BY <3>1, <3>4, Zenon
  <2>3. snd[u].at = "publish" => Content(msgs[Slot(u)], page') = Content(msgs[Slot(u)], page)
    BY <1>5, <2>2, Zenon DEF Wrote, Content
  <2>4. snd[u].at = "notinline" => page'[snd[u].off] = page[snd[u].off]
    <3>1. snd[u].at = "notinline" => snd[u].at \in {"copy", "notinline"} OBVIOUS
    <3> QED BY <1>5, <2>2, <3>1, Zenon DEF Wrote
  <2> QED BY <1>2, <1>3, <1>4, <1>5, <2>1, <2>3, <2>4, Zenon DEF Wrote
<1> QED BY <1>6, <1>7, Zenon

\* What a sender has written after its step.
LEMMA SelfWrote ==
  ASSUME MailInv, PoolSound, SlotsInv, ContentInv, ~overtaken, ~crossed', NEW s \in Senders, SendStep(s)
  PROVE  Wrote(s, msgs[Slot(s)], page)'
<1>1. MailTypes /\ SlotsOwned BY Zenon DEF MailInv, SlotsInv
<1>2. Wrote(s, msgs[Slot(s)], page) BY Zenon DEF ContentInv
<1>3. granted \subseteq granted' BY PoolAfter, Zenon
<1>4. CASE SendTail(s) \/ SendCheck(s) \/ SendClaim(s) \/ SlotEmpty(s) \/ SlotTimeout(s) \/ RollBack(s) \/ Publish(s)
  <2>1. snd'[s].at \in {"check", "idle", "claim", "wait", "envelope"} BY <1>1, <1>4, SenderAfter, Zenon
  <2>2. /\ snd'[s].at \notin Enveloped /\ snd'[s].at \notin {"copy", "notinline"} /\ snd'[s].at # "notinline"
        /\ snd'[s].at # "norptr" /\ snd'[s].at # "publish"
    BY <2>1 DEF Enveloped
  <2> QED BY <2>2, Zenon DEF Wrote
<1>5. CASE Envelope(s) \/ InlineData(s) \/ InlineRptr(s) \/ Allocate(s) \/ CopyOut(s) \/ NotInline(s)
  <2>1. /\ snd[s].at \in {"envelope", "inline", "norptr", "alloc", "copy", "notinline"}
        /\ snd'[s].at \in {"inline", "alloc", "norptr", "publish", "copy", "rollback", "notinline"}
        /\ snd'[s].head = snd[s].head /\ snd'[s].n = snd[s].n /\ snd'[s].tag = snd[s].tag
        /\ snd'[s].pages = snd[s].pages /\ (~Allocate(s) => snd'[s].off = snd[s].off)
    BY <1>1, <1>5, SenderAfter, Zenon
  <2>2. Writing(s) BY <2>1 DEF Writing, Claimed
  <2>3. Slot(s) \in MsgSlots BY <1>1, <2>2, OwnSlot, Zenon
  <2>4. Payload(s)' = Payload(s) /\ Slot(s)' = Slot(s) /\ (~Allocate(s) => Grant(s)' = Grant(s))
    BY <2>1, Zenon DEF Payload, Slot, Grant
  <2>5. CASE Envelope(s)
    <3>1. snd'[s].at \in {"inline", "alloc"} BY <1>1, <2>5, SenderAfter
    <3>2. msgs'[Slot(s)].src = s /\ msgs'[Slot(s)].tag = snd[s].tag BY <1>1, <2>3, <2>5, MessageAfter, Zenon
    <3>3. /\ snd'[s].at \notin {"copy", "notinline"} /\ snd'[s].at # "notinline"
          /\ snd'[s].at # "norptr" /\ snd'[s].at # "publish"
      BY <3>1
    <3> QED BY <2>1, <2>4, <3>2, <3>3, Zenon DEF Wrote
  <2>6. CASE InlineData(s)
    <3>1. snd[s].at = "inline" /\ snd'[s].at = "norptr" BY <1>1, <2>6, SenderAfter, Zenon
    <3>2. /\ msgs'[Slot(s)].src = msgs[Slot(s)].src /\ msgs'[Slot(s)].tag = msgs[Slot(s)].tag
          /\ msgs'[Slot(s)].inlined /\ msgs'[Slot(s)].data = Payload(s)
      BY <1>1, <2>3, <2>6, MessageAfter, Zenon
    <3>3. msgs[Slot(s)].src = s /\ msgs[Slot(s)].tag = snd[s].tag
      <4>1. snd[s].at \in Enveloped BY <3>1 DEF Enveloped
      <4> QED BY <1>2, <4>1, Zenon DEF Wrote
    <3>4. snd'[s].at \notin {"copy", "notinline"} /\ snd'[s].at # "notinline" /\ snd'[s].at # "publish" BY <3>1
    <3> QED BY <2>1, <2>4, <3>2, <3>3, <3>4, Zenon DEF Wrote
  <2>7. CASE InlineRptr(s)
    <3>1. snd[s].at = "norptr" /\ snd'[s].at = "publish" BY <1>1, <2>7, SenderAfter, Zenon
    <3>2. /\ msgs'[Slot(s)].src = msgs[Slot(s)].src /\ msgs'[Slot(s)].tag = msgs[Slot(s)].tag
          /\ msgs'[Slot(s)].inlined = msgs[Slot(s)].inlined /\ msgs'[Slot(s)].data = msgs[Slot(s)].data
      BY <1>1, <2>3, <2>7, MessageAfter, Zenon
    <3>3. msgs[Slot(s)].src = s /\ msgs[Slot(s)].tag = snd[s].tag
      <4>1. snd[s].at \in Enveloped BY <3>1 DEF Enveloped
      <4> QED BY <1>2, <4>1, Zenon DEF Wrote
    <3>4. msgs[Slot(s)].inlined /\ msgs[Slot(s)].data = Payload(s) BY <1>2, <3>1, Zenon DEF Wrote
    <3>5. Content(msgs'[Slot(s)], page') = Payload(s) /\ msgs'[Slot(s)].inlined BY <3>2, <3>4, Zenon DEF Content
    <3>6. snd'[s].at \notin {"copy", "notinline"} /\ snd'[s].at # "notinline" /\ snd'[s].at # "norptr" BY <3>1
    <3> QED BY <2>1, <2>4, <3>2, <3>3, <3>5, <3>6, Zenon DEF Wrote
  <2>8. CASE Allocate(s)
    <3>1. /\ snd[s].at = "alloc" /\ snd'[s].off = alloc_offset
          /\ snd'[s].at = IF Fits(alloc_offset, snd[s].pages) THEN "copy" ELSE "rollback"
      BY <1>1, <2>8, SenderAfter, Zenon
    <3>2. msgs' = msgs BY <2>8, Zenon DEF Allocate
    <3>3. msgs[Slot(s)].src = s /\ msgs[Slot(s)].tag = snd[s].tag
      <4>1. snd[s].at \in Enveloped BY <3>1 DEF Enveloped
      <4> QED BY <1>2, <4>1, Zenon DEF Wrote
    <3>4. snd'[s].at \in {"copy", "notinline"} => Grant(s)' \in granted'
      <4>1. CASE Fits(alloc_offset, snd[s].pages)
        <5>1. [by |-> Payload(s), from |-> alloc_offset, to |-> alloc_offset + snd[s].pages] \in granted'
          BY <2>8, <4>1, Zenon DEF Allocate
        <5>2. Grant(s)' = [by |-> Payload(s), from |-> alloc_offset, to |-> alloc_offset + snd[s].pages]
          BY <2>1, <2>4, <3>1, Zenon DEF Grant
        <5> QED BY <5>1, <5>2, Zenon
      <4>2. CASE ~Fits(alloc_offset, snd[s].pages)
        <5>1. snd'[s].at = "rollback" BY <3>1, <4>2, Zenon
        <5> QED BY <5>1
      <4> QED BY <4>1, <4>2, Zenon
    <3>5. snd'[s].at # "notinline" /\ snd'[s].at # "norptr" /\ snd'[s].at # "publish" BY <3>1
    <3> QED BY <2>1, <2>4, <3>2, <3>3, <3>4, <3>5, Zenon DEF Wrote
  <2>9. CASE CopyOut(s)
    <3>1. snd[s].at = "copy" /\ snd'[s].at = "notinline" /\ ~Allocate(s)
      <4>1. snd[s].at = "copy" /\ snd'[s].at = "notinline" BY <1>1, <2>9, SenderAfter, Zenon
      <4> QED BY <4>1 DEF Allocate
    <3>2. /\ msgs'[Slot(s)].src = msgs[Slot(s)].src /\ msgs'[Slot(s)].tag = msgs[Slot(s)].tag
          /\ msgs'[Slot(s)].rptr = snd[s].off
      BY <1>1, <2>3, <2>9, MessageAfter, Zenon
    <3>3. msgs[Slot(s)].src = s /\ msgs[Slot(s)].tag = snd[s].tag /\ Grant(s) \in granted
      <4>1. snd[s].at \in Enveloped BY <3>1 DEF Enveloped
      <4> QED BY <1>2, <3>1, <4>1, Zenon DEF Wrote
    <3>4. page'[snd[s].off] = Payload(s) BY <2>9, PoolAfter, Zenon
    <3>5. snd'[s].at # "norptr" /\ snd'[s].at # "publish" BY <3>1
    <3> QED BY <1>3, <2>1, <2>4, <3>1, <3>2, <3>3, <3>4, <3>5, Zenon DEF Wrote
  <2>10. CASE NotInline(s)
    <3>1. snd[s].at = "notinline" /\ snd'[s].at = "publish" /\ ~Allocate(s) /\ ~CopyOut(s)
      <4>1. snd[s].at = "notinline" /\ snd'[s].at = "publish" BY <1>1, <2>10, SenderAfter, Zenon
      <4> QED BY <4>1 DEF Allocate, CopyOut, At
    <3>2. /\ msgs'[Slot(s)].src = msgs[Slot(s)].src /\ msgs'[Slot(s)].tag = msgs[Slot(s)].tag
          /\ ~msgs'[Slot(s)].inlined /\ msgs'[Slot(s)].rptr = msgs[Slot(s)].rptr
      BY <1>1, <2>3, <2>10, MessageAfter, Zenon
    <3>3. msgs[Slot(s)].src = s /\ msgs[Slot(s)].tag = snd[s].tag /\ Grant(s) \in granted
      <4>1. snd[s].at \in Enveloped BY <3>1 DEF Enveloped
      <4> QED BY <1>2, <3>1, <4>1, Zenon DEF Wrote
    <3>4. msgs[Slot(s)].rptr = snd[s].off /\ page[snd[s].off] = Payload(s) BY <1>2, <3>1, Zenon DEF Wrote
    <3>5. page' = page BY <3>1, PoolAfter, Zenon
    <3>6. Content(msgs'[Slot(s)], page') = Payload(s) /\ msgs'[Slot(s)].rptr = snd[s].off
      BY <3>2, <3>4, <3>5, Zenon DEF Content
    <3>7. snd'[s].at # "norptr" /\ snd'[s].at \notin {"copy", "notinline"} /\ snd'[s].at # "notinline" BY <3>1
    <3> QED BY <1>3, <2>1, <2>4, <3>1, <3>2, <3>3, <3>6, <3>7, Zenon DEF Wrote
  <2> QED BY <1>5, <2>5, <2>6, <2>7, <2>8, <2>9, <2>10, Zenon
<1> QED BY <1>4, <1>5, Zenon DEF SendStep

\* A message that is published holds the payload of its send.
LEMMA PublishedIntact ==
  ASSUME MailInv, PoolSound, SlotsInv, ContentInv, ~overtaken, ~crossed', NEW s \in Senders, Publish(s)
  PROVE  LET q == msgs'[Slot(s)]
         IN /\ Slot(s) \in MsgSlots /\ Writing(s) /\ q.state = "READY" /\ q.src = s /\ q.tag = snd[s].tag
            /\ Content(q, page') = Payload(s)
            /\ Intact(q, page', published', granted')
<1>1. MailTypes /\ SlotsOwned BY Zenon DEF MailInv, SlotsInv
<1> DEFINE q == msgs'[Slot(s)]
           m == msgs[Slot(s)]
<1>2. snd[s].at = "publish" /\ UNCHANGED <<page, granted, crossed>> /\ Payload(s) \in published'
  BY Zenon DEF Publish
<1>3. Writing(s) BY <1>2 DEF Writing, Claimed
<1>4. Slot(s) \in MsgSlots BY <1>1, <1>3, OwnSlot, Zenon
<1>5. /\ q.state = "READY" /\ q.src = m.src /\ q.tag = m.tag /\ q.inlined = m.inlined
      /\ q.data = m.data /\ q.rptr = m.rptr
  BY <1>1, <1>4, MessageAfter, Zenon
<1>6. Wrote(s, m, page) BY Zenon DEF ContentInv
<1>7. /\ m.src = s /\ m.tag = snd[s].tag /\ Content(m, page) = Payload(s)
      /\ ~m.inlined => m.rptr = snd[s].off /\ Grant(s) \in granted
  <2>1. snd[s].at \in Enveloped BY <1>2 DEF Enveloped
  <2> QED BY <1>2, <1>6, <2>1, Zenon DEF Wrote
<1>8. Content(q, page') = Payload(s)
  <2>1. Content(q, page) = Content(m, page) BY <1>5, Zenon DEF Content
  <2> QED BY <1>2, <1>7, <2>1, Zenon
<1>9. Payload(s)[1] = s BY DEF Payload
<1>10. Grant(s).by = Payload(s) /\ Grant(s).from = snd[s].off BY Zenon DEF Grant
<1>11. Grant(s) \in granted => snd[s].off # NullRptr
  <2>1. snd[s].off \in Int BY Zenon DEF MailInv, MailTypes, SendTypes
  <2>2. Grant(s) \in granted => 0 <= snd[s].off BY <1>2, <1>10, Zenon DEF PoolSound
  <2> QED BY <2>1, <2>2 DEF NullRptr
<1>12. Intact(q, page', published', granted')
  <2>1. ~q.inlined => /\ q.rptr # NullRptr
                      /\ \E g \in granted' : g.by = Content(q, page') /\ g.from = q.rptr
    <3>1. SUFFICES ASSUME ~q.inlined
                   PROVE  q.rptr # NullRptr /\ \E g \in granted' : g.by = Content(q, page') /\ g.from = q.rptr
      BY Zenon
    <3>2. q.rptr = snd[s].off /\ Grant(s) \in granted' BY <1>2, <1>5, <1>7, <3>1, Zenon
    <3> HIDE DEF q, m
    <3> QED BY <1>2, <1>8, <1>10, <1>11, <3>2, Zenon
  <2> HIDE DEF q, m
  <2> QED BY <1>2, <1>5, <1>7, <1>8, <1>9, <2>1, Zenon DEF Intact
<1> QED BY <1>3, <1>4, <1>5, <1>7, <1>8, <1>12, Zenon

\* A step of the owner changes nothing in a message but its state, and makes no
\* empty one full.
LEMMA OwnerMarks ==
  ASSUME MailInv, OwnerReads, RecvStep, NEW k \in MsgSlots
  PROVE  /\ msgs'[k].src = msgs[k].src /\ msgs'[k].tag = msgs[k].tag
         /\ msgs'[k].inlined = msgs[k].inlined /\ msgs'[k].data = msgs[k].data
         /\ msgs'[k].rptr = msgs[k].rptr
         /\ msgs[k].state = "EMPTY" => msgs'[k].state = "EMPTY"
<1>1. MailTypes BY Zenon DEF MailInv
<1>2. CASE msgs' = msgs BY <1>2, Zenon
<1>3. ASSUME NEW z \in MsgSlots, NEW st, msgs' = [msgs EXCEPT ![z].state = st], msgs[z].state # "EMPTY"
      PROVE  /\ msgs'[k].src = msgs[k].src /\ msgs'[k].tag = msgs[k].tag
             /\ msgs'[k].inlined = msgs[k].inlined /\ msgs'[k].data = msgs[k].data
             /\ msgs'[k].rptr = msgs[k].rptr
             /\ msgs[k].state = "EMPTY" => msgs'[k].state = "EMPTY"
  <2>1. CASE k = z BY <1>1, <1>3, <2>1, StateSet, Zenon
  <2>2. CASE k # z
    <3>1. msgs'[k] = msgs[k] BY <1>1, <1>3, <2>2, StateSet, Zenon
    <3> QED BY <3>1, Zenon
  <2> QED BY <2>1, <2>2, Zenon
<1>4. CASE RecvScan /\ ~UNCHANGED msgs
  <2>1. /\ rcv.at = "scan" /\ Wanted(msgs[SlotOf(rcv.i)])
        /\ msgs' = [msgs EXCEPT ![SlotOf(rcv.i)].state = "READING"]
    BY <1>4, Zenon DEF RecvScan
  <2>2. SlotOf(rcv.i) \in MsgSlots /\ msgs[SlotOf(rcv.i)].state # "EMPTY"
    <3>1. rcv.at \in {"scan", "copy", "consume"} BY <2>1
    <3>2. SlotOf(rcv.i) \in MsgSlots BY <3>1, ReadingLive, Zenon
    <3> QED BY <2>1, <3>2 DEF Wanted
  <2> QED BY <1>3, <2>1, <2>2, Zenon
<1>5. CASE RecvCopy \/ RecvConsume
  <2>1. /\ rcv.at \in {"copy", "consume"}
        /\ msgs' = msgs \/ \E st : msgs' = [msgs EXCEPT ![SlotOf(rcv.i)].state = st]
    BY <1>5, Zenon DEF RecvCopy, RecvConsume
  <2>2. rcv.at \in {"scan", "copy", "consume"} BY <2>1
  <2>3. SlotOf(rcv.i) \in MsgSlots BY <2>2, ReadingLive, Zenon
  <2>4. msgs[SlotOf(rcv.i)].state = "READING" BY <2>1, Zenon DEF OwnerReads, Msg
  <2>5. msgs[SlotOf(rcv.i)].state # "EMPTY" BY <2>4
  <2> QED BY <1>2, <1>3, <2>1, <2>3, <2>5, Zenon
<1>6. CASE RecvAdvance /\ ~UNCHANGED msgs
  <2>1. /\ rcv.at = "advance" /\ msgs[SlotOf(rcv.tail)].state = "CONSUMED"
        /\ msgs' = [msgs EXCEPT ![SlotOf(rcv.tail)].state = "EMPTY"]
    BY <1>6, Zenon DEF RecvAdvance
  <2>2. SlotOf(rcv.tail) \in MsgSlots
    <3>1. rcv.tail \in Nat BY Zenon DEF MailInv, MailTypes, RecvTypes
    <3> QED BY <3>1, SlotInRange, Zenon
  <2>3. msgs[SlotOf(rcv.tail)].state # "EMPTY" BY <2>1
  <2> QED BY <1>3, <2>1, <2>2, <2>3, Zenon
<1> QED BY <1>2, <1>4, <1>5, <1>6, Zenon DEF RecvStep, RecvTail, RecvHead

\* Every step keeps the payloads.
LEMMA ContentKept ==
  ASSUME MailInv, PoolSound, SlotsInv, ContentInv, ~overtaken, ~crossed', [MailNext]_mailVars
  PROVE  ContentInv'
<1>1. MailTypes /\ SlotsOwned /\ OwnerReads BY Zenon DEF MailInv, SlotsInv
<1>2. ASSUME NEW s \in Senders, SendStep(s) PROVE ContentInv'
  <2>1. \A u \in Senders : Wrote(u, msgs[Slot(u)], page)' BY <1>2, OthersWrote, SelfWrote, Zenon
  <2>2. ASSUME NEW k \in MsgSlots, msgs'[k].state # "EMPTY" PROVE Intact(msgs'[k], page', published', granted')
    <3>1. CASE msgs[k].state # "EMPTY" BY <1>2, <3>1, MessagesStay, Zenon
    <3>2. CASE msgs[k].state = "EMPTY"
      <4>1. Publish(s) /\ k = Slot(s) BY <1>1, <1>2, <2>2, <3>2, SenderLeaves, Zenon
      <4> QED BY <4>1, PublishedIntact, Zenon
    <3> QED BY <3>1, <3>2, Zenon
  <2> QED BY <2>1, <2>2, Zenon DEF ContentInv
<1>3. CASE RecvStep
  <2>1. UNCHANGED <<snd, published, page, granted>> BY <1>3, OwnerLeaves, Zenon
  <2>2. ASSUME NEW m, NEW q, q.src = m.src, q.tag = m.tag, q.inlined = m.inlined, q.data = m.data, q.rptr = m.rptr
        PROVE  /\ Content(q, page) = Content(m, page)
               /\ Intact(m, page, published, granted) => Intact(q, page, published, granted)
               /\ \A s \in Senders : Wrote(s, m, page) => Wrote(s, q, page)
    <3>1. Content(q, page) = Content(m, page) BY <2>2, Zenon DEF Content
    <3>2. Intact(m, page, published, granted) => Intact(q, page, published, granted) BY <2>2, <3>1, Zenon DEF Intact
    <3>3. \A s \in Senders : Wrote(s, m, page) => Wrote(s, q, page) BY <2>2, <3>1, Zenon DEF Wrote
    <3> QED BY <3>1, <3>2, <3>3, Zenon
  <2>3. ASSUME NEW s \in Senders PROVE Wrote(s, msgs[Slot(s)], page)'
    <3>0. Wrote(s, msgs[Slot(s)], page) BY Zenon DEF ContentInv
    <3>1. Slot(s) \in MsgSlots
      <4>1. snd[s].head \in Nat BY Zenon DEF MailInv, MailTypes, SendTypes
      <4> QED BY <4>1, SlotInRange, Zenon DEF Slot
    <3>2. Slot(s)' = Slot(s) BY <2>1, Zenon DEF Slot
    <3>3. Wrote(s, msgs'[Slot(s)], page)
      <4> DEFINE m == msgs[Slot(s)]
                 q == msgs'[Slot(s)]
      <4>1. q.src = m.src /\ q.tag = m.tag /\ q.inlined = m.inlined /\ q.data = m.data /\ q.rptr = m.rptr
        BY <1>1, <1>3, <3>1, OwnerMarks, Zenon
      <4> HIDE DEF m, q
      <4>2. Wrote(s, m, page) => Wrote(s, q, page) BY <2>2, <4>1, Zenon
      <4> QED BY <3>0, <4>2, Zenon DEF m, q
    <3> QED BY <2>1, <3>2, <3>3, Zenon DEF Wrote, Grant, Payload
  <2>4. ASSUME NEW k \in MsgSlots, msgs'[k].state # "EMPTY" PROVE Intact(msgs'[k], page', published', granted')
    <3> DEFINE m == msgs[k]
               q == msgs'[k]
    <3>1. /\ q.src = m.src /\ q.tag = m.tag /\ q.inlined = m.inlined /\ q.data = m.data /\ q.rptr = m.rptr
          /\ m.state # "EMPTY"
      BY <1>1, <1>3, <2>4, OwnerMarks, Zenon
    <3>2. Intact(m, page, published, granted) BY <3>1, Zenon DEF ContentInv
    <3> HIDE DEF m, q
    <3>3. Intact(q, page, published, granted) BY <2>2, <3>1, <3>2, Zenon
    <3> QED BY <2>1, <3>3, Zenon DEF q
  <2> QED BY <2>3, <2>4, Zenon DEF ContentInv
<1>4. CASE Deactivate \/ UNCHANGED mailVars
  <2>1. UNCHANGED <<msgs, snd, published, page, granted>> BY <1>4, Zenon DEF Deactivate, mailVars
  <2> QED BY <2>1, Zenon DEF ContentInv, Wrote, Grant, Payload, Slot
<1> QED BY <1>2, <1>3, <1>4, Zenon DEF MailNext, RecvStep

\* The number of the send whose payload the message at index i holds.
Number(i) == Content(Msg(i), page)[2]
Full(i) == Msg(i).state # "EMPTY"

\* The messages of one sender lie in the queue in the order of its sends, and
\* the one it is writing is behind them.
InOrder ==
  /\ \A i, j \in Live : Full(i) /\ Full(j) /\ Msg(i).src = Msg(j).src /\ i < j => Number(i) < Number(j)
  /\ \A s \in Senders, i \in Live : Writing(s) /\ Full(i) /\ Msg(i).src = s => i < snd[s].head

DeliverInv == PoolSound /\ SlotsInv /\ ContentInv

\* Without a publication every full message was there before, with its payload.
LEMMA FullStays ==
  ASSUME MailInv, DeliverInv, ~overtaken, ~crossed', [MailNext]_mailVars, \A s \in Senders : ~Publish(s),
         NEW k \in MsgSlots, msgs'[k].state # "EMPTY"
  PROVE  /\ msgs[k].state # "EMPTY" /\ msgs'[k].src = msgs[k].src /\ msgs'[k].tag = msgs[k].tag
         /\ Content(msgs'[k], page') = Content(msgs[k], page)
<1>1. MailTypes /\ OwnerReads /\ PoolSound /\ SlotsInv /\ ContentInv BY Zenon DEF MailInv, SlotsInv, DeliverInv
<1>2. ASSUME NEW s \in Senders, SendStep(s)
      PROVE  /\ msgs[k].state # "EMPTY" /\ msgs'[k].src = msgs[k].src /\ msgs'[k].tag = msgs[k].tag
             /\ Content(msgs'[k], page') = Content(msgs[k], page)
  <2>1. msgs[k].state # "EMPTY" BY <1>1, <1>2, SenderLeaves, Zenon
  <2>2. msgs'[k] = msgs[k] /\ Content(msgs'[k], page') = Content(msgs[k], page)
    BY <1>1, <1>2, <2>1, MessagesStay, Zenon
  <2> QED BY <2>1, <2>2, Zenon
<1>3. CASE RecvStep
  <2> DEFINE m == msgs[k]
             q == msgs'[k]
  <2>1. /\ q.src = m.src /\ q.tag = m.tag /\ q.inlined = m.inlined /\ q.data = m.data /\ q.rptr = m.rptr
        /\ m.state # "EMPTY"
    BY <1>1, <1>3, OwnerMarks, Zenon
  <2>2. page' = page BY <1>3, OwnerLeaves, Zenon
  <2> HIDE DEF m, q
  <2>3. Content(q, page) = Content(m, page) BY <2>1, Zenon DEF Content
  <2> QED BY <2>1, <2>2, <2>3, Zenon DEF m, q
<1>4. CASE Deactivate \/ UNCHANGED mailVars
  <2>1. UNCHANGED <<msgs, page>> BY <1>4, Zenon DEF Deactivate, mailVars
  <2> QED BY <2>1, Zenon
<1> QED BY <1>2, <1>3, <1>4, Zenon DEF MailNext, RecvStep

\* The tail the owner is at only moves on.
LEMMA LowGrows ==
  ASSUME MailInv, OwnerReads, [MailNext]_mailVars
  PROVE  Low \in Nat /\ Low' \in Nat /\ Low <= Low'
<1>1. /\ MailTypes /\ box_tail \in Nat /\ rcv.tail \in Nat /\ Low \in Nat
      /\ rcv.at # "idle" => box_tail <= rcv.tail
  <2>1. Low \in Nat BY LiveFacts, Zenon
  <2> QED BY <2>1, Zenon DEF MailInv, MailTypes, RecvTypes, OwnerLags
<1>2. CASE UNCHANGED <<rcv, box_tail>>
  <2>1. Low' = Low BY <1>2, Zenon DEF Low
  <2> QED BY <1>1, <2>1
<1>3. ASSUME NEW s \in Senders, SendStep(s) PROVE UNCHANGED <<rcv, box_tail>>
  BY <1>1, <1>3, SenderLeaves, Zenon
<1>4. CASE RecvTail \/ RecvHead \/ RecvScan \/ RecvCopy
  <2>1. box_tail' = box_tail /\ rcv.at \in {"idle", "head", "scan", "copy"}
    BY <1>4, Zenon DEF RecvTail, RecvHead, RecvScan, RecvCopy
  <2>2. rcv'.at # "advance"
    <3>1. CASE rcv' = NoRecv BY <3>1 DEF NoRecv
    <3>2. CASE rcv' # NoRecv
      <4>1. rcv'.at \in {"head", "scan", "copy", "consume"}
        BY <1>1, <1>4, <3>2 DEF RecvTail, RecvHead, RecvScan, RecvCopy, MailTypes, RecvTypes
      <4> QED BY <4>1
    <3> QED BY <3>1, <3>2, Zenon
  <2>3. Low' = Low BY <2>1, <2>2 DEF Low
  <2> QED BY <1>1, <2>3
<1>5. CASE RecvConsume
  <2>1. /\ rcv.at = "consume" /\ box_tail' = box_tail /\ rcv.tail = box_tail
        /\ rcv' = NoRecv \/ rcv' = [rcv EXCEPT !.at = "advance"]
    <3>1. rcv.at = "consume" BY <1>5, Zenon DEF RecvConsume
    <3>2. rcv.tail = box_tail BY <3>1, Zenon DEF OwnerReads
    <3> QED BY <1>5, <3>1, <3>2, Zenon DEF RecvConsume
  <2>2. CASE rcv' = NoRecv
    <3>1. Low' = box_tail /\ Low = box_tail BY <2>1, <2>2 DEF Low, NoRecv
    <3> QED BY <1>1, <3>1
  <2>3. CASE rcv' = [rcv EXCEPT !.at = "advance"]
    <3>1. rcv'.tail = rcv.tail BY <1>1, <2>3, Zenon DEF MailTypes, RecvTypes
    <3>2. Low' = box_tail /\ Low = box_tail BY <2>1, <3>1 DEF Low
    <3> QED BY <1>1, <3>2
  <2> QED BY <2>1, <2>2, <2>3, Zenon
<1>6. CASE RecvAdvance
  <2>1. rcv.at = "advance" /\ Low = rcv.tail BY <1>6, Zenon DEF RecvAdvance, Low
  <2>2. CASE rcv' = [rcv EXCEPT !.tail = rcv.tail + 1]
    <3>1. rcv'.tail = rcv.tail + 1 /\ rcv'.at = "advance" BY <1>1, <2>1, <2>2, Zenon DEF MailTypes, RecvTypes
    <3>2. Low' = rcv.tail + 1 BY <3>1, Zenon DEF Low
    <3> QED BY <1>1, <2>1, <3>2
  <2>3. CASE box_tail' = rcv.tail /\ rcv' = NoRecv
    <3>1. Low' = rcv.tail BY <2>3 DEF Low, NoRecv
    <3> QED BY <1>1, <2>1, <3>1
  <2> QED BY <1>6, <2>2, <2>3, Zenon DEF RecvAdvance
<1>7. CASE Deactivate \/ UNCHANGED mailVars
  <2>1. UNCHANGED <<rcv, box_tail>> BY <1>7, Zenon DEF Deactivate, mailVars
  <2> QED BY <1>2, <2>1, Zenon
<1> QED BY <1>2, <1>3, <1>4, <1>5, <1>6, <1>7, Zenon DEF MailNext

\* A live index whose message is full was live before the step.
LEMMA FullWasLive ==
  ASSUME MailInv, MailInv', OwnerReads, SlotsOwned', [MailNext]_mailVars,
         NEW i \in Live', msgs'[SlotOf(i)].state # "EMPTY"
  PROVE  i \in Live
<1>1. i \in Nat /\ Low' <= i /\ i < box_head' BY LiveNext, Zenon DEF LiveOK
<1>2. Low \in Nat /\ Low' \in Nat /\ Low <= Low' BY LowGrows, Zenon
<1>3. Low <= i BY <1>1, <1>2
<1>4. \A j : j \in Live <=> j \in Nat /\ Low <= j /\ j < box_head BY LiveFacts, Zenon
<1>5. i < box_head
  <2>0. MailTypes /\ box_head \in Nat BY Zenon DEF MailInv, MailTypes
  <2>1. CASE box_head' = box_head BY <1>1, <2>1, Zenon
  <2>2. ASSUME NEW s \in Senders, SendClaim(s) PROVE i < box_head
    <3>0. SendStep(s) BY <2>2, Zenon DEF SendStep
    <3>1. box_head' = box_head + 1 /\ snd'[s].head = box_head /\ snd'[s].at \in Claimed
      <4>1. snd'[s].at \in Claimed BY <2>0, <2>2, <3>0, SenderIndex, Zenon
      <4>2. snd'[s].head = box_head BY <2>0, <2>2, SenderAfter, Zenon
      <4> QED BY <2>2, <4>1, <4>2, Zenon DEF SendClaim
    <3>2. i # box_head BY <3>1, Zenon DEF SlotsOwned, Writing, Msg
    <3> QED BY <1>1, <2>0, <3>1, <3>2
  <2>3. ASSUME NEW s \in Senders, SendStep(s), ~SendClaim(s) PROVE box_head' = box_head
    BY <2>0, <2>3, SenderLeaves, Zenon
  <2>4. CASE RecvStep BY <2>1, <2>4, OwnerLeaves, Zenon
  <2>5. CASE Deactivate \/ UNCHANGED mailVars
    <3>1. box_head' = box_head BY <2>5, Zenon DEF Deactivate, mailVars
    <3> QED BY <2>1, <3>1, Zenon
  <2> QED BY <2>1, <2>2, <2>3, <2>4, <2>5, Zenon DEF MailNext, RecvStep
<1> QED BY <1>1, <1>3, <1>4, <1>5, Zenon

\* A sender with an index had it before the step, or has claimed the last one.
LEMMA WasWriting ==
  ASSUME MailTypes, [MailNext]_mailVars, NEW u \in Senders, Writing(u)'
  PROVE  \/ Writing(u) /\ snd'[u].head = snd[u].head
         \/ snd'[u].head = box_head /\ ~\E s \in Senders : Publish(s)
<1>1. ASSUME NEW s \in Senders, SendStep(s)
      PROVE  \/ Writing(u) /\ snd'[u].head = snd[u].head
             \/ snd'[u].head = box_head /\ ~\E t \in Senders : Publish(t)
  <2>1. CASE u # s
    <3>1. snd'[u] = snd[u] BY <1>1, <2>1, SenderLeaves, Zenon
    <3> QED BY <3>1, Zenon DEF Writing
  <2>2. CASE u = s
    <3>0. snd'[s].at \in Claimed BY <2>2, Zenon DEF Writing
    <3>1. CASE SendClaim(s)
      <4>1. snd'[s].head = box_head BY <3>1, SenderAfter, Zenon
      <4>2. ~\E t \in Senders : Publish(t)
        <5>1. box_head' = box_head + 1 BY <3>1, Zenon DEF SendClaim
        <5>2. box_head' # box_head BY <5>1 DEF MailTypes
        <5> QED BY <5>2, Zenon DEF Publish
      <4> QED BY <2>2, <4>1, <4>2, Zenon
    <3>2. CASE ~SendClaim(s)
      <4>1. Writing(s) /\ snd'[s].head = snd[s].head BY <1>1, <3>0, <3>2, SenderIndex, Zenon
      <4> QED BY <2>2, <4>1, Zenon
    <3> QED BY <3>1, <3>2, Zenon
  <2> QED BY <2>1, <2>2, Zenon
<1>2. CASE RecvStep \/ Deactivate \/ UNCHANGED mailVars
  <2>1. snd' = snd BY <1>2, OwnerLeaves, Zenon DEF Deactivate, mailVars
  <2> QED BY <2>1, Zenon DEF Writing
<1> QED BY <1>1, <1>2, Zenon DEF MailNext, RecvStep

\* What a publication does to the queue.
LEMMA PublishFacts ==
  ASSUME MailInv, DeliverInv, ~overtaken, ~crossed', NEW s \in Senders, Publish(s)
  PROVE  /\ Live' = Live /\ snd[s].head \in Live /\ Writing(s)
         /\ \A i \in Live : i # snd[s].head =>
              /\ msgs'[SlotOf(i)] = msgs[SlotOf(i)]
              /\ Content(msgs'[SlotOf(i)], page') = Content(msgs[SlotOf(i)], page)
         /\ \A i \in Live : Full(i) => Content(Msg(i), page) \in published /\ Content(Msg(i), page)[1] = Msg(i).src
         /\ msgs'[Slot(s)].state = "READY" /\ msgs'[Slot(s)].src = s
         /\ Content(msgs'[Slot(s)], page') = Payload(s)
<1>1. MailTypes /\ SlotsOwned /\ PoolSound /\ SlotsInv /\ ContentInv BY Zenon DEF MailInv, SlotsInv, DeliverInv
<1>2. /\ Slot(s) \in MsgSlots /\ Writing(s) /\ msgs'[Slot(s)].state = "READY" /\ msgs'[Slot(s)].src = s
      /\ Content(msgs'[Slot(s)], page') = Payload(s)
  BY <1>1, PublishedIntact, Zenon
<1>3. UNCHANGED <<rcv, box_head, box_tail, page>> BY Zenon DEF Publish
<1>4. Live' = Live BY <1>3, Zenon DEF Live, Low
<1>5. snd[s].head \in Live BY <1>1, <1>2, Zenon DEF SlotsOwned
<1>6. /\ \A i \in Live : SlotOf(i) \in MsgSlots
      /\ \A i, j \in Live : SlotOf(i) = SlotOf(j) => i = j
  BY LiveFacts, Zenon
<1>7. SendStep(s) BY Zenon DEF SendStep
<1>8. \A i \in Live : i # snd[s].head => msgs'[SlotOf(i)] = msgs[SlotOf(i)]
  BY <1>1, <1>5, <1>6, <1>7, SenderLeaves, Zenon DEF Slot
<1>9. \A i \in Live : Full(i) => Content(Msg(i), page) \in published /\ Content(Msg(i), page)[1] = Msg(i).src
  BY <1>1, <1>6, Zenon DEF ContentInv, Intact, Full, Msg
<1> QED BY <1>2, <1>3, <1>4, <1>5, <1>8, <1>9, Zenon

\* Every step keeps the order of the queue.
LEMMA OrderKept ==
  ASSUME MailInv, MailInv', DeliverInv, SlotsOwned', InOrder, ~overtaken, ~crossed', [MailNext]_mailVars
  PROVE  InOrder'
<1>1. MailTypes /\ OwnerReads /\ Numbered BY Zenon DEF MailInv, SlotsInv, DeliverInv
<1>2. /\ \A i \in Live : SlotOf(i) \in MsgSlots
      /\ \A i : i \in Live <=> i \in Nat /\ Low <= i /\ i < box_head
  BY LiveFacts, Zenon
<1>3. ASSUME NEW i \in Live', msgs'[SlotOf(i)].state # "EMPTY" PROVE i \in Live
  BY <1>1, <1>3, FullWasLive, Zenon
<1>4. CASE \A s \in Senders : ~Publish(s)
  <2>1. ASSUME NEW i \in Live', msgs'[SlotOf(i)].state # "EMPTY"
        PROVE  /\ i \in Live /\ Full(i) /\ msgs'[SlotOf(i)].src = Msg(i).src
               /\ Content(msgs'[SlotOf(i)], page')[2] = Number(i)
    <3>1. i \in Live /\ SlotOf(i) \in MsgSlots BY <1>2, <1>3, <2>1, Zenon
    <3> QED BY <1>4, <2>1, <3>1, FullStays, Zenon DEF Full, Msg, Number
  <2>2. ASSUME NEW u \in Senders, NEW i \in Live', Writing(u)', msgs'[SlotOf(i)].state # "EMPTY",
               msgs'[SlotOf(i)].src = u
        PROVE  i < snd'[u].head
    <3>1. i \in Live /\ Full(i) /\ Msg(i).src = u BY <2>1, <2>2, Zenon
    <3>2. CASE Writing(u) /\ snd'[u].head = snd[u].head BY <3>1, <3>2, Zenon DEF InOrder
    <3>3. CASE snd'[u].head = box_head BY <1>2, <3>1, <3>3, Zenon
    <3> QED BY <1>1, <2>2, <3>2, <3>3, WasWriting, Zenon
  <2>3. ASSUME NEW i \in Live', NEW j \in Live', msgs'[SlotOf(i)].state # "EMPTY", msgs'[SlotOf(j)].state # "EMPTY",
               msgs'[SlotOf(i)].src = msgs'[SlotOf(j)].src, i < j
        PROVE  Content(msgs'[SlotOf(i)], page')[2] < Content(msgs'[SlotOf(j)], page')[2]
    <3>1. /\ i \in Live /\ Full(i) /\ msgs'[SlotOf(i)].src = Msg(i).src
          /\ Content(msgs'[SlotOf(i)], page')[2] = Number(i)
      BY <2>1, <2>3, Zenon
    <3>2. /\ j \in Live /\ Full(j) /\ msgs'[SlotOf(j)].src = Msg(j).src
          /\ Content(msgs'[SlotOf(j)], page')[2] = Number(j)
      BY <2>1, <2>3, Zenon
    <3>3. Number(i) < Number(j) BY <2>3, <3>1, <3>2, Zenon DEF InOrder
    <3> QED BY <3>1, <3>2, <3>3, Zenon
  <2> QED BY <2>2, <2>3, Zenon DEF InOrder, Full, Msg, Number
<1>5. ASSUME NEW s \in Senders, Publish(s) PROVE InOrder'
  <2> DEFINE h == snd[s].head
  <2>1. /\ Live' = Live /\ h \in Live /\ Writing(s)
        /\ \A i \in Live : i # h =>
             /\ msgs'[SlotOf(i)] = msgs[SlotOf(i)]
             /\ Content(msgs'[SlotOf(i)], page') = Content(msgs[SlotOf(i)], page)
        /\ \A i \in Live : Full(i) => Content(Msg(i), page) \in published /\ Content(Msg(i), page)[1] = Msg(i).src
        /\ msgs'[SlotOf(h)].src = s
        /\ Content(msgs'[SlotOf(h)], page') = Payload(s)
    BY <1>5, PublishFacts, Zenon DEF Slot
  <2>2. Payload(s)[2] = snd[s].n /\ \A p \in published : p[1] = s => p[2] < snd[s].n
    <3>1. snd[s].at # "idle" BY <2>1 DEF Writing, Claimed
    <3> QED BY <1>1, <3>1, NotYetPublished, Zenon
  <2>3. ASSUME NEW u \in Senders, NEW i \in Live, Writing(u)', msgs'[SlotOf(i)].state # "EMPTY",
               msgs'[SlotOf(i)].src = u
        PROVE  i < snd'[u].head
    <3>0. SendStep(s) /\ ~(snd'[s].at \in Claimed)
      <4>1. SendStep(s) BY <1>5, Zenon DEF SendStep
      <4> QED BY <1>1, <1>5, <4>1, SenderIndex, Zenon
    <3>1. u # s BY <2>3, <3>0, Zenon DEF Writing
    <3>2. i # h BY <2>1, <2>3, <3>1, Zenon
    <3>3. Full(i) /\ Msg(i).src = u
      <4>1. msgs'[SlotOf(i)] = msgs[SlotOf(i)] BY <2>1, <3>2, Zenon
      <4>2. msgs[SlotOf(i)].state # "EMPTY" /\ msgs[SlotOf(i)].src = u BY <2>3, <4>1
      <4> QED BY <4>2, Zenon DEF Full, Msg
    <3>4. Writing(u) /\ snd'[u].head = snd[u].head BY <1>1, <1>5, <2>3, WasWriting, Zenon
    <3> QED BY <3>3, <3>4, Zenon DEF InOrder
  <2>4. ASSUME NEW i \in Live, NEW j \in Live, msgs'[SlotOf(i)].state # "EMPTY", msgs'[SlotOf(j)].state # "EMPTY",
               msgs'[SlotOf(i)].src = msgs'[SlotOf(j)].src, i < j
        PROVE  Content(msgs'[SlotOf(i)], page')[2] < Content(msgs'[SlotOf(j)], page')[2]
    <3>0. i \in Nat /\ j \in Nat /\ h \in Nat BY <1>2, <2>1, Zenon
    <3>1. CASE i # h /\ j # h
      <4>1. Full(i) /\ Full(j) /\ Msg(i).src = Msg(j).src BY <2>1, <2>4, <3>1, Zenon DEF Full, Msg
      <4>2. Number(i) < Number(j) BY <2>4, <4>1, Zenon DEF InOrder
      <4> QED BY <2>1, <3>1, <4>2, Zenon DEF Number, Msg
    <3>2. CASE i = h
      <4>1. j # h BY <2>4, <3>0, <3>2
      <4>2. Full(j) /\ Msg(j).src = s BY <2>1, <2>4, <3>2, <4>1, Zenon DEF Full, Msg
      <4>3. j < h BY <2>1, <4>2, Zenon DEF InOrder
      <4> HIDE DEF h
      <4> QED BY <2>4, <3>0, <3>2, <4>3
    <3>3. CASE j = h /\ i # h
      <4>1. Full(i) /\ Msg(i).src = s BY <2>1, <2>4, <3>3, Zenon DEF Full, Msg
      <4>2. Content(Msg(i), page)[2] < snd[s].n BY <2>1, <2>2, <4>1, Zenon
      <4>3. Content(msgs'[SlotOf(i)], page') = Content(Msg(i), page) BY <2>1, <3>3, Zenon DEF Msg
      <4> QED BY <2>1, <2>2, <3>3, <4>2, <4>3, Zenon
    <3> QED BY <3>1, <3>2, <3>3, Zenon
  <2>5. \A u \in Senders, i \in Live' : Writing(u)' /\ Full(i)' /\ (Msg(i).src = u)' => i < snd'[u].head
    BY <2>1, <2>3, Zenon DEF Full, Msg
  <2>6. \A i, j \in Live' : Full(i)' /\ Full(j)' /\ (Msg(i).src = Msg(j).src)' /\ i < j => (Number(i) < Number(j))'
    BY <2>1, <2>4, Zenon DEF Full, Msg, Number
  <2> QED BY <2>5, <2>6, Zenon DEF InOrder
<1> QED BY <1>4, <1>5, Zenon

\* What cxl_recv has returned comes from a send of the sender it names, in the
\* order of the sends of that sender with that tag, and before what is unread.
GotInOrder ==
  /\ \E S : got \in Seq(S)
  /\ \A k \in DOMAIN got : got[k].data \in published /\ got[k].data[1] = got[k].src
  /\ \A j, k \in DOMAIN got :
       (j < k /\ got[j].src = got[k].src /\ got[j].tag = got[k].tag) => got[j].data[2] < got[k].data[2]
  /\ \A k \in DOMAIN got, u \in Unread :
       (got[k].src = msgs[u].src /\ got[k].tag = msgs[u].tag) => got[k].data[2] < Content(msgs[u], page)[2]

\* A message the call wants and has passed, because it was published after the
\* scan, is behind what its sender has in the rest of the scan: there is
\* nothing, and there will be nothing.
Matches(m) == rcv.src \in {Wild, m.src} /\ rcv.tag \in {Wild, m.tag}
Passed(i) ==
  /\ \A j \in rcv.i .. (rcv.head - 1) : Full(j) => Msg(j).src # Msg(i).src
  /\ \A s \in Senders : Writing(s) /\ s = Msg(i).src => rcv.head <= snd[s].head
ScanInOrder ==
  /\ rcv.at = "copy" => Matches(Msg(rcv.i))
  /\ rcv.at \in {"scan", "copy"} => \A i \in rcv.tail .. (rcv.i - 1) : Wanted(Msg(i)) => Passed(i)

\* Only a publication adds to what is unread, and only a copy takes from it.
LEMMA UnreadStays ==
  ASSUME MailInv, SlotsInv, ~overtaken, [MailNext]_mailVars, \A s \in Senders : ~Publish(s), ~RecvCopy
  PROVE  Unread' = Unread
<1>1. MailTypes /\ OwnerReads BY Zenon DEF MailInv, SlotsInv
<1>2. SUFFICES ASSUME NEW k \in MsgSlots PROVE k \in Unread' <=> k \in Unread BY Zenon DEF Unread
<1>3. ASSUME NEW s \in Senders, SendStep(s) PROVE k \in Unread' <=> k \in Unread
  <2>1. msgs'[k].state = msgs[k].state /\ rcv' = rcv BY <1>1, <1>3, SenderLeaves, Zenon
  <2> QED BY <2>1, Zenon DEF Unread
<1>4. ASSUME rcv.at \notin {"copy", "consume"} PROVE msgs[k].state # "READING"
  BY <1>1, <1>4, Zenon DEF OwnerReads
<1>5. CASE RecvTail \/ RecvHead
  <2>1. msgs' = msgs BY <1>5, Zenon DEF RecvTail, RecvHead
  <2>2. rcv.at \notin {"copy", "consume"} BY <1>5 DEF RecvTail, RecvHead
  <2> QED BY <1>4, <2>1, <2>2, Zenon DEF Unread
<1>6. CASE RecvScan
  <2>1. rcv.at = "scan" BY <1>6, Zenon DEF RecvScan
  <2>2. msgs[k].state # "READING" BY <1>4, <2>1
  <2>3. CASE msgs' = msgs BY <2>2, <2>3, Zenon DEF Unread
  <2>4. CASE /\ Wanted(msgs[SlotOf(rcv.i)]) /\ msgs' = [msgs EXCEPT ![SlotOf(rcv.i)].state = "READING"]
             /\ rcv' = [rcv EXCEPT !.at = "copy"]
    <3>1. SlotOf(rcv.i) \in MsgSlots /\ rcv'.at = "copy"
      <4>1. rcv.i \in Nat BY <1>1, Zenon DEF MailTypes, RecvTypes
      <4> QED BY <1>1, <2>4, <4>1, SlotInRange, Zenon DEF MailTypes, RecvTypes
    <3>2. CASE k = SlotOf(rcv.i)
      <4>1. msgs'[k].state = "READING" BY <1>1, <2>4, <3>1, <3>2, StateSet, Zenon
      <4> QED BY <2>4, <3>1, <3>2, <4>1, Zenon DEF Wanted, Unread
    <3>3. CASE k # SlotOf(rcv.i)
      <4>1. msgs'[k] = msgs[k] BY <1>1, <2>4, <3>1, <3>3, StateSet, Zenon
      <4> QED BY <2>2, <4>1, Zenon DEF Unread
    <3> QED BY <3>2, <3>3, Zenon
  <2> QED BY <1>6, <2>3, <2>4, Zenon DEF RecvScan
<1>7. ASSUME NEW z \in MsgSlots, NEW st \in {"CONSUMED", "EMPTY"}, msgs[z].state \in {"READING", "CONSUMED"},
             msgs' = [msgs EXCEPT ![z].state = st], rcv.at # "copy", rcv'.at # "copy"
      PROVE  k \in Unread' <=> k \in Unread
  <2>1. msgs'[z].state = st /\ (k # z => msgs'[k] = msgs[k]) BY <1>1, <1>7, StateSet, Zenon
  <2>2. st # "READY" /\ msgs[z].state # "READY" BY <1>7
  <2>3. CASE k = z BY <1>7, <2>1, <2>2, <2>3, Zenon DEF Unread
  <2>4. CASE k # z BY <1>7, <2>1, <2>4, Zenon DEF Unread
  <2> QED BY <2>3, <2>4, Zenon
<1>8. CASE RecvConsume
  <2>1. rcv.at = "consume" /\ msgs' = [msgs EXCEPT ![SlotOf(rcv.i)].state = "CONSUMED"]
    BY <1>8, Zenon DEF RecvConsume
  <2>2. rcv'.at # "copy" /\ rcv.at # "copy" BY <1>1, <1>8 DEF RecvConsume, NoRecv, MailTypes, RecvTypes
  <2>3. SlotOf(rcv.i) \in MsgSlots /\ msgs[SlotOf(rcv.i)].state = "READING"
    <3>1. rcv.i \in Nat BY <1>1, Zenon DEF MailTypes, RecvTypes
    <3>2. rcv.at \in {"copy", "consume"} BY <2>1
    <3> QED BY <1>1, <3>1, <3>2, SlotInRange, Zenon DEF OwnerReads, Msg
  <2> QED BY <1>7, <2>1, <2>2, <2>3, Zenon
<1>9. CASE RecvAdvance
  <2>1. rcv'.at # "copy" /\ rcv.at # "copy" BY <1>1, <1>9 DEF RecvAdvance, NoRecv, MailTypes, RecvTypes
  <2>2. SlotOf(rcv.tail) \in MsgSlots
    <3>1. rcv.tail \in Nat BY <1>1, Zenon DEF MailTypes, RecvTypes
    <3> QED BY <3>1, SlotInRange, Zenon
  <2>3. CASE msgs' = msgs BY <2>1, <2>3, Zenon DEF Unread
  <2>4. CASE msgs[SlotOf(rcv.tail)].state = "CONSUMED" /\ msgs' = [msgs EXCEPT ![SlotOf(rcv.tail)].state = "EMPTY"]
    BY <1>7, <2>1, <2>2, <2>4, Zenon
  <2> QED BY <1>9, <2>3, <2>4, Zenon DEF RecvAdvance
<1>10. CASE Deactivate \/ UNCHANGED mailVars
  <2>1. UNCHANGED <<msgs, rcv>> BY <1>10, Zenon DEF Deactivate, mailVars
  <2> QED BY <2>1, Zenon DEF Unread
<1> QED BY <1>3, <1>5, <1>6, <1>8, <1>9, <1>10, Zenon DEF MailNext

\* A payload that was published stays so.
LEMMA PublishedStays ==
  ASSUME MailTypes, [MailNext]_mailVars
  PROVE  /\ published \subseteq published'
         /\ ~RecvCopy => got' = got
<1>1. ASSUME NEW s \in Senders, SendStep(s) PROVE published \subseteq published' /\ got' = got
  <2>1. got' = got /\ (published' = published \/ Publish(s)) BY <1>1, SenderLeaves, Zenon
  <2> QED BY <2>1, Zenon DEF Publish
<1>2. CASE RecvStep BY <1>2, OwnerLeaves, Zenon
<1>3. CASE Deactivate \/ UNCHANGED mailVars BY <1>3, Zenon DEF Deactivate, mailVars
<1> QED BY <1>1, <1>2, <1>3, Zenon DEF MailNext, RecvStep

\* What is appended to the received messages.
LEMMA AppendFacts ==
  ASSUME NEW S, NEW q \in Seq(S), NEW e, NEW r, r = Append(q, e)
  PROVE  /\ \A k \in DOMAIN r : (k \in DOMAIN q /\ r[k] = q[k]) \/ (k = Len(q) + 1 /\ r[k] = e)
         /\ \A k \in DOMAIN q : k \in Nat /\ k < Len(q) + 1
         /\ Len(q) \in Nat /\ Len(r) = Len(q) + 1 /\ r \in Seq(S \cup {e})
<1>1. q \in Seq(S \cup {e}) /\ e \in S \cup {e} OBVIOUS
<1>2. Len(q) \in Nat /\ DOMAIN q = 1 .. Len(q) BY <1>1
<1> DEFINE T == S \cup {e}
<1> HIDE DEF T
<1>4. q \in Seq(T) /\ e \in T BY <1>1 DEF T
<1>3. Len(r) = Len(q) + 1 /\ DOMAIN r = 1 .. (Len(q) + 1) /\ r[Len(q) + 1] = e /\ \A k \in 1 .. Len(q) : r[k] = q[k]
  BY <1>4
<1>5. r \in Seq(T) BY <1>4
<1> QED BY <1>2, <1>3, <1>5 DEF T

\* Every step keeps the order of what cxl_recv returned.
LEMMA GotKept ==
  ASSUME MailInv, DeliverInv, InOrder, GotInOrder, ScanInOrder, ~overtaken, ~crossed', [MailNext]_mailVars
  PROVE  GotInOrder'
<1>1. /\ MailTypes /\ SlotsOwned /\ OwnerReads /\ Numbered /\ ContentInv /\ PoolSound /\ SlotsInv
  BY Zenon DEF MailInv, SlotsInv, DeliverInv
<1>2. published \subseteq published' /\ (~RecvCopy => got' = got) BY <1>1, PublishedStays, Zenon
<1>3. CASE RecvCopy
  <2> DEFINE z == SlotOf(rcv.i)
             m == msgs[z]
             e == [src |-> m.src, tag |-> m.tag, data |-> Content(m, page)]
  <2>1. rcv.at = "copy" /\ rcv.at \in {"scan", "copy", "consume"} /\ rcv.at \in {"copy", "consume"}
        /\ rcv.at \in {"scan", "copy"}
    <3>1. rcv.at = "copy" BY <1>3, Zenon DEF RecvCopy
    <3> QED BY <3>1
  <2>2. /\ z \in MsgSlots /\ rcv.i \in Live /\ m.state = "READING" /\ rcv.tail = Low
        /\ rcv.i \in Nat /\ rcv.tail \in Nat /\ rcv.head \in Nat /\ rcv.i < rcv.head
    BY <1>1, <2>1, ReadingLive, Zenon DEF OwnerReads, Msg
  <2>3. Intact(m, page, published, granted)
    <3>1. m.state # "EMPTY" BY <2>2
    <3> QED BY <1>1, <2>2, <3>1, Zenon DEF ContentInv
  <2>4. m.inlined \/ m.rptr # NullRptr BY <2>3, Zenon DEF Intact
  <2>5. got' = Append(got, e) /\ msgs' = msgs /\ rcv' = [rcv EXCEPT !.at = "consume"] /\ UNCHANGED <<published, page>>
    BY <1>3, <2>4, Zenon DEF RecvCopy, Content
  <2>6. z \in Unread BY <2>1, <2>2, Zenon DEF Unread
  <2>7. PICK S : got \in Seq(S) BY Zenon DEF GotInOrder
  <2>8. e.src = m.src /\ e.tag = m.tag /\ e.data = Content(m, page) BY Zenon
  <2>9. /\ \A k \in DOMAIN got' : (k \in DOMAIN got /\ got'[k] = got[k]) \/ (k = Len(got) + 1 /\ got'[k] = e)
        /\ \A k \in DOMAIN got : k \in Nat /\ k < Len(got) + 1
        /\ Len(got) \in Nat
    <3> HIDE DEF e
    <3> QED BY <2>5, <2>7, AppendFacts
  <2>10. \A u \in Unread' : u \in Unread /\ u # z /\ msgs[u].state = "READY"
    <3>1. rcv'.at = "consume" BY <1>1, <2>5, Zenon DEF MailTypes, RecvTypes
    <3>2. rcv'.at # "copy" BY <3>1
    <3>3. \A u \in Unread' : u \in MsgSlots /\ msgs[u].state = "READY" BY <2>5, <3>2, Zenon DEF Unread
    <3>4. \A u \in Unread' : u # z BY <2>2, <3>3
    <3> QED BY <3>3, <3>4, Zenon DEF Unread
  <2>11. ASSUME NEW u \in Unread', m.src = msgs[u].src, m.tag = msgs[u].tag
         PROVE  Content(m, page)[2] < Content(msgs[u], page)[2]
    <3>1. u \in MsgSlots /\ u # z /\ msgs[u].state = "READY" /\ msgs[u].state # "EMPTY"
      <4>1. u \in Unread /\ u # z /\ msgs[u].state = "READY" BY <2>10, Zenon
      <4> QED BY <4>1 DEF Unread
    <3>2. PICK j \in Live : u = SlotOf(j) BY <1>1, <3>1, Zenon DEF SlotsOwned
    <3>3. j # rcv.i /\ Full(j) /\ Full(rcv.i) /\ Msg(j) = msgs[u] /\ Msg(rcv.i) = m
      <4>1. m.state # "EMPTY" BY <2>2
      <4> QED BY <3>1, <3>2, <4>1, Zenon DEF Full, Msg
    <3>4. j \in Nat /\ Low <= j BY <3>2, LiveFacts, Zenon
    <3>5. CASE rcv.i < j
      <4>1. Number(rcv.i) < Number(j) BY <2>2, <2>11, <3>2, <3>3, <3>5, Zenon DEF InOrder
      <4> QED BY <3>3, <4>1, Zenon DEF Number
    <3>6. CASE j < rcv.i
      <4>1. Matches(m) BY <2>1, <3>3, Zenon DEF ScanInOrder
      <4>2. Wanted(Msg(j)) BY <2>11, <3>1, <3>3, <4>1, Zenon DEF Wanted, Matches
      <4>3. j \in rcv.tail .. (rcv.i - 1) /\ rcv.i \in rcv.i .. (rcv.head - 1) BY <2>2, <3>4, <3>6
      <4>4. Passed(j) BY <2>1, <4>2, <4>3, Zenon DEF ScanInOrder
      <4> QED BY <2>11, <3>3, <4>3, <4>4, Zenon DEF Passed
    <3> QED BY <2>2, <3>3, <3>4, <3>5, <3>6
  <2> HIDE DEF e
  <2>12. \A k \in DOMAIN got' : got'[k].data \in published' /\ got'[k].data[1] = got'[k].src
    <3>1. e.data \in published /\ e.data[1] = e.src BY <2>3, <2>8, Zenon DEF Intact
    <3> QED BY <2>5, <2>9, <3>1, Zenon DEF GotInOrder
  <2>13. ASSUME NEW j \in DOMAIN got', NEW k \in DOMAIN got', j < k,
                got'[j].src = got'[k].src, got'[j].tag = got'[k].tag
         PROVE  got'[j].data[2] < got'[k].data[2]
    <3>1. CASE k \in DOMAIN got /\ got'[k] = got[k]
      <4>1. j \in DOMAIN got /\ got'[j] = got[j]
        <5>1. k \in Nat /\ k < Len(got) + 1 /\ Len(got) \in Nat BY <2>9, <3>1, Zenon
        <5>2. j # Len(got) + 1 BY <2>13, <5>1
        <5> QED BY <2>9, <5>2, Zenon
      <4>2. got[j].src = got[k].src /\ got[j].tag = got[k].tag BY <2>13, <3>1, <4>1, Zenon
      <4>3. got[j].data[2] < got[k].data[2] BY <2>13, <3>1, <4>1, <4>2, Zenon DEF GotInOrder
      <4> QED BY <3>1, <4>1, <4>3, Zenon
    <3>2. CASE k = Len(got) + 1 /\ got'[k] = e
      <4>1. j \in DOMAIN got /\ got'[j] = got[j]
        <5>1. j # Len(got) + 1 BY <2>9, <2>13, <3>2
        <5> QED BY <2>9, <5>1, Zenon
      <4>2. got[j].src = m.src /\ got[j].tag = m.tag BY <2>8, <2>13, <3>2, <4>1, Zenon
      <4>3. got[j].data[2] < Content(m, page)[2] BY <2>6, <4>1, <4>2, Zenon DEF GotInOrder
      <4> QED BY <2>8, <3>2, <4>1, <4>3, Zenon
    <3> QED BY <2>9, <3>1, <3>2, Zenon
  <2>14. ASSUME NEW k \in DOMAIN got', NEW u \in Unread', got'[k].src = msgs[u].src, got'[k].tag = msgs[u].tag
         PROVE  got'[k].data[2] < Content(msgs[u], page)[2]
    <3>1. CASE k \in DOMAIN got /\ got'[k] = got[k]
      <4>1. u \in Unread BY <2>10, Zenon
      <4> QED BY <2>14, <3>1, <4>1, Zenon DEF GotInOrder
    <3>2. CASE got'[k] = e
      <4>1. m.src = msgs[u].src /\ m.tag = msgs[u].tag BY <2>8, <2>14, <3>2, Zenon
      <4> QED BY <2>8, <2>11, <3>2, <4>1, Zenon
    <3> QED BY <2>9, <3>1, <3>2, Zenon
  <2>15. \E R : got' \in Seq(R) BY <2>5, <2>7, AppendFacts
  <2> QED BY <2>5, <2>12, <2>13, <2>14, <2>15, Zenon DEF GotInOrder
<1>4. ASSUME NEW s \in Senders, Publish(s) PROVE GotInOrder'
  <2>1. SendStep(s) /\ ~RecvCopy
    <3>1. SendStep(s) BY <1>4, Zenon DEF SendStep
    <3>2. rcv' = rcv /\ snd' # snd
      <4>1. snd[s].at = "publish" /\ snd'[s].at = "idle" BY <1>1, <1>4, SenderAfter, Zenon
      <4>2. snd' # snd BY <4>1
      <4> QED BY <1>4, <4>2, Zenon DEF Publish
    <3>3. RecvCopy => snd' = snd BY Zenon DEF RecvCopy
    <3> QED BY <3>1, <3>2, <3>3, Zenon
  <2>2. got' = got BY <1>2, <2>1, Zenon
  <2>3. /\ Slot(s) \in MsgSlots /\ Writing(s) /\ msgs'[Slot(s)].src = s
        /\ Content(msgs'[Slot(s)], page') = Payload(s)
    BY <1>1, <1>4, PublishedIntact, Zenon
  <2>4. page' = page /\ rcv' = rcv BY <1>4, Zenon DEF Publish
  <2>5. Payload(s)[2] = snd[s].n /\ \A p \in published : p[1] = s => p[2] < snd[s].n
    <3>1. snd[s].at # "idle" BY <2>3 DEF Writing, Claimed
    <3> QED BY <1>1, <3>1, NotYetPublished, Zenon
  <2>6. ASSUME NEW k \in DOMAIN got, NEW u \in Unread', got[k].src = msgs'[u].src, got[k].tag = msgs'[u].tag
        PROVE  got[k].data[2] < Content(msgs'[u], page')[2]
    <3>1. CASE u = Slot(s)
      <4>1. got[k].data \in published /\ got[k].data[1] = s BY <2>3, <2>6, <3>1, Zenon DEF GotInOrder
      <4> QED BY <2>3, <2>5, <3>1, <4>1, Zenon
    <3>2. CASE u # Slot(s)
      <4>1. u \in MsgSlots BY Zenon DEF Unread
      <4>2. msgs'[u] = msgs[u] BY <1>1, <2>1, <3>2, <4>1, SenderLeaves, Zenon
      <4>3. u \in Unread BY <2>4, <4>1, <4>2, Zenon DEF Unread
      <4>4. got[k].src = msgs[u].src /\ got[k].tag = msgs[u].tag BY <2>6, <4>2
      <4>5. got[k].data[2] < Content(msgs[u], page)[2] BY <4>3, <4>4, Zenon DEF GotInOrder
      <4> QED BY <2>4, <4>2, <4>5, Zenon
    <3> QED BY <3>1, <3>2, Zenon
  <2>7. \A k \in DOMAIN got, u \in Unread' :
          (got[k].src = msgs'[u].src /\ got[k].tag = msgs'[u].tag) => got[k].data[2] < Content(msgs'[u], page')[2]
    BY <2>6, Zenon
  <2> QED BY <1>2, <2>2, <2>7, Zenon DEF GotInOrder
<1>5. CASE ~RecvCopy /\ \A s \in Senders : ~Publish(s)
  <2>1. got' = got BY <1>2, <1>5, Zenon
  <2>2. ASSUME NEW k \in DOMAIN got, NEW u \in Unread', got[k].src = msgs'[u].src, got[k].tag = msgs'[u].tag
        PROVE  got[k].data[2] < Content(msgs'[u], page')[2]
    <3>1. u \in Unread BY <1>1, <1>5, UnreadStays, Zenon
    <3>2. u \in MsgSlots /\ msgs'[u].state # "EMPTY" BY DEF Unread
    <3>3. /\ msgs'[u].src = msgs[u].src /\ msgs'[u].tag = msgs[u].tag
          /\ Content(msgs'[u], page') = Content(msgs[u], page)
      BY <1>5, <3>2, FullStays, Zenon
    <3>4. got[k].src = msgs[u].src /\ got[k].tag = msgs[u].tag BY <2>2, <3>3, Zenon
    <3>5. got[k].data[2] < Content(msgs[u], page)[2] BY <3>1, <3>4, Zenon DEF GotInOrder
    <3> QED BY <3>3, <3>5, Zenon
  <2>3. \A k \in DOMAIN got, u \in Unread' :
          (got[k].src = msgs'[u].src /\ got[k].tag = msgs'[u].tag) => got[k].data[2] < Content(msgs'[u], page')[2]
    BY <2>2, Zenon
  <2> QED BY <1>2, <2>1, <2>3, Zenon DEF GotInOrder
<1> QED BY <1>3, <1>4, <1>5, Zenon

\* The indices of a scan are live.
LEMMA ScanLive ==
  ASSUME MailInv, OwnerReads, rcv.at \in {"scan", "copy"}
  PROVE  /\ \A i \in rcv.tail .. (rcv.i - 1) : i \in Live /\ i \in Nat /\ i < rcv.i /\ i < rcv.head
         /\ \A j \in rcv.i .. (rcv.head - 1) : j \in Live /\ j \in Nat /\ rcv.i <= j /\ j < rcv.head
         /\ rcv.i \in Nat /\ rcv.head \in Nat /\ rcv.tail \in Nat
<1>1. rcv.at \in {"scan", "copy", "consume"} OBVIOUS
<1> DEFINE t == rcv.tail
           c == rcv.i
           e == rcv.head
<1>2. /\ c \in Nat /\ t \in Nat /\ e \in Nat /\ Low = t
      /\ t <= c /\ c <= e /\ e <= box_head
  BY <1>1, ReadingLive, Zenon
<1>3. box_head \in Nat /\ \A i : i \in Live <=> i \in Nat /\ Low <= i /\ i < box_head BY LiveFacts, Zenon
<1> HIDE DEF t, c, e
<1>4. \A i \in t .. (c - 1) : i \in Nat /\ i < c /\ i < e /\ t <= i /\ i < box_head BY <1>2, <1>3
<1>5. \A j \in c .. (e - 1) : j \in Nat /\ c <= j /\ j < e /\ t <= j /\ j < box_head BY <1>2, <1>3
<1>6. \A i \in t .. (c - 1) : i \in Live BY <1>2, <1>3, <1>4, Zenon
<1>7. \A j \in c .. (e - 1) : j \in Live BY <1>2, <1>3, <1>5, Zenon
<1> QED BY <1>2, <1>4, <1>5, <1>6, <1>7, Zenon DEF t, c, e

\* A step of a sender keeps the order of the scan.
LEMMA SendKeepsScan ==
  ASSUME MailInv, DeliverInv, InOrder, ScanInOrder, ~overtaken, ~crossed', NEW s \in Senders, SendStep(s)
  PROVE  ScanInOrder'
<1>1. /\ MailTypes /\ SlotsOwned /\ OwnerReads /\ ContentInv /\ PoolSound /\ SlotsInv
  BY Zenon DEF MailInv, SlotsInv, DeliverInv
<1>2. rcv' = rcv BY <1>1, SenderLeaves, Zenon
<1>3. \A i \in Live : SlotOf(i) \in MsgSlots BY LiveFacts, Zenon
<1>4. \A i \in Live : Full(i) => msgs'[SlotOf(i)] = msgs[SlotOf(i)]
  BY <1>1, <1>3, MessagesStay, Zenon DEF Full, Msg
<1>5. rcv'.at = "copy" => Matches(Msg(rcv.i))'
  <2>1. SUFFICES ASSUME rcv.at = "copy" PROVE Matches(Msg(rcv.i))' BY <1>2, Zenon
  <2>2. rcv.at \in {"scan", "copy", "consume"} /\ rcv.at \in {"copy", "consume"} BY <2>1
  <2>3. rcv.i \in Live /\ Msg(rcv.i).state = "READING" BY <1>1, <2>2, ReadingLive, Zenon DEF OwnerReads
  <2>4. Full(rcv.i) BY <2>3 DEF Full
  <2>5. msgs'[SlotOf(rcv.i)] = msgs[SlotOf(rcv.i)] BY <1>4, <2>3, <2>4, Zenon
  <2>6. Matches(Msg(rcv.i)) BY <2>1, Zenon DEF ScanInOrder
  <2> QED BY <1>2, <2>5, <2>6, Zenon DEF Matches, Msg
<1>6. ASSUME rcv.at \in {"scan", "copy"}, NEW i \in rcv.tail .. (rcv.i - 1), Wanted(msgs[SlotOf(i)])'
      PROVE  /\ \A j \in rcv.i .. (rcv.head - 1) :
                  msgs'[SlotOf(j)].state # "EMPTY" => msgs'[SlotOf(j)].src # msgs'[SlotOf(i)].src
             /\ \A u \in Senders : Writing(u)' /\ u = msgs'[SlotOf(i)].src => rcv.head <= snd'[u].head
  <2>1. /\ i \in Live /\ i \in Nat /\ i < rcv.i /\ rcv.i \in Nat /\ rcv.head \in Nat /\ i < rcv.head
        /\ \A j \in rcv.i .. (rcv.head - 1) : j \in Live /\ j \in Nat /\ rcv.i <= j /\ j < rcv.head
    BY <1>1, <1>6, ScanLive, Zenon
  <2>2. msgs'[SlotOf(i)].state = "READY" BY <1>6, Zenon DEF Wanted
  <2>3. rcv.head <= box_head /\ box_head \in Nat BY Zenon DEF MailInv, OwnerLags, MailTypes
  <2>4. CASE Full(i)
    <3>1. msgs'[SlotOf(i)] = msgs[SlotOf(i)] BY <1>4, <2>1, <2>4, Zenon
    <3>2. Wanted(Msg(i)) BY <1>2, <1>6, <3>1, Zenon DEF Wanted, Msg
    <3>3. Passed(i) BY <1>6, <3>2, Zenon DEF ScanInOrder
    <3>4. ASSUME NEW j \in rcv.i .. (rcv.head - 1), msgs'[SlotOf(j)].state # "EMPTY"
          PROVE  msgs'[SlotOf(j)].src # msgs'[SlotOf(i)].src
      <4>0. j \in Live BY <2>1, Zenon
      <4>1. CASE Full(j)
        <5>1. msgs'[SlotOf(j)] = msgs[SlotOf(j)] BY <1>4, <4>0, <4>1, Zenon
        <5>2. Msg(j).src # Msg(i).src BY <3>3, <4>1, Zenon DEF Passed
        <5> QED BY <3>1, <5>1, <5>2, Zenon DEF Msg
      <4>2. CASE ~Full(j)
        <5>1. Publish(s) /\ SlotOf(j) = Slot(s)
          BY <1>1, <1>3, <3>4, <4>0, <4>2, SenderLeaves, Zenon DEF Full, Msg
        <5>2. msgs'[SlotOf(j)].src = s /\ Writing(s) BY <1>1, <5>1, PublishedIntact, Zenon
        <5>3. j = snd[s].head
          <6>1. snd[s].head \in Live BY <1>1, <5>2, Zenon DEF SlotsOwned
          <6> QED BY <4>0, <5>1, <6>1, LiveFacts, Zenon DEF Slot
        <5>4. ~(rcv.head <= j) BY <2>1
        <5>5. Msg(i).src # s BY <3>3, <5>2, <5>3, <5>4, Zenon DEF Passed
        <5> QED BY <3>1, <5>2, <5>5, Zenon DEF Msg
      <4> QED BY <4>1, <4>2, Zenon
    <3>5. ASSUME NEW u \in Senders, Writing(u)', u = msgs'[SlotOf(i)].src PROVE rcv.head <= snd'[u].head
      <4>1. u = Msg(i).src BY <3>1, <3>5, Zenon DEF Msg
      <4>2. CASE Writing(u) /\ snd'[u].head = snd[u].head
        <5>1. rcv.head <= snd[u].head BY <3>3, <4>1, <4>2, Zenon DEF Passed
        <5> QED BY <4>2, <5>1, Zenon
      <4>3. CASE snd'[u].head = box_head BY <2>3, <4>3, Zenon
      <4>4. MailNext BY Zenon DEF MailNext
      <4> QED BY <1>1, <3>5, <4>2, <4>3, <4>4, WasWriting, Zenon
    <3> QED BY <3>4, <3>5, Zenon
  <2>5. CASE ~Full(i)
    <3>0. msgs[SlotOf(i)].state = "EMPTY" /\ SlotOf(i) \in MsgSlots /\ msgs'[SlotOf(i)].state # "EMPTY"
      <4>1. msgs'[SlotOf(i)].state # "EMPTY" BY <2>2
      <4> QED BY <1>3, <2>1, <2>5, <4>1, Zenon DEF Full, Msg
    <3>1. Publish(s) /\ SlotOf(i) = Slot(s) BY <1>1, <3>0, SenderLeaves, Zenon
    <3>2. msgs'[SlotOf(i)].src = s /\ Writing(s) BY <1>1, <3>1, PublishedIntact, Zenon
    <3>3. i = snd[s].head
      <4>1. snd[s].head \in Live BY <1>1, <3>2, Zenon DEF SlotsOwned
      <4> QED BY <2>1, <3>1, <4>1, LiveFacts, Zenon DEF Slot
    <3>4. ASSUME NEW j \in rcv.i .. (rcv.head - 1), msgs'[SlotOf(j)].state # "EMPTY"
          PROVE  msgs'[SlotOf(j)].src # s
      <4>0. j \in Live /\ j # i /\ ~(j < i)
        <5>1. j \in Live /\ j \in Nat /\ rcv.i <= j BY <2>1, Zenon
        <5> QED BY <2>1, <5>1
      <4>1. msgs'[SlotOf(j)] = msgs[SlotOf(j)]
        <5>1. SlotOf(j) # Slot(s) BY <2>1, <3>1, <4>0, LiveFacts, Zenon
        <5> QED BY <1>1, <1>3, <4>0, <5>1, SenderLeaves, Zenon
      <4>2. Full(j) BY <3>4, <4>1, Zenon DEF Full, Msg
      <4>3. Msg(j).src # s BY <3>2, <3>3, <4>0, <4>2, Zenon DEF InOrder
      <4> QED BY <4>1, <4>3, Zenon DEF Msg
    <3>5. ~Writing(s)'
      <4>1. ~(snd'[s].at \in Claimed) BY <1>1, <3>1, SenderIndex, Zenon
      <4> QED BY <4>1, Zenon DEF Writing
    <3> QED BY <3>2, <3>4, <3>5, Zenon
  <2> QED BY <2>4, <2>5, Zenon
<1>7. rcv'.at \in {"scan", "copy"} => \A i \in rcv'.tail .. (rcv'.i - 1) : Wanted(Msg(i))' => Passed(i)'
  BY <1>2, <1>6, Zenon DEF Passed, Full, Msg
<1> QED BY <1>5, <1>7, Zenon DEF ScanInOrder

\* A step of the owner keeps it: it passes nothing it wants.
LEMMA OwnerKeepsScan ==
  ASSUME MailInv, DeliverInv, ScanInOrder, ~overtaken, RecvStep
  PROVE  ScanInOrder'
<1>1. /\ MailTypes /\ SlotsOwned /\ OwnerReads /\ ContentInv /\ PoolSound /\ SlotsInv /\ rcv \in RecvTypes
  BY Zenon DEF MailInv, SlotsInv, DeliverInv, MailTypes
<1>2. UNCHANGED <<snd, page>> BY OwnerLeaves, Zenon
<1>3. CASE rcv'.at \notin {"scan", "copy"}
  <2>1. rcv'.at # "copy" BY <1>3
  <2> QED BY <1>3, <2>1, Zenon DEF ScanInOrder
<1>4. CASE RecvTail
  <2>1. PICK src \in Senders \cup {Wild}, t \in MsgTags \cup {Wild} :
          rcv' = [rcv EXCEPT !.at = "head", !.src = src, !.tag = t, !.tail = box_tail]
    BY <1>4, Zenon DEF RecvTail
  <2>2. rcv'.at = "head" BY <1>1, <2>1, Zenon DEF RecvTypes
  <2>3. rcv'.at \notin {"scan", "copy"} BY <2>2
  <2> QED BY <1>3, <2>3, Zenon
<1>5. CASE RecvHead
  <2>1. CASE rcv' = NoRecv
    <3>1. rcv'.at \notin {"scan", "copy"} BY <2>1 DEF NoRecv
    <3> QED BY <1>3, <3>1, Zenon
  <2>2. CASE rcv' = [rcv EXCEPT !.at = "scan", !.head = box_head, !.i = rcv.tail]
    <3>1. rcv'.at = "scan" /\ rcv'.i = rcv.tail /\ rcv'.tail = rcv.tail /\ rcv.tail \in Nat
      BY <1>1, <2>2, Zenon DEF RecvTypes
    <3>2. rcv'.at # "copy" /\ rcv'.tail .. (rcv'.i - 1) = {} BY <3>1
    <3> QED BY <3>2, Zenon DEF ScanInOrder
  <2> QED BY <1>5, <2>1, <2>2, Zenon DEF RecvHead
<1>6. CASE RecvScan
  <2>0. rcv.at = "scan" /\ rcv.at \in {"scan", "copy"} /\ rcv.at \in {"scan", "copy", "consume"}
    <3>1. rcv.at = "scan" BY <1>6, Zenon DEF RecvScan
    <3> QED BY <3>1
  <2>1. /\ \A i \in rcv.tail .. (rcv.i - 1) : i \in Live /\ i \in Nat /\ i < rcv.i /\ i < rcv.head
        /\ \A j \in rcv.i .. (rcv.head - 1) : j \in Live /\ j \in Nat /\ rcv.i <= j /\ j < rcv.head
        /\ rcv.i \in Nat /\ rcv.head \in Nat /\ rcv.tail \in Nat
    BY <1>1, <2>0, ScanLive, Zenon
  <2>2. \A i \in rcv.tail .. (rcv.i - 1) : Wanted(Msg(i)) => Passed(i) BY <2>0, Zenon DEF ScanInOrder
  <2>3. CASE rcv' = NoRecv
    <3>1. rcv'.at \notin {"scan", "copy"} BY <2>3 DEF NoRecv
    <3> QED BY <1>3, <3>1, Zenon
  <2>4. CASE /\ rcv.i < rcv.head /\ ~Wanted(msgs[SlotOf(rcv.i)])
             /\ rcv' = [rcv EXCEPT !.i = rcv.i + 1] /\ UNCHANGED msgs
    <3>1. /\ rcv'.at = "scan" /\ rcv'.i = rcv.i + 1 /\ rcv'.tail = rcv.tail /\ rcv'.head = rcv.head
          /\ rcv'.src = rcv.src /\ rcv'.tag = rcv.tag
      BY <1>1, <2>0, <2>4, Zenon DEF RecvTypes
    <3>2. \A i \in rcv.tail .. ((rcv.i + 1) - 1) : i \in rcv.tail .. (rcv.i - 1) \/ i = rcv.i BY <2>1
    <3>3. \A j \in rcv.i + 1 .. (rcv.head - 1) : j \in rcv.i .. (rcv.head - 1) BY <2>1
    <3>4. ASSUME NEW i \in rcv'.tail .. (rcv'.i - 1), Wanted(Msg(i))' PROVE Passed(i)'
      <4>1. Wanted(Msg(i)) BY <2>4, <3>1, <3>4, Zenon DEF Wanted, Msg
      <4>2. i \in rcv.tail .. (rcv.i - 1)
        <5>1. i # rcv.i BY <2>4, <4>1, Zenon DEF Msg
        <5>2. i \in rcv.tail .. ((rcv.i + 1) - 1) BY <3>1, <3>4, Zenon
        <5> QED BY <3>2, <5>1, <5>2, Zenon
      <4>3. Passed(i) BY <2>2, <4>1, <4>2, Zenon
      <4>4. \A j \in rcv'.i .. (rcv'.head - 1) : j \in rcv.i .. (rcv.head - 1) BY <3>1, <3>3, Zenon
      <4> QED BY <1>2, <2>4, <3>1, <4>3, <4>4, Zenon DEF Passed, Full, Msg, Writing
    <3>5. rcv'.at # "copy" BY <3>1
    <3> QED BY <3>4, <3>5, Zenon DEF ScanInOrder
  <2>5. CASE /\ rcv.i < rcv.head /\ Wanted(msgs[SlotOf(rcv.i)]) /\ rcv' = [rcv EXCEPT !.at = "copy"]
             /\ msgs' = [msgs EXCEPT ![SlotOf(rcv.i)].state = "READING"]
    <3> DEFINE z == SlotOf(rcv.i)
    <3>1. /\ rcv'.at = "copy" /\ rcv'.i = rcv.i /\ rcv'.tail = rcv.tail /\ rcv'.head = rcv.head
          /\ rcv'.src = rcv.src /\ rcv'.tag = rcv.tag
      BY <1>1, <2>5, Zenon DEF RecvTypes
    <3>2. z \in MsgSlots BY <1>1, <2>0, ReadingLive, Zenon
    <3>3. /\ msgs'[z].state = "READING" /\ msgs[z].state # "EMPTY"
          /\ \A k \in MsgSlots : k # z => msgs'[k] = msgs[k]
          /\ \A k \in MsgSlots : msgs'[k].src = msgs[k].src /\ msgs'[k].tag = msgs[k].tag
      <4>1. msgs[z].state # "EMPTY" BY <2>5 DEF Wanted
      <4> QED BY <1>1, <2>5, <3>2, <4>1, StateSet, Zenon
    <3>4. Matches(Msg(rcv.i))' BY <2>5, <3>1, <3>2, <3>3, Zenon DEF Wanted, Matches, Msg
    <3>5. \A i \in Live : SlotOf(i) \in MsgSlots BY LiveFacts, Zenon
    <3>6. ASSUME NEW i \in rcv.tail .. (rcv.i - 1), Wanted(msgs[SlotOf(i)])'
          PROVE  /\ \A j \in rcv.i .. (rcv.head - 1) :
                      msgs'[SlotOf(j)].state # "EMPTY" => msgs'[SlotOf(j)].src # msgs'[SlotOf(i)].src
                 /\ \A u \in Senders : Writing(u) /\ u = msgs'[SlotOf(i)].src => rcv.head <= snd[u].head
      <4>1. SlotOf(i) \in MsgSlots BY <2>1, <3>5, Zenon
      <4>2. SlotOf(i) # z
        <5>1. msgs'[SlotOf(i)].state = "READY" BY <3>6, Zenon DEF Wanted
        <5>2. msgs'[SlotOf(i)].state # "READING" BY <5>1
        <5> QED BY <3>3, <5>2, Zenon
      <4>3. msgs'[SlotOf(i)] = msgs[SlotOf(i)] BY <3>3, <4>1, <4>2, Zenon
      <4>4. Wanted(Msg(i)) BY <3>1, <3>6, <4>3, Zenon DEF Wanted, Msg
      <4>5. Passed(i) BY <2>2, <4>4, Zenon
      <4>6. ASSUME NEW j \in rcv.i .. (rcv.head - 1), msgs'[SlotOf(j)].state # "EMPTY"
            PROVE  msgs'[SlotOf(j)].src # msgs'[SlotOf(i)].src
        <5>1. SlotOf(j) \in MsgSlots BY <2>1, <3>5, Zenon
        <5>2. CASE SlotOf(j) = z BY <3>3, <4>3, <4>5, <5>1, <5>2, Zenon DEF Passed, Full, Msg
        <5>3. CASE SlotOf(j) # z
          <6>1. msgs'[SlotOf(j)] = msgs[SlotOf(j)] BY <3>3, <5>1, <5>3, Zenon
          <6>2. Full(j) BY <4>6, <6>1, Zenon DEF Full, Msg
          <6>3. Msg(j).src # Msg(i).src BY <4>5, <6>2, Zenon DEF Passed
          <6> QED BY <4>3, <6>1, <6>3, Zenon DEF Msg
        <5> QED BY <5>2, <5>3, Zenon
      <4>7. \A u \in Senders : Writing(u) /\ u = msgs'[SlotOf(i)].src => rcv.head <= snd[u].head
        BY <4>3, <4>5, Zenon DEF Passed, Msg
      <4> QED BY <4>6, <4>7, Zenon
    <3>7. ASSUME NEW i \in rcv'.tail .. (rcv'.i - 1), Wanted(Msg(i))' PROVE Passed(i)'
      <4>1. i \in rcv.tail .. (rcv.i - 1) /\ Wanted(msgs[SlotOf(i)])' BY <3>1, <3>7, Zenon DEF Msg
      <4> QED BY <1>2, <3>1, <3>6, <4>1, Zenon DEF Passed, Full, Msg, Writing
    <3> QED BY <3>4, <3>7, Zenon DEF ScanInOrder
  <2> QED BY <1>6, <2>3, <2>4, <2>5, Zenon DEF RecvScan
<1>7. CASE RecvCopy
  <2>1. rcv.at \in {"scan", "copy", "consume"} /\ rcv.at \in {"copy", "consume"}
    <3>1. rcv.at = "copy" BY <1>7, Zenon DEF RecvCopy
    <3> QED BY <3>1
  <2>2. SlotOf(rcv.i) \in MsgSlots /\ msgs[SlotOf(rcv.i)].state = "READING"
    BY <1>1, <2>1, ReadingLive, Zenon DEF OwnerReads, Msg
  <2>3. msgs[SlotOf(rcv.i)].state # "EMPTY" BY <2>2
  <2>4. msgs[SlotOf(rcv.i)].inlined \/ msgs[SlotOf(rcv.i)].rptr # NullRptr
    BY <1>1, <2>2, <2>3, Zenon DEF ContentInv, Intact
  <2>5. rcv' = [rcv EXCEPT !.at = "consume"] BY <1>7, <2>4, Zenon DEF RecvCopy
  <2>6. rcv'.at = "consume" BY <1>1, <2>5, Zenon DEF RecvTypes
  <2>7. rcv'.at \notin {"scan", "copy"} BY <2>6
  <2> QED BY <1>3, <2>7, Zenon
<1>8. CASE RecvConsume \/ RecvAdvance
  <2>1. rcv.at \in {"consume", "advance"} BY <1>8, Zenon DEF RecvConsume, RecvAdvance
  <2>2. CASE rcv' = NoRecv
    <3>1. rcv'.at \notin {"scan", "copy"} BY <2>2 DEF NoRecv
    <3> QED BY <1>3, <3>1, Zenon
  <2>3. CASE rcv' = [rcv EXCEPT !.at = "advance"] \/ (rcv.at = "advance" /\ rcv' = [rcv EXCEPT !.tail = rcv.tail + 1])
    <3>1. rcv'.at = "advance" BY <1>1, <2>3, Zenon DEF RecvTypes
    <3>2. rcv'.at \notin {"scan", "copy"} BY <3>1
    <3> QED BY <1>3, <3>2, Zenon
  <2> QED BY <1>8, <2>2, <2>3, Zenon DEF RecvConsume, RecvAdvance
<1> QED BY <1>4, <1>5, <1>6, <1>7, <1>8, Zenon DEF RecvStep

\* Together: the slots are in order until a claim overtakes a check, and the
\* payloads and their order also until a failed allocation crosses another.
MailDeliverInv ==
  /\ PoolSound
  /\ ~overtaken => /\ SlotsInv
                   /\ ~crossed => ContentInv /\ InOrder /\ GotInOrder /\ ScanInOrder

\* It holds of an empty mailbox.
LEMMA DeliverInit ==
  ASSUME MailInit PROVE MailDeliverInv
<1>1. /\ \A k \in MsgSlots : msgs[k].state = "EMPTY"
      /\ rcv = NoRecv /\ got = <<>> /\ published = {} /\ box_head = 0 /\ box_tail = 0
  BY Zenon DEF MailInit
<1>2. \A s \in Senders : snd[s].at = "idle" BY Zenon DEF MailInit, NoSend
<1>3. \A s \in Senders : ~Writing(s) BY <1>2 DEF Writing, Claimed
<1>4. rcv.at = "idle" BY <1>1, Zenon DEF NoRecv
<1>5. \A k \in MsgSlots : msgs[k].state # "READING" /\ msgs[k].state # "READY" BY <1>1
<1>6. Live = {}
  <2>1. Low = 0 BY <1>1, <1>4 DEF Low
  <2> QED BY <1>1, <2>1 DEF Live
<1>7. SlotsOwned BY <1>1, <1>3, Zenon DEF SlotsOwned
<1>8. OwnerReads
  <2>1. rcv.at \notin {"head", "scan", "copy", "consume"} /\ rcv.at \notin {"scan", "copy", "consume"}
        /\ rcv.at \notin {"copy", "consume"}
    BY <1>4
  <2> QED BY <1>5, <2>1, Zenon DEF OwnerReads
<1>9. TailIsLive
  <2>1. ~(box_tail < box_head) BY <1>1
  <2> QED BY <1>6, <2>1, Zenon DEF TailIsLive
<1>10. NoIndexLost BY <1>6, Zenon DEF NoIndexLost
<1>11. Numbered BY <1>1, Zenon DEF Numbered
<1>13. ContentInv
  <2>1. ASSUME NEW s \in Senders PROVE Wrote(s, msgs[Slot(s)], page)
    <3>1. /\ snd[s].at \notin Enveloped /\ snd[s].at \notin {"copy", "notinline"} /\ snd[s].at # "notinline"
          /\ snd[s].at # "norptr" /\ snd[s].at # "publish"
      BY <1>2 DEF Enveloped
    <3> QED BY <3>1, Zenon DEF Wrote
  <2> QED BY <1>1, <2>1, Zenon DEF ContentInv
<1>14. InOrder BY <1>3, <1>6, Zenon DEF InOrder
<1>15. GotInOrder
  <2>1. DOMAIN got = {} /\ got \in Seq({}) BY <1>1
  <2> QED BY <2>1, Zenon DEF GotInOrder
<1>16. ScanInOrder
  <2>1. rcv.at # "copy" /\ rcv.at \notin {"scan", "copy"} BY <1>4
  <2> QED BY <2>1, Zenon DEF ScanInOrder
<1> QED BY <1>7, <1>8, <1>9, <1>10, <1>11, <1>13, <1>14, <1>15, <1>16, SoundInit, Zenon
        DEF MailDeliverInv, SlotsInv

\* A claim that has overtaken a check stays on record.
LEMMA OvertakenStays ==
  ASSUME MailTypes, [MailNext]_mailVars, ~overtaken' PROVE ~overtaken
<1>1. ASSUME NEW s \in Senders, SendStep(s) PROVE ~overtaken
  BY <1>1, SenderLeaves, Zenon DEF SendClaim
<1>2. CASE RecvStep BY <1>2, OwnerLeaves, Zenon
<1>3. CASE Deactivate \/ UNCHANGED mailVars BY <1>3, Zenon DEF Deactivate, mailVars
<1> QED BY <1>1, <1>2, <1>3, Zenon DEF MailNext, RecvStep

\* Every step keeps it.
LEMMA DeliverInductive ==
  ASSUME MailInv, MailInv', MailDeliverInv, [MailNext]_mailVars PROVE MailDeliverInv'
<1>1. PoolSound /\ MailTypes BY Zenon DEF MailDeliverInv, MailInv
<1>2. PoolSound' BY <1>1, SoundInductive, Zenon
<1>3. ~overtaken' => ~overtaken BY <1>1, OvertakenStays, Zenon
<1>4. ~crossed' => ~crossed
  <2>1. ASSUME NEW s \in Senders, SendStep(s) PROVE ~crossed' => ~crossed
    BY <2>1, Zenon DEF SendStep, SendTail, SendCheck, SendClaim, SlotEmpty, SlotTimeout, Envelope, InlineData,
           InlineRptr, Allocate, RollBack, CopyOut, NotInline, Publish
  <2>2. CASE RecvStep BY <2>2, OwnerLeaves, Zenon
  <2>3. CASE Deactivate \/ UNCHANGED mailVars BY <2>3, Zenon DEF Deactivate, mailVars
  <2> QED BY <2>1, <2>2, <2>3, Zenon DEF MailNext, RecvStep
<1>5. ASSUME ~overtaken' PROVE SlotsInv /\ SlotsInv' /\ ~overtaken
  BY <1>3, <1>5, SlotsKept, Zenon DEF MailDeliverInv
<1>6. ASSUME ~overtaken', ~crossed' PROVE ContentInv' /\ InOrder' /\ GotInOrder' /\ ScanInOrder'
  <2>1. ~overtaken /\ SlotsInv /\ SlotsOwned' BY <1>5, <1>6, Zenon DEF SlotsInv
  <2>2. ContentInv /\ InOrder /\ GotInOrder /\ ScanInOrder BY <1>4, <1>6, <2>1, Zenon DEF MailDeliverInv
  <2>3. DeliverInv BY <1>1, <2>1, <2>2, Zenon DEF DeliverInv
  <2>4. ContentInv' BY <1>1, <1>6, <2>1, <2>2, ContentKept, Zenon
  <2>5. InOrder' BY <1>6, <2>1, <2>2, <2>3, OrderKept, Zenon
  <2>6. GotInOrder' BY <1>6, <2>1, <2>2, <2>3, GotKept, Zenon
  <2>7. ScanInOrder'
    <3>1. ASSUME NEW s \in Senders, SendStep(s) PROVE ScanInOrder'
      BY <1>6, <2>1, <2>2, <2>3, <3>1, SendKeepsScan, Zenon
    <3>2. CASE RecvStep BY <2>1, <2>2, <2>3, <3>2, OwnerKeepsScan, Zenon
    <3>3. CASE Deactivate \/ UNCHANGED mailVars
      <4>1. UNCHANGED <<rcv, msgs, snd>> BY <3>3, Zenon DEF Deactivate, mailVars
      <4> QED BY <2>2, <4>1, Zenon DEF ScanInOrder, Matches, Wanted, Passed, Full, Msg, Writing
    <3> QED BY <3>1, <3>2, <3>3, Zenon DEF MailNext, RecvStep
  <2> QED BY <2>4, <2>5, <2>6, <2>7, Zenon
<1> QED BY <1>2, <1>5, <1>6, Zenon DEF MailDeliverInv
=============================================================================
