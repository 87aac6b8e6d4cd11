--------------------------- MODULE DeliveryProofs ---------------------------
(***************************************************************************)
(* What needs counting in the mailbox of the MPI shim: the pages that      *)
(* failed allocations have still to give back, and the messages that were  *)
(* published and not yet read. With the invariant of MailProofs they give  *)
(* the delivery of messages.                                               *)
(***************************************************************************)
EXTENDS MailProofs, MpiProofs, MC_Mpi, FiniteSetTheorems, TLAPS

\* The pages that failed allocations have still to give back.
Debt == {d \in Senders \X Nat : snd[d[1]].at = "rollback" /\ d[2] \in 1 .. snd[d[1]].pages}

\* allocate_cxl_memory never takes back more than it added.
PoolDebt ==
  /\ IsFiniteSet(Debt) /\ Cardinality(Debt) <= alloc_offset
  /\ \A g \in granted : 0 <= g.from /\ g.from < g.to
  /\ Paged

\* The debt of one sender.
LEMMA DebtOf ==
  ASSUME NEW s, NEW k \in Nat
  PROVE  IsFiniteSet({s} \X (1 .. k)) /\ Cardinality({s} \X (1 .. k)) = k
<1>1. IsFiniteSet({s}) /\ Cardinality({s}) = 1 BY FS_Singleton, Zenon
<1>2. IsFiniteSet(1 .. k) /\ Cardinality(1 .. k) = k
  <2>1. 1 \in Int /\ k \in Int OBVIOUS
  <2>2. IsFiniteSet(1 .. k) /\ Cardinality(1 .. k) = IF 1 > k THEN 0 ELSE k - 1 + 1
    BY <2>1, FS_Interval, Zenon
  <2> QED BY <2>2
<1>3. IsFiniteSet({s} \X (1 .. k)) /\ Cardinality({s} \X (1 .. k)) = 1 * k
  <2> DEFINE T == 1 .. k
  <2>1. IsFiniteSet(T) /\ Cardinality(T) = k BY <1>2, Zenon
  <2> HIDE DEF T
  <2>2. /\ IsFiniteSet({s} \X T)
        /\ Cardinality({s} \X T) = Cardinality({s}) * Cardinality(T)
    BY <1>1, <2>1, FS_Product, ZenonT(30)
  <2> QED BY <1>1, <2>1, <2>2, Zenon DEF T
<1> QED BY <1>3

\* Every step of a sender keeps it: a failed allocation adds to the offset what
\* it adds to the debt.
LEMMA DebtKept ==
  ASSUME MailInv, MailInv', PoolDebt, NEW s \in Senders, SendStep(s)
  PROVE  PoolDebt'
<1>1. /\ MailTypes /\ snd[s] \in SendTypes /\ snd[s].pages \in Nat /\ alloc_offset \in Int
  BY Zenon DEF MailInv, MailTypes, SendTypes
<1>2. \A u \in Senders : u # s => snd'[u] = snd[u]
  BY <1>1, SenderShape, Zenon DEF MailTypes
<1>3. IsFiniteSet(Debt) /\ Cardinality(Debt) \in Nat /\ Cardinality(Debt) <= alloc_offset
  BY FS_CardinalityType, Zenon DEF PoolDebt
<1> DEFINE own == {s} \X (1 .. snd[s].pages)
<1>4. IsFiniteSet(own) /\ Cardinality(own) = snd[s].pages BY <1>1, DebtOf, Zenon
<1>5. Paged' BY <1>1, PagedKept, Zenon DEF PoolDebt
<1>6. CASE Allocate(s)
  <2> DEFINE k == snd[s].pages
             new == [by |-> Payload(s), from |-> alloc_offset, to |-> alloc_offset + k]
  <2>1. /\ snd[s].at = "alloc" /\ alloc_offset' = alloc_offset + k
        /\ granted' = granted \/ granted' = granted \cup {new}
        /\ snd'[s].pages = k /\ snd'[s].at \in {"copy", "rollback"}
    <3>1. snd[s].at = "alloc" /\ snd'[s].pages = k /\ snd'[s].at \in {"copy", "rollback"}
      BY <1>1, <1>6, SenderAfter, Zenon
    <3> QED BY <1>6, <3>1, Zenon DEF Allocate
  <2>2. k > 0 BY <2>1, Zenon DEF PoolDebt, Paged
  <2>3. 0 <= new.from /\ new.from < new.to
    <3>1. new.from = alloc_offset /\ new.to = alloc_offset + k BY Zenon
    <3> HIDE DEF new, k
    <3>2. 0 <= alloc_offset /\ alloc_offset < alloc_offset + k BY <1>1, <1>3, <2>2 DEF k
    <3> QED BY <3>1, <3>2, Zenon
  <2>4. \A g \in granted' : 0 <= g.from /\ g.from < g.to
    <3> HIDE DEF new
    <3> QED BY <2>1, <2>3, Zenon DEF PoolDebt
  <2>5. IsFiniteSet(Debt') /\ Cardinality(Debt') <= alloc_offset'
    <3>1. CASE snd'[s].at = "copy"
      <4>1. Debt' = Debt
        <5>1. ASSUME NEW d \in Senders \X Nat
              PROVE  (snd'[d[1]].at = "rollback" /\ d[2] \in 1 .. snd'[d[1]].pages)
                       <=> (snd[d[1]].at = "rollback" /\ d[2] \in 1 .. snd[d[1]].pages)
          <6>1. CASE d[1] = s BY <2>1, <3>1, <6>1
          <6>2. CASE d[1] # s
            <7>1. d[1] \in Senders BY Zenon
            <7> QED BY <1>2, <6>2, <7>1, Zenon
          <6> QED BY <6>1, <6>2, Zenon
        <5> QED BY <5>1, Zenon DEF Debt
      <4> QED BY <1>1, <1>3, <2>1, <4>1
    <3>2. CASE snd'[s].at = "rollback"
      <4>1. Debt' = Debt \cup own
        <5>1. ASSUME NEW d \in Senders \X Nat
              PROVE  (snd'[d[1]].at = "rollback" /\ d[2] \in 1 .. snd'[d[1]].pages)
                       <=> (d \in Debt \/ d \in own)
          <6>0. d = <<d[1], d[2]>> /\ d[1] \in Senders /\ d[2] \in Nat OBVIOUS
          <6>1. CASE d[1] = s
            <7>1. d \in own <=> d[2] \in 1 .. k BY <6>0, <6>1, Zenon
            <7>2. d \notin Debt
              <8>1. snd[s].at # "rollback" BY <2>1
              <8> QED BY <6>1, <8>1, Zenon DEF Debt
            <7> QED BY <2>1, <3>2, <6>1, <7>1, <7>2, Zenon
          <6>2. CASE d[1] # s
            <7>1. d \notin own BY <6>2, Zenon
            <7> QED BY <1>2, <6>0, <6>2, <7>1, Zenon DEF Debt
          <6> QED BY <6>1, <6>2, Zenon
        <5>2. own \subseteq Senders \X Nat /\ Debt \subseteq Senders \X Nat
          <6>1. \A x \in 1 .. snd[s].pages : x \in Nat BY <1>1
          <6> QED BY <6>1, Zenon DEF Debt
        <5>3. Debt' = {d \in Senders \X Nat : snd'[d[1]].at = "rollback" /\ d[2] \in 1 .. snd'[d[1]].pages}
          BY Zenon DEF Debt
        <5> HIDE DEF own
        <5> QED BY <5>1, <5>2, <5>3, Zenon
      <4>2. Debt \cap own = {}
        <5>1. snd[s].at # "rollback" BY <2>1
        <5> QED BY <5>1, Zenon DEF Debt
      <4> HIDE DEF own
      <4>3. IsFiniteSet(Debt \cup own)
            /\ Cardinality(Debt \cup own) = Cardinality(Debt) + Cardinality(own) - Cardinality(Debt \cap own)
        BY <1>3, <1>4, FS_Union, Zenon
      <4>4. Cardinality(Debt \cap own) = 0 BY <4>2, FS_EmptySet, Zenon
      <4>5. Cardinality(Debt') = Cardinality(Debt) + snd[s].pages
        BY <1>1, <1>3, <1>4, <4>1, <4>3, <4>4
      <4>6. IsFiniteSet(Debt') BY <4>1, <4>3, Zenon
      <4> QED BY <1>1, <1>3, <2>1, <4>5, <4>6
    <3> QED BY <2>1, <3>1, <3>2
  <2> QED BY <1>5, <2>4, <2>5, Zenon DEF PoolDebt
<1>7. CASE RollBack(s)
  <2>1. /\ snd[s].at = "rollback" /\ alloc_offset' = alloc_offset - snd[s].pages /\ granted' = granted
        /\ snd'[s].at = "idle"
    <3>1. snd'[s].at = "idle" BY <1>1, <1>7, SenderAfter, Zenon
    <3> QED BY <1>7, <3>1, Zenon DEF RollBack
  <2>2. Debt' = Debt \ own
    <3>1. ASSUME NEW d \in Senders \X Nat
          PROVE  (snd'[d[1]].at = "rollback" /\ d[2] \in 1 .. snd'[d[1]].pages)
                   <=> (d \in Debt /\ d \notin own)
      <4>0. d = <<d[1], d[2]>> /\ d[1] \in Senders /\ d[2] \in Nat OBVIOUS
      <4>1. CASE d[1] = s
        <5>1. d \in Debt => d \in own BY <4>0, <4>1, Zenon DEF Debt
        <5>2. snd'[s].at # "rollback" BY <2>1
        <5> QED BY <4>1, <5>1, <5>2, Zenon
      <4>2. CASE d[1] # s
        <5>1. d \notin own BY <4>2, Zenon
        <5> QED BY <1>2, <4>0, <4>2, <5>1, Zenon DEF Debt
      <4> QED BY <4>1, <4>2, Zenon
    <3>2. Debt \subseteq Senders \X Nat BY Zenon DEF Debt
    <3>3. Debt' = {d \in Senders \X Nat : snd'[d[1]].at = "rollback" /\ d[2] \in 1 .. snd'[d[1]].pages}
      BY Zenon DEF Debt
    <3> HIDE DEF own
    <3> QED BY <3>1, <3>2, <3>3, Zenon
  <2>3. Debt \cap own = own
    <3>1. own \subseteq Debt
      <4>1. \A x \in 1 .. snd[s].pages : x \in Nat BY <1>1
      <4>2. \A x \in 1 .. snd[s].pages : <<s, x>> \in Debt BY <2>1, <4>1, Zenon DEF Debt
      <4>3. \A e \in own : e = <<s, e[2]>> /\ e[2] \in 1 .. snd[s].pages OBVIOUS
      <4> QED BY <4>2, <4>3, Zenon
    <3> QED BY <3>1, Zenon
  <2> HIDE DEF own
  <2>4. IsFiniteSet(Debt \ own) /\ Cardinality(Debt \ own) = Cardinality(Debt) - Cardinality(Debt \cap own)
    BY <1>3, FS_Difference, Zenon
  <2>5. IsFiniteSet(Debt') /\ Cardinality(Debt') = Cardinality(Debt) - snd[s].pages
    BY <1>4, <2>2, <2>3, <2>4, Zenon
  <2>6. Cardinality(Debt') <= alloc_offset' BY <1>1, <1>3, <2>1, <2>5
  <2> QED BY <1>5, <2>1, <2>5, <2>6, Zenon DEF PoolDebt
<1>8. CASE ~Allocate(s) /\ ~RollBack(s)
  <2>1. UNCHANGED <<alloc_offset, granted>>
    BY <1>8, Zenon DEF SendStep, SendTail, SendCheck, SendClaim, SlotEmpty, SlotTimeout, Envelope, InlineData,
                InlineRptr, CopyOut, NotInline, Publish
  <2>2. snd[s].at # "rollback" /\ snd'[s].at # "rollback"
    <3>1. /\ snd[s].at \in {"idle", "check", "claim", "wait", "envelope", "inline", "norptr", "copy",
                            "notinline", "publish"}
          /\ snd'[s].at \in {"idle", "check", "claim", "wait", "envelope", "inline", "alloc", "norptr",
                             "notinline", "publish"}
      BY <1>1, <1>8, SenderAfter, Zenon DEF SendStep
    <3> QED BY <3>1
  <2>3. Debt' = Debt
    <3>1. ASSUME NEW d \in Senders \X Nat
          PROVE  (snd'[d[1]].at = "rollback" /\ d[2] \in 1 .. snd'[d[1]].pages)
                   <=> (snd[d[1]].at = "rollback" /\ d[2] \in 1 .. snd[d[1]].pages)
      <4>1. CASE d[1] = s BY <2>2, <4>1, Zenon
      <4>2. CASE d[1] # s
        <5>1. d[1] \in Senders BY Zenon
        <5> QED BY <1>2, <4>2, <5>1, Zenon
      <4> QED BY <4>1, <4>2, Zenon
    <3> QED BY <3>1, Zenon DEF Debt
  <2> QED BY <1>5, <2>1, <2>3, Zenon DEF PoolDebt
<1> QED BY <1>6, <1>7, <1>8, Zenon

\* At first nothing has to be given back.
LEMMA DebtInit ==
  ASSUME MailInit PROVE PoolDebt
<1>1. \A s \in Senders : snd[s].at = "idle" BY Zenon DEF MailInit, NoSend
<1>2. Debt = {}
  <2>1. \A s \in Senders : snd[s].at # "rollback" BY <1>1
  <2> QED BY <2>1, Zenon DEF Debt
<1>3. IsFiniteSet(Debt) /\ Cardinality(Debt) = 0 BY <1>2, FS_EmptySet, Zenon
<1>4. Cardinality(Debt) <= alloc_offset BY <1>3 DEF MailInit
<1>5. granted = {} BY Zenon DEF MailInit
<1>6. \A s \in Senders : snd[s].at \notin {"alloc", "rollback", "copy", "notinline"} BY <1>1
<1> QED BY <1>3, <1>4, <1>5, <1>6, Zenon DEF PoolDebt, Paged

\* Every step keeps the debt covered.
LEMMA DebtInductive ==
  ASSUME MailInv, MailInv', PoolDebt, [MailNext]_mailVars PROVE PoolDebt'
<1>1. CASE \E s \in Senders : SendStep(s) BY <1>1, DebtKept, Zenon
<1>2. CASE UNCHANGED <<snd, alloc_offset, granted>> BY <1>2, Zenon DEF PoolDebt, Paged, Debt
<1>3. \/ \E s \in Senders : SendStep(s)
      \/ UNCHANGED <<snd, alloc_offset, granted>>
  BY Zenon DEF MailNext, RecvTail, RecvHead, RecvScan, RecvCopy, RecvConsume, RecvAdvance, Deactivate, mailVars
<1> QED BY <1>1, <1>2, <1>3, Zenon

\* The offset of the pool and its buffers are natural numbers, and no buffer
\* is empty, for any number of senders and however many allocations fail.
THEOREM MailTypesHold == MailSpec => []MailTypeOK
<1>1. MailInv /\ PoolDebt => MailTypeOK
  <2> SUFFICES ASSUME MailInv, PoolDebt PROVE MailTypeOK OBVIOUS
  <2>1. \A i \in MsgSlots : msgs[i].state \in SlotStates
    BY Zenon DEF MailInv, MailTypes, SlotTypes
  <2>2. QueueIndices
    BY <2>1, Zenon DEF MailInv, MailTypes, OwnerLags, RoomWasFound, QueueIndices, SlotStates
  <2>3. alloc_offset \in Nat
    <3>1. IsFiniteSet(Debt) /\ Cardinality(Debt) \in Nat /\ Cardinality(Debt) <= alloc_offset
      BY FS_CardinalityType, Zenon DEF PoolDebt
    <3> QED BY <3>1 DEF MailInv, MailTypes
  <2>4. ASSUME NEW g \in granted PROVE g.from \in Nat /\ g.to \in Nat /\ g.from < g.to
    <3>1. g.from \in Int /\ g.to \in Int BY Zenon DEF MailInv, MailTypes
    <3>2. 0 <= g.from /\ g.from < g.to BY Zenon DEF PoolDebt
    <3> QED BY <3>1, <3>2
  <2> QED BY <2>2, <2>3, <2>4, Zenon DEF MailTypeOK
<1> QED BY <1>1, DebtInit, DebtInductive, MailInitInv, MailInductive, PTL DEF MailSpec

\* There are finitely many messages to read.
LEMMA UnreadFinite == IsFiniteSet(Unread) /\ Cardinality(Unread) \in Nat
<1>1. 0 \in Int /\ QueueSize - 1 \in Int BY MailAssumption
<1>2. IsFiniteSet(MsgSlots) BY <1>1, FS_Interval, Zenon DEF MsgSlots
<1>3. Unread \in SUBSET MsgSlots BY Zenon DEF Unread
<1>4. IsFiniteSet(Unread) BY <1>2, <1>3, FS_Subset, Zenon
<1> QED BY <1>4, FS_CardinalityType, Zenon

\* Every message that was published was received or is in a slot, to be read.
Counted ==
  /\ \E S : got \in Seq(S)
  /\ IsFiniteSet(published) /\ Cardinality(published) = Len(got) + Cardinality(Unread)

\* It holds of an empty mailbox.
LEMMA CountedInit ==
  ASSUME MailInit PROVE Counted
<1>1. (\A k \in MsgSlots : msgs[k].state = "EMPTY") /\ got = <<>> /\ published = {} BY Zenon DEF MailInit
<1>2. \A k \in MsgSlots : msgs[k].state # "READING" /\ msgs[k].state # "READY" BY <1>1
<1>3. Unread = {} BY <1>2, Zenon DEF Unread
<1>4. IsFiniteSet(published) /\ Cardinality(published) = 0 /\ Cardinality(Unread) = 0
  BY <1>1, <1>3, FS_EmptySet, Zenon
<1>5. Len(got) = 0 /\ got \in Seq({}) BY <1>1
<1>6. Cardinality(published) = Len(got) + Cardinality(Unread) BY <1>4, <1>5
<1> QED BY <1>4, <1>5, <1>6, Zenon DEF Counted

\* A publication adds one message to both sides: the slot it is put in was
\* empty and no send is published twice.
LEMMA PublishCounts ==
  ASSUME MailInv, SlotsInv, Counted, ~overtaken, NEW s \in Senders, Publish(s)
  PROVE  Counted'
<1> DEFINE z == Slot(s)
<1>1. MailTypes /\ SlotsOwned /\ Numbered BY Zenon DEF MailInv, SlotsInv
<1>2. snd[s].at = "publish" /\ rcv' = rcv /\ got' = got /\ published' = published \cup {Payload(s)}
  BY Zenon DEF Publish
<1>3. Writing(s) /\ snd[s].at # "idle" BY <1>2 DEF Writing, Claimed
<1>4. z \in MsgSlots /\ msgs[z].state = "EMPTY" BY <1>1, <1>3, OwnSlot, Zenon
<1>5. msgs' = [msgs EXCEPT ![z].state = "READY"] BY Zenon DEF Publish
<1>6. msgs'[z].state = "READY" /\ \A k \in MsgSlots : k # z => msgs'[k] = msgs[k]
  BY <1>1, <1>4, <1>5, StateSet, Zenon
<1>7. Unread' = Unread \cup {z} /\ z \notin Unread
  <2>1. z \notin Unread BY <1>4 DEF Unread
  <2>2. Unread' = {k \in MsgSlots : msgs'[k].state = "READY" \/ (msgs'[k].state = "READING" /\ rcv'.at = "copy")}
    BY Zenon DEF Unread
  <2>3. \A k \in MsgSlots : (msgs'[k].state = "READY" \/ (msgs'[k].state = "READING" /\ rcv'.at = "copy"))
                            <=> (k \in Unread \/ k = z)
    BY <1>2, <1>6, Zenon DEF Unread
  <2>4. Unread \subseteq MsgSlots BY Zenon DEF Unread
  <2> QED BY <1>4, <2>1, <2>2, <2>3, <2>4, Zenon
<1>8. Payload(s) \notin published
  <2>1. snd[s].n \in Nat BY <1>1, Zenon DEF MailTypes, SendTypes
  <2>2. Payload(s)[1] = s /\ Payload(s)[2] = snd[s].n BY DEF Payload
  <2>3. ~(snd[s].n < snd[s].n) BY <2>1
  <2> QED BY <1>1, <1>3, <2>2, <2>3, Zenon DEF Numbered
<1>9. IsFiniteSet(Unread) /\ Cardinality(Unread) \in Nat BY UnreadFinite, Zenon
<1>10. Cardinality(Unread') = Cardinality(Unread) + 1 BY <1>7, <1>9, FS_AddElement, Zenon
<1>11. IsFiniteSet(published) /\ Cardinality(published) \in Nat BY FS_CardinalityType, Zenon DEF Counted
<1>12. IsFiniteSet(published') /\ Cardinality(published') = Cardinality(published) + 1
  BY <1>2, <1>8, <1>11, FS_AddElement, Zenon
<1>13. PICK S : got \in Seq(S) BY Zenon DEF Counted
<1>14. Len(got) \in Nat BY <1>13
<1>15. Cardinality(published) = Len(got) + Cardinality(Unread) BY Zenon DEF Counted
<1>16. Cardinality(published') = Len(got) + Cardinality(Unread') BY <1>9, <1>10, <1>11, <1>12, <1>14, <1>15
<1> QED BY <1>2, <1>12, <1>13, <1>16, Zenon DEF Counted

\* A copy moves one message from the slots to the received, or puts it back.
LEMMA CopyCounts ==
  ASSUME MailInv, SlotsInv, Counted, RecvCopy
  PROVE  Counted'
<1> DEFINE z == SlotOf(rcv.i)
<1>1. MailTypes /\ OwnerReads BY Zenon DEF MailInv, SlotsInv
<1>2. published' = published /\ rcv.at = "copy" BY Zenon DEF RecvCopy
<1>3. rcv.at \in {"copy", "consume"} /\ rcv.at \in {"scan", "copy", "consume"} BY <1>2
<1>4. z \in MsgSlots /\ msgs[z].state = "READING" BY <1>1, <1>3, ReadingLive, Zenon DEF OwnerReads, Msg
<1>5. \A k \in MsgSlots : msgs[k].state = "READING" <=> k = z BY <1>1, <1>4, Zenon DEF OwnerReads
<1>6. PICK S : got \in Seq(S) BY Zenon DEF Counted
<1>7. IsFiniteSet(Unread) /\ Cardinality(Unread) \in Nat BY UnreadFinite, Zenon
<1>8. IsFiniteSet(published) /\ Cardinality(published) = Len(got) + Cardinality(Unread)
  BY Zenon DEF Counted
<1>9. CASE msgs' = msgs
  <2>1. PICK e : got' = Append(got, e) /\ rcv' = [rcv EXCEPT !.at = "consume"]
    <3>1. CASE msgs' = [msgs EXCEPT ![z].state = "READY"]
      <4>1. msgs'[z].state = "READY" BY <1>1, <1>4, <3>1, StateSet, Zenon
      <4> QED BY <1>4, <1>9, <4>1
    <3> QED BY <3>1, Zenon DEF RecvCopy
  <2>2. rcv'.at = "consume" BY <1>1, <2>1, Zenon DEF MailTypes, RecvTypes
  <2>3. Unread' = Unread \ {z} /\ z \in Unread
    <3>1. rcv'.at # "copy" /\ msgs[z].state # "READY" BY <1>4, <2>2
    <3>2. Unread' = {k \in MsgSlots : msgs[k].state = "READY"} BY <1>9, <3>1, Zenon DEF Unread
    <3>3. z \in Unread BY <1>2, <1>4, Zenon DEF Unread
    <3>4. \A k \in MsgSlots : msgs[k].state = "READY" <=> k \in Unread /\ k # z
      BY <1>2, <1>5, <3>1, Zenon DEF Unread
    <3>5. Unread \subseteq MsgSlots BY Zenon DEF Unread
    <3> HIDE DEF z
    <3> QED BY <3>2, <3>3, <3>4, <3>5, Zenon
  <2> HIDE DEF z
  <2>4. Cardinality(Unread') = Cardinality(Unread) - 1 BY <1>7, <2>3, FS_RemoveElement, Zenon
  <2>5. got' \in Seq(S \cup {e}) /\ Len(got') = Len(got) + 1 /\ Len(got) \in Nat BY <1>6, <2>1, AppendFacts
  <2>6. Cardinality(published') = Len(got') + Cardinality(Unread') BY <1>2, <1>7, <1>8, <2>4, <2>5
  <2> QED BY <1>2, <1>8, <2>5, <2>6, Zenon DEF Counted
<1>10. CASE msgs' # msgs
  <2>1. got' = got /\ msgs' = [msgs EXCEPT ![z].state = "READY"] BY <1>10, Zenon DEF RecvCopy
  <2>2. msgs'[z].state = "READY" /\ \A k \in MsgSlots : k # z => msgs'[k] = msgs[k]
    BY <1>1, <1>4, <2>1, StateSet, Zenon
  <2> HIDE DEF z
  <2>3. ASSUME NEW k \in MsgSlots PROVE k \in Unread' <=> k \in Unread
    <3>1. CASE k = z BY <1>2, <1>4, <2>2, <3>1, Zenon DEF Unread
    <3>2. CASE k # z BY <1>5, <2>2, <3>2, Zenon DEF Unread
    <3> QED BY <3>1, <3>2, Zenon
  <2>4. Unread' = Unread BY <2>3, Zenon DEF Unread
  <2> QED BY <1>2, <2>1, <2>4, Zenon DEF Counted
<1> QED BY <1>9, <1>10, Zenon

\* Nothing else changes the count.
LEMMA CountedKept ==
  ASSUME MailInv, SlotsInv, Counted, ~overtaken, [MailNext]_mailVars
  PROVE  Counted'
<1>1. ASSUME NEW s \in Senders, Publish(s) PROVE Counted' BY <1>1, PublishCounts, Zenon
<1>2. CASE RecvCopy BY <1>2, CopyCounts, Zenon
<1>3. CASE ~RecvCopy /\ \A s \in Senders : ~Publish(s)
  <2>1. Unread' = Unread BY <1>3, UnreadStays, Zenon
  <2>2. got' = got BY <1>3, PublishedStays, Zenon DEF MailInv
  <2>3. published' = published
    <3>1. ASSUME NEW s \in Senders, SendStep(s) PROVE published' = published
      BY <1>3, <3>1, SenderLeaves, Zenon DEF MailInv
    <3>2. CASE RecvStep BY <3>2, OwnerLeaves, Zenon
    <3>3. CASE Deactivate \/ UNCHANGED mailVars BY <3>3, Zenon DEF Deactivate, mailVars
    <3> QED BY <3>1, <3>2, <3>3, Zenon DEF MailNext, RecvStep
  <2> QED BY <2>1, <2>2, <2>3, Zenon DEF Counted
<1> QED BY <1>1, <1>2, <1>3, Zenon

\* A mailbox in which nothing is under way and nothing unread has moved its
\* tail to the head.
LEMMA TailCatchesUp ==
  ASSUME MailInv, SlotsInv, Counted, ~overtaken, ~holes, rcv.at = "idle", \A s \in Senders : Resting(s),
         Len(got) = Cardinality(published)
  PROVE  box_tail = box_head
<1>1. MailTypes /\ OwnerReads /\ TailIsLive /\ NoIndexLost BY Zenon DEF MailInv, SlotsInv
<1>2. box_tail \in Nat /\ box_head \in Nat /\ box_tail <= box_head
  BY Zenon DEF MailInv, MailTypes, OwnerLags
<1>3. SUFFICES ASSUME box_tail < box_head PROVE FALSE BY <1>2
<1> DEFINE k == SlotOf(box_tail)
<1>4. box_tail \in Live /\ k \in MsgSlots
  <2>1. Low = box_tail BY DEF Low
  <2>2. box_tail \in Live BY <1>2, <1>3, <2>1 DEF Live
  <2> QED BY <2>2, LiveFacts, Zenon
<1>5. msgs[k].state # "CONSUMED"
  <2>1. rcv.at # "advance" OBVIOUS
  <2> QED BY <1>1, <1>3, <2>1, Zenon DEF TailIsLive, Msg
<1>6. msgs[k].state # "READING"
  <2>1. rcv.at \notin {"copy", "consume"} OBVIOUS
  <2> QED BY <1>1, <1>4, <2>1, Zenon DEF OwnerReads
<1>7. msgs[k].state # "EMPTY"
  <2>1. \A s \in Senders : ~Writing(s) BY DEF Resting, Writing, Claimed
  <2> QED BY <1>1, <1>4, <2>1, Zenon DEF NoIndexLost, Msg
<1>8. msgs[k].state # "READY"
  <2>1. Cardinality(Unread) = 0
    <3>1. PICK S : got \in Seq(S) BY Zenon DEF Counted
    <3>2. Len(got) \in Nat BY <3>1
    <3>3. Cardinality(Unread) \in Nat BY UnreadFinite, Zenon
    <3>4. Cardinality(published) = Len(got) + Cardinality(Unread) BY Zenon DEF Counted
    <3> QED BY <3>2, <3>3, <3>4
  <2>2. Unread = {} BY <2>1, UnreadFinite, FS_EmptySet, Zenon
  <2> QED BY <1>4, <2>2, Zenon DEF Unread
<1>9. msgs[k].state \in SlotStates BY <1>1, <1>4, Zenon DEF MailTypes, SlotTypes
<1> QED BY <1>5, <1>6, <1>7, <1>8, <1>9 DEF SlotStates

\* What cxl_recv returns is what one cxl_send put in, in the order of the sends
\* of that sender with that tag, and a mailbox that has been read out has given
\* all its slots back: for any queue, any pool and any number of senders, as
\* long as no claim overtakes a check and no allocation crosses a failed one.
THEOREM MailDelivers == MailSpec => []MailDelivered
<1> DEFINE Inv == MailDeliverInv /\ (~overtaken => Counted)
<1>1. MailInit => Inv
  <2> SUFFICES ASSUME MailInit PROVE Inv OBVIOUS
  <2>1. Counted BY CountedInit, Zenon
  <2> QED BY <2>1, DeliverInit, Zenon
<1>2. MailInv /\ MailInv' /\ Inv /\ [MailNext]_mailVars => Inv'
  <2> SUFFICES ASSUME MailInv, MailInv', Inv, [MailNext]_mailVars PROVE Inv' OBVIOUS
  <2>1. MailDeliverInv' BY DeliverInductive, Zenon
  <2>2. ~overtaken' => Counted'
    <3>1. SUFFICES ASSUME ~overtaken' PROVE Counted' OBVIOUS
    <3>2. ~overtaken BY <3>1, OvertakenStays, Zenon DEF MailInv
    <3>3. SlotsInv /\ Counted BY <3>2, Zenon DEF MailDeliverInv
    <3> QED BY <3>2, <3>3, CountedKept, Zenon
  <2> QED BY <2>1, <2>2, Zenon
<1>3. MailInv /\ Inv => MailDelivered
  <2> SUFFICES ASSUME MailInv, Inv PROVE MailDelivered OBVIOUS
  <2>1. ~overtaken /\ ~crossed => GotInOrder BY Zenon DEF MailDeliverInv
  <2>2. ~overtaken => SlotsInv /\ Counted BY Zenon DEF MailDeliverInv
  <2> QED BY <2>1, <2>2, TailCatchesUp, Zenon DEF MailDelivered, GotInOrder
<1> QED BY <1>1, <1>2, <1>3, MailInitInv, MailInductive, PTL DEF MailSpec

\* The indices of every mailbox and the values and epochs of every window stay
\* in order when the two run side by side, for any number of ranks.
THEOREM MpiTyped == MpiSpec => []MpiTypeOK
<1>1. MpiInit => MailInit /\ WinInit BY Zenon DEF MpiInit
<1>2. [MpiNext]_<<part, mailVars, winVars>> => [MailNext]_mailVars /\ [WinNext]_winVars
  BY Zenon DEF MpiNext
<1>3. MailTypeOK /\ WinTypeOK => MpiTypeOK BY Zenon DEF MpiTypeOK
<1> QED BY <1>1, <1>2, <1>3, MailTypesHold, WindowTyped, PTL DEF MpiSpec, MailSpec, WinSpec
=============================================================================
