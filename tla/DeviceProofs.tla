---------------------------- MODULE DeviceProofs ----------------------------
(***************************************************************************)
(* The devices of a server and a node, one after the other: the ring that  *)
(* carries messages between nodes, the dynamic capacity, the mappings of   *)
(* the fabric manager, the directory of the coherency engine and the HDM   *)
(* decoder, for every capacity, granularity, integer width, set of hosts   *)
(* or nodes and sequence of calls.                                         *)
(***************************************************************************)
EXTENDS Fabric, CoherencyEngine, HdmDecoder, MsgQueue, WellFoundedInduction, TLAPS

-----------------------------------------------------------------------------
(***************************************************************************)
(* The ring between two nodes. It is a bounded queue when one thread sends *)
(* and one worker receives: what each of them read is still true when it   *)
(* acts on it, because only the sender moves head, only the worker moves   *)
(* tail, and each of them only gives the other more room.                  *)
(***************************************************************************)

\* What a ring with head h, tail t and messages m holds, as RefinesFifo reads it.
Content(h, t, m) == [i \in 1 .. ((h - t) % Capacity) |-> m[(t + i - 1) % Capacity]]
Accepted == Content(head, tail, messages)
MsgTypes == Msgs \cup {NoMsg}

\* One thread of the source sends and one worker of the destination receives.
OneEach == (\E p : Producers = {p}) /\ (\E c : Consumers = {c})

QueueTypes ==
  /\ head \in Slots /\ tail \in Slots /\ messages \in [Slots -> MsgTypes]
  /\ ppc \in [Producers -> {"idle", "tail", "copy", "publish", "count"}]
  /\ phead \in [Producers -> Slots] /\ pmsg \in [Producers -> MsgTypes]
  /\ cpc \in [Consumers -> {"idle", "tail", "copy", "publish", "count"}]
  /\ chead \in [Consumers -> Slots] /\ ctail \in [Consumers -> Slots]
  /\ cmsg \in [Consumers -> MsgTypes] /\ handed \in [Consumers -> MsgTypes]

\* The locals of enqueue_message still say what they said when they were read:
\* nobody else moves head, and the worker only makes room.
SenderCurrent ==
  \A p \in Producers :
    /\ ppc[p] \in {"tail", "copy", "publish"} => phead[p] = head /\ pmsg[p] \in Msgs
    /\ ppc[p] \in {"copy", "publish"} => (head + 1) % Capacity # tail
    /\ ppc[p] = "publish" => messages[head] = pmsg[p]

\* So do those of dequeue_message: nobody else moves tail, and the sender only
\* adds messages and writes none that is accepted.
WorkerCurrent ==
  \A c \in Consumers :
    /\ cpc[c] = "tail" /\ chead[c] # tail => head # tail
    /\ cpc[c] \in {"copy", "publish"} => ctail[c] = tail /\ head # tail
    /\ cpc[c] = "publish" => cmsg[c] = messages[tail]

QueueInv == OneEach /\ QueueTypes /\ SenderCurrent /\ WorkerCurrent

\* A remainder near zero.
LEMMA NearZero ==
  ASSUME NEW C \in Nat \ {0}, NEW x \in Int
  PROVE  /\ 0 <= x /\ x < C => x % C = x
         /\ C <= x /\ x < 2 * C => x % C = x - C
         /\ -C <= x /\ x < 0 => x % C = x + C
<1>1. 0 <= x /\ x < C => x % C = x
  OBVIOUS
<1>2. C <= x /\ x < 2 * C => x % C = x - C
  OBVIOUS
<1>3. -C <= x /\ x < 0 => x % C = x + C
  OBVIOUS
<1> QED BY <1>1, <1>2, <1>3, Zenon

\* The indices of the ring: how many messages lie between tail and head, where
\* the i-th of them lies, and the index after one.
LEMMA RingIndices ==
  ASSUME NEW h \in Slots, NEW t \in Slots
  PROVE  /\ h \in Nat /\ t \in Nat /\ Capacity \in Nat /\ h < Capacity /\ t < Capacity
         /\ (h - t) % Capacity = IF t <= h THEN h - t ELSE h - t + Capacity
         /\ (t + 1) % Capacity = IF t + 1 = Capacity THEN 0 ELSE t + 1
         /\ \A i \in 1 .. Capacity :
              (t + i - 1) % Capacity = IF t + i <= Capacity THEN t + i - 1 ELSE t + i - 1 - Capacity
<1>1. h \in Nat /\ t \in Nat /\ Capacity \in Nat \ {0} /\ h < Capacity /\ t < Capacity
  BY QueueAssumption DEF Slots
<1>2. (h - t) % Capacity = IF t <= h THEN h - t ELSE h - t + Capacity
  <2>1. h - t \in Int /\ (t <= h => 0 <= h - t /\ h - t < Capacity)
        /\ (~(t <= h) => -Capacity <= h - t /\ h - t < 0)
    BY <1>1
  <2> QED BY <1>1, <2>1, NearZero, Zenon
<1>3. (t + 1) % Capacity = IF t + 1 = Capacity THEN 0 ELSE t + 1
  <2>1. CASE t + 1 = Capacity
    <3>1. Capacity \in Int /\ Capacity <= Capacity /\ Capacity < 2 * Capacity /\ Capacity - Capacity = 0
      BY <1>1
    <3>2. Capacity % Capacity = Capacity - Capacity
      BY <1>1, <3>1, NearZero, Zenon
    <3> QED BY <2>1, <3>1, <3>2, Zenon
  <2>2. CASE t + 1 # Capacity
    <3>1. t + 1 \in Int /\ 0 <= t + 1 /\ t + 1 < Capacity
      BY <1>1, <2>2
    <3>2. (t + 1) % Capacity = t + 1
      BY <1>1, <3>1, NearZero, Zenon
    <3> QED BY <2>2, <3>2, Zenon
  <2> QED BY <2>1, <2>2, Zenon
<1>4. ASSUME NEW i \in 1 .. Capacity
      PROVE  (t + i - 1) % Capacity = IF t + i <= Capacity THEN t + i - 1 ELSE t + i - 1 - Capacity
  <2>1. CASE t + i <= Capacity
    <3>1. t + i - 1 \in Int /\ 0 <= t + i - 1 /\ t + i - 1 < Capacity
      BY <1>1, <2>1
    <3>2. (t + i - 1) % Capacity = t + i - 1
      BY <1>1, <3>1, NearZero, Zenon
    <3> QED BY <2>1, <3>2, Zenon
  <2>2. CASE ~(t + i <= Capacity)
    <3>1. t + i - 1 \in Int /\ Capacity <= t + i - 1 /\ t + i - 1 < 2 * Capacity
      BY <1>1, <2>2
    <3>2. PICK x \in Int : x = t + i - 1
      BY <3>1, Zenon
    <3>3. x % Capacity = x - Capacity
      BY <1>1, <3>1, <3>2, NearZero, Zenon
    <3>4. (t + i - 1) % Capacity = x % Capacity
      BY <3>2, Zenon
    <3>5. t + i - 1 - Capacity = x - Capacity
      BY <1>1, <3>2
    <3> QED BY <2>2, <3>3, <3>4, <3>5, Zenon
  <2> QED BY <2>1, <2>2, Zenon
<1> QED BY <1>1, <1>2, <1>3, <1>4, Zenon

\* The content is a sequence of messages.
LEMMA ContentSeq ==
  ASSUME NEW h \in Slots, NEW t \in Slots, NEW m \in [Slots -> MsgTypes]
  PROVE  /\ Content(h, t, m) \in Seq(MsgTypes)
         /\ Len(Content(h, t, m)) = (h - t) % Capacity /\ (h - t) % Capacity \in 0 .. Capacity - 1
<1> DEFINE n == (h - t) % Capacity
<1>1. n \in Nat /\ n < Capacity /\ Capacity \in Nat /\ t \in Nat /\ t < Capacity
  BY RingIndices
<1>2. \A i \in 1 .. n : (t + i - 1) % Capacity \in Slots
  <2> SUFFICES ASSUME NEW i \in 1 .. n PROVE (t + i - 1) % Capacity \in Slots
    OBVIOUS
  <2>1. i \in 1 .. Capacity
    BY <1>1
  <2>2. (t + i - 1) % Capacity = IF t + i <= Capacity THEN t + i - 1 ELSE t + i - 1 - Capacity
    BY <2>1, RingIndices, Zenon
  <2> QED BY <1>1, <2>1, <2>2 DEF Slots
<1> HIDE DEF n
<1>3. \A i \in 1 .. n : m[(t + i - 1) % Capacity] \in MsgTypes
  BY <1>2, Zenon
<1>4. Content(h, t, m) = [i \in 1 .. n |-> m[(t + i - 1) % Capacity]]
  BY Zenon DEF Content, n
<1>5. Content(h, t, m) \in [1 .. n -> MsgTypes]
  BY <1>3, <1>4, Zenon
<1>6. \A q \in [1 .. n -> MsgTypes] : q \in Seq(MsgTypes) /\ Len(q) = n
  BY <1>1
<1>7. Content(h, t, m) \in Seq(MsgTypes) /\ Len(Content(h, t, m)) = n
  BY <1>5, <1>6, Zenon
<1> QED BY <1>1, <1>7 DEF n

\* enqueue_message writes the slot at head, which holds nothing accepted.
LEMMA ContentWrite ==
  ASSUME NEW h \in Slots, NEW t \in Slots, NEW m \in [Slots -> MsgTypes], NEW x
  PROVE  Content(h, t, [m EXCEPT ![h] = x]) = Content(h, t, m)
<1>1. ASSUME NEW i \in 1 .. ((h - t) % Capacity)
      PROVE  [m EXCEPT ![h] = x][(t + i - 1) % Capacity] = m[(t + i - 1) % Capacity]
  <2>1. i \in 1 .. Capacity /\ i <= (h - t) % Capacity
    BY RingIndices
  <2> DEFINE j == (t + i - 1) % Capacity
  <2>2. /\ j = IF t + i <= Capacity THEN t + i - 1 ELSE t + i - 1 - Capacity
        /\ (h - t) % Capacity = IF t <= h THEN h - t ELSE h - t + Capacity
        /\ h \in Nat /\ t \in Nat /\ Capacity \in Nat /\ h < Capacity /\ t < Capacity
    BY <2>1, RingIndices, Zenon
  <2> HIDE DEF j
  <2>3. j \in Slots /\ j # h
    BY <2>1, <2>2 DEF Slots
  <2> QED BY <2>3, Zenon DEF j
<1> QED BY <1>1, Zenon DEF Content

\* Moving head over one slot appends the message in it.
LEMMA ContentAppend ==
  ASSUME NEW h \in Slots, NEW t \in Slots, NEW m \in [Slots -> MsgTypes], (h + 1) % Capacity # t
  PROVE  /\ Content((h + 1) % Capacity, t, m) = Append(Content(h, t, m), m[h])
         /\ Len(Content(h, t, m)) < Capacity - 1
<1> DEFINE n == (h - t) % Capacity
           g == (h + 1) % Capacity
<1>1. /\ n \in Nat /\ n < Capacity /\ Capacity \in Nat /\ h \in Nat /\ t \in Nat /\ h < Capacity /\ t < Capacity
      /\ n = IF t <= h THEN h - t ELSE h - t + Capacity
      /\ g = IF h + 1 = Capacity THEN 0 ELSE h + 1
  BY RingIndices
<1>2. g \in Slots /\ g # t
  BY <1>1 DEF Slots
<1> HIDE DEF n, g
<1>3. (g - t) % Capacity = IF t <= g THEN g - t ELSE g - t + Capacity
  BY <1>2, RingIndices, Zenon
<1>4. (g - t) % Capacity = n + 1 /\ n < Capacity - 1
  BY <1>1, <1>2, <1>3
<1>5. (t + (n + 1) - 1) % Capacity = h
  <2>1. n + 1 \in 1 .. Capacity
    BY <1>1
  <2>2. (t + (n + 1) - 1) % Capacity
          = IF t + (n + 1) <= Capacity THEN t + (n + 1) - 1 ELSE t + (n + 1) - 1 - Capacity
    BY <2>1, RingIndices, Zenon
  <2> QED BY <1>1, <2>2
<1>6. Content(h, t, m) \in Seq(MsgTypes) /\ Len(Content(h, t, m)) = n
  BY ContentSeq, Zenon DEF n
<1>7. Content(g, t, m) = [i \in 1 .. n + 1 |-> m[(t + i - 1) % Capacity]]
  BY <1>4, Zenon DEF Content
<1>8. Content(h, t, m) = [i \in 1 .. n |-> m[(t + i - 1) % Capacity]]
  BY Zenon DEF Content, n
<1>9. Append(Content(h, t, m), m[h]) = [i \in 1 .. n + 1 |-> IF i <= n THEN Content(h, t, m)[i] ELSE m[h]]
  BY <1>1, <1>6
<1>10. ASSUME NEW i \in 1 .. n + 1
       PROVE  m[(t + i - 1) % Capacity] = IF i <= n THEN Content(h, t, m)[i] ELSE m[h]
  <2>1. CASE i <= n
    <3>1. i \in 1 .. n
      BY <1>1, <2>1
    <3> QED BY <1>8, <2>1, <3>1, Zenon
  <2>2. CASE ~(i <= n)
    <3>1. i = n + 1
      BY <1>1, <2>2
    <3> QED BY <1>5, <2>2, <3>1, Zenon
  <2> QED BY <2>1, <2>2, Zenon
<1>11. Content(g, t, m) = Append(Content(h, t, m), m[h])
  BY <1>7, <1>9, <1>10, Zenon
<1> QED BY <1>4, <1>6, <1>11, Zenon DEF g

\* Moving tail over one slot takes the first message away, the one in that slot.
LEMMA ContentTail ==
  ASSUME NEW h \in Slots, NEW t \in Slots, NEW m \in [Slots -> MsgTypes], h # t
  PROVE  /\ Content(h, t, m) # <<>> /\ Head(Content(h, t, m)) = m[t]
         /\ Content(h, (t + 1) % Capacity, m) = Tail(Content(h, t, m))
<1> DEFINE n == (h - t) % Capacity
           u == (t + 1) % Capacity
<1>1. /\ n \in Nat /\ n < Capacity /\ Capacity \in Nat /\ h \in Nat /\ t \in Nat /\ h < Capacity /\ t < Capacity
      /\ n = IF t <= h THEN h - t ELSE h - t + Capacity
      /\ u = IF t + 1 = Capacity THEN 0 ELSE t + 1
  BY RingIndices
<1>2. u \in Slots /\ n # 0
  BY <1>1 DEF Slots
<1> HIDE DEF n, u
<1>3. (h - u) % Capacity = IF u <= h THEN h - u ELSE h - u + Capacity
  BY <1>2, RingIndices, Zenon
<1>4. (h - u) % Capacity = n - 1
  BY <1>1, <1>2, <1>3
<1>5. Content(h, t, m) \in Seq(MsgTypes) /\ Len(Content(h, t, m)) = n
  BY ContentSeq, Zenon DEF n
<1>6. Content(h, t, m) = [i \in 1 .. n |-> m[(t + i - 1) % Capacity]]
  BY Zenon DEF Content, n
<1>7. Content(h, t, m) # <<>> /\ Head(Content(h, t, m)) = m[t]
  <2>1. 1 \in 1 .. n /\ 1 \in 1 .. Capacity
    BY <1>1, <1>2
  <2>2. (t + 1 - 1) % Capacity = t
    <3>1. (t + 1 - 1) % Capacity = IF t + 1 <= Capacity THEN t + 1 - 1 ELSE t + 1 - 1 - Capacity
      BY <2>1, RingIndices, Zenon
    <3> QED BY <1>1, <3>1
  <2>3. Content(h, t, m)[1] = m[t]
    BY <1>6, <2>1, <2>2, Zenon
  <2> QED BY <1>1, <1>2, <1>5, <2>3
<1>8. Content(h, u, m) = [i \in 1 .. n - 1 |-> m[(u + i - 1) % Capacity]]
  BY <1>4, Zenon DEF Content
<1>9. Tail(Content(h, t, m)) = [i \in 1 .. n - 1 |-> Content(h, t, m)[i + 1]]
  <2>1. Content(h, t, m) \in Seq(MsgTypes) /\ Content(h, t, m) # <<>>
    BY <1>5, <1>7, Zenon
  <2> DEFINE q == Content(h, t, m)
  <2> HIDE DEF q
  <2>2. /\ Tail(q) \in Seq(MsgTypes) /\ Len(Tail(q)) = n - 1
        /\ \A i \in 1 .. n - 1 : Tail(q)[i] = q[i + 1]
    BY <1>1, <1>5, <2>1 DEF q
  <2>3. Tail(q) \in [1 .. n - 1 -> MsgTypes]
    <3>1. \A r \in Seq(MsgTypes) : r \in [1 .. Len(r) -> MsgTypes]
      OBVIOUS
    <3> QED BY <2>2, <3>1, Zenon
  <2>4. Tail(q) = [i \in 1 .. n - 1 |-> Tail(q)[i]]
    BY <2>3, Zenon
  <2> QED BY <2>2, <2>4, Zenon DEF q
<1>10. ASSUME NEW i \in 1 .. n - 1
       PROVE  m[(u + i - 1) % Capacity] = Content(h, t, m)[i + 1]
  <2>1. i \in 1 .. Capacity /\ i + 1 \in 1 .. Capacity /\ i + 1 \in 1 .. n
    BY <1>1
  <2>2. (u + i - 1) % Capacity = IF u + i <= Capacity THEN u + i - 1 ELSE u + i - 1 - Capacity
    BY <1>2, <2>1, RingIndices, Zenon
  <2>3. (t + (i + 1) - 1) % Capacity = IF t + (i + 1) <= Capacity THEN t + (i + 1) - 1 ELSE t + (i + 1) - 1 - Capacity
    BY <2>1, RingIndices, Zenon
  <2>4. (u + i - 1) % Capacity = (t + (i + 1) - 1) % Capacity
    BY <1>1, <2>1, <2>2, <2>3
  <2> QED BY <1>6, <2>1, <2>4, Zenon
<1> QED BY <1>7, <1>8, <1>9, <1>10, Zenon DEF u

\* A sender's step keeps what both ends know, and is one of the queue's.
LEMMA SenderStep ==
  ASSUME QueueInv, NEW p \in Producers,
         EnqHead(p) \/ EnqTail(p) \/ EnqCopy(p) \/ EnqPublish(p) \/ EnqCount(p)
  PROVE  QueueInv' /\ handed' = handed
         /\ (Accepted' = Accepted \/ (/\ Len(Accepted) < Capacity - 1
                                      /\ \E m \in Msgs : Accepted' = Append(Accepted, m)))
<1>1. /\ OneEach /\ QueueTypes /\ SenderCurrent /\ WorkerCurrent
  BY Zenon DEF QueueInv
<1>2. Producers = {p}
  BY <1>1, Zenon DEF OneEach
<1>3. /\ head \in Slots /\ tail \in Slots /\ messages \in [Slots -> MsgTypes]
      /\ ppc \in [Producers -> {"idle", "tail", "copy", "publish", "count"}]
      /\ phead \in [Producers -> Slots] /\ pmsg \in [Producers -> MsgTypes]
      /\ \A c \in Consumers : cmsg[c] \in MsgTypes
  BY <1>1, Zenon DEF QueueTypes
<1>4. UNCHANGED <<tail, cpc, chead, ctail, cmsg, handed>>
  BY Zenon DEF EnqHead, EnqTail, EnqCopy, EnqPublish, EnqCount, shared, clocals
<1>5. ASSUME /\ head' \in Slots /\ messages' \in [Slots -> MsgTypes]
             /\ ppc' \in [Producers -> {"idle", "tail", "copy", "publish", "count"}]
             /\ phead' \in [Producers -> Slots] /\ pmsg' \in [Producers -> MsgTypes]
      PROVE  QueueTypes'
  BY <1>1, <1>4, <1>5, Zenon DEF QueueTypes
<1>6. 0 \in Slots /\ NoMsg \in MsgTypes /\ Msgs \subseteq MsgTypes
  BY QueueAssumption DEF Slots, MsgTypes
<1>7. /\ ppc[p] \in {"tail", "copy", "publish"} => phead[p] = head /\ pmsg[p] \in Msgs
      /\ ppc[p] \in {"copy", "publish"} => (head + 1) % Capacity # tail
      /\ ppc[p] = "publish" => messages[head] = pmsg[p]
  BY <1>1, Zenon DEF SenderCurrent
<1>8. ASSUME UNCHANGED <<head, messages>> PROVE WorkerCurrent' /\ Accepted' = Accepted
  BY <1>1, <1>4, <1>8, Zenon DEF WorkerCurrent, Accepted
<1>9. ASSUME ppc' = [ppc EXCEPT ![p] = "idle"] PROVE SenderCurrent'
  BY <1>2, <1>3, <1>9, Zenon DEF SenderCurrent
<1>10. CASE EnqHead(p)
  <2>1. PICK m \in Msgs : pmsg' = [pmsg EXCEPT ![p] = m]
    BY <1>10, Zenon DEF EnqHead
  <2>2. /\ phead' = [phead EXCEPT ![p] = head] /\ ppc' = [ppc EXCEPT ![p] = "tail"]
        /\ UNCHANGED <<head, messages>>
    BY <1>10, Zenon DEF EnqHead, shared
  <2>3. QueueTypes'
    BY <1>3, <1>5, <1>6, <2>1, <2>2
  <2>4. ppc'[p] = "tail" /\ phead'[p] = head /\ pmsg'[p] = m
    BY <1>3, <2>1, <2>2, Zenon
  <2>5. SenderCurrent'
    BY <1>2, <2>2, <2>4, Zenon DEF SenderCurrent
  <2> QED BY <1>1, <1>4, <1>8, <2>2, <2>3, <2>5, Zenon DEF QueueInv, OneEach
<1>11. CASE EnqTail(p)
  <2>1. UNCHANGED <<head, messages>> /\ ppc[p] = "tail"
    BY <1>11, Zenon DEF EnqTail, shared
  <2>2. CASE IsFull(phead[p])
    <3>1. EnqDone(p)
      BY <1>11, <2>2, Zenon DEF EnqTail
    <3>2. QueueTypes'
      BY <1>3, <1>5, <1>6, <2>1, <3>1 DEF EnqDone
    <3>3. SenderCurrent'
      BY <1>9, <3>1, Zenon DEF EnqDone
    <3> QED BY <1>1, <1>4, <1>8, <2>1, <3>2, <3>3, Zenon DEF QueueInv, OneEach
  <2>3. CASE ~IsFull(phead[p])
    <3>1. ppc' = [ppc EXCEPT ![p] = "copy"] /\ UNCHANGED <<phead, pmsg>>
      BY <1>11, <2>3, Zenon DEF EnqTail
    <3>2. QueueTypes'
      BY <1>3, <1>5, <2>1, <3>1, Zenon
    <3>3. ppc'[p] = "copy" /\ (head + 1) % Capacity # tail
      BY <1>3, <1>7, <2>1, <2>3, <3>1 DEF IsFull
    <3>4. SenderCurrent'
      BY <1>2, <1>4, <1>7, <2>1, <3>1, <3>3 DEF SenderCurrent
    <3> QED BY <1>1, <1>4, <1>8, <2>1, <3>2, <3>4, Zenon DEF QueueInv, OneEach
  <2> QED BY <2>2, <2>3, Zenon
<1>12. CASE EnqCopy(p)
  <2>1. /\ ppc[p] = "copy" /\ messages' = [messages EXCEPT ![phead[p]] = pmsg[p]]
        /\ ppc' = [ppc EXCEPT ![p] = "publish"] /\ UNCHANGED <<head, phead, pmsg>>
    BY <1>12, Zenon DEF EnqCopy
  <2>2. phead[p] = head /\ pmsg[p] \in Msgs /\ (head + 1) % Capacity # tail
    BY <1>7, <2>1, Zenon
  <2>3. messages' = [messages EXCEPT ![head] = pmsg[p]] /\ pmsg[p] \in MsgTypes
    BY <1>6, <2>1, <2>2, Zenon
  <2>4. messages' \in [Slots -> MsgTypes]
    BY <1>3, <2>3, Zenon
  <2>5. QueueTypes'
    BY <1>3, <1>5, <2>1, <2>4, Zenon
  <2>6. ppc'[p] = "publish" /\ messages'[head] = pmsg[p]
    BY <1>3, <2>1, <2>3, Zenon
  <2>7. SenderCurrent'
    BY <1>2, <1>4, <2>1, <2>2, <2>6 DEF SenderCurrent
  <2>8. head # tail => messages'[tail] = messages[tail]
    BY <1>3, <2>3, Zenon
  <2>9. WorkerCurrent'
    BY <1>1, <1>4, <2>1, <2>8, Zenon DEF WorkerCurrent
  <2>10. Accepted' = Accepted
    <3>1. Content(head, tail, [messages EXCEPT ![head] = pmsg[p]]) = Content(head, tail, messages)
      BY <1>3, ContentWrite, Zenon
    <3>2. Accepted' = Content(head, tail, messages')
      BY <1>4, <2>1, Zenon DEF Accepted
    <3> QED BY <2>3, <3>1, <3>2, Zenon DEF Accepted
  <2> QED BY <1>1, <1>4, <2>5, <2>7, <2>9, <2>10, Zenon DEF QueueInv, OneEach
<1>13. CASE EnqPublish(p)
  <2>1. /\ ppc[p] = "publish" /\ head' = (phead[p] + 1) % Capacity
        /\ ppc' = [ppc EXCEPT ![p] = "count"] /\ UNCHANGED <<messages, phead, pmsg>>
    BY <1>13, Zenon DEF EnqPublish
  <2>2. phead[p] = head /\ pmsg[p] \in Msgs /\ (head + 1) % Capacity # tail /\ messages[head] = pmsg[p]
    BY <1>7, <2>1, Zenon
  <2>3. head' = (head + 1) % Capacity /\ head' # tail
    BY <2>1, <2>2, Zenon
  <2>4. head' \in Slots
    <3>1. (head + 1) % Capacity = (IF head + 1 = Capacity THEN 0 ELSE head + 1) /\ head \in Nat
          /\ head < Capacity /\ Capacity \in Nat
      BY <1>3, RingIndices, Zenon
    <3> QED BY <2>3, <3>1 DEF Slots
  <2>5. QueueTypes'
    BY <1>3, <1>5, <2>1, <2>4, Zenon
  <2>6. SenderCurrent'
    BY <1>2, <1>3, <2>1, Zenon DEF SenderCurrent
  <2>7. WorkerCurrent'
    BY <1>1, <1>4, <2>1, <2>3, Zenon DEF WorkerCurrent
  <2>8. Len(Accepted) < Capacity - 1 /\ Accepted' = Append(Accepted, pmsg[p])
    BY <1>3, <1>4, <2>1, <2>2, <2>3, ContentAppend DEF Accepted
  <2> QED BY <1>1, <1>4, <2>2, <2>5, <2>6, <2>7, <2>8, Zenon DEF QueueInv, OneEach
<1>14. CASE EnqCount(p)
  <2>1. EnqDone(p) /\ UNCHANGED <<head, messages>>
    BY <1>14, Zenon DEF EnqCount
  <2>2. QueueTypes'
    BY <1>3, <1>5, <1>6, <2>1, Zenon DEF EnqDone
  <2>3. SenderCurrent'
    BY <1>9, <2>1, Zenon DEF EnqDone
  <2> QED BY <1>1, <1>4, <1>8, <2>1, <2>2, <2>3, Zenon DEF QueueInv, OneEach
<1> QED BY <1>10, <1>11, <1>12, <1>13, <1>14, Zenon

\* So does a worker's, for the end at which messages leave.
LEMMA WorkerStep ==
  ASSUME QueueInv, NEW c \in Consumers,
         DeqHead(c) \/ DeqTail(c) \/ DeqCopy(c) \/ DeqPublish(c) \/ DeqCount(c)
  PROVE  QueueInv'
         /\ \/ Accepted' = Accepted /\ handed' = handed
            \/ Accepted' = Accepted /\ handed' = [handed EXCEPT ![c] = NoMsg]
            \/ /\ Accepted # <<>> /\ Accepted' = Tail(Accepted)
               /\ handed' = [handed EXCEPT ![c] = Head(Accepted)]
<1>1. /\ OneEach /\ QueueTypes /\ SenderCurrent /\ WorkerCurrent
  BY Zenon DEF QueueInv
<1>2. Consumers = {c}
  BY <1>1, Zenon DEF OneEach
<1>3. /\ head \in Slots /\ tail \in Slots /\ messages \in [Slots -> MsgTypes]
      /\ cpc \in [Consumers -> {"idle", "tail", "copy", "publish", "count"}]
      /\ chead \in [Consumers -> Slots] /\ ctail \in [Consumers -> Slots]
      /\ cmsg \in [Consumers -> MsgTypes] /\ handed \in [Consumers -> MsgTypes]
  BY <1>1, Zenon DEF QueueTypes
<1>4. UNCHANGED <<head, messages, ppc, phead, pmsg>>
  BY Zenon DEF DeqHead, DeqTail, DeqCopy, DeqPublish, DeqCount, shared, plocals
<1>5. ASSUME /\ tail' \in Slots /\ cpc' \in [Consumers -> {"idle", "tail", "copy", "publish", "count"}]
             /\ chead' \in [Consumers -> Slots] /\ ctail' \in [Consumers -> Slots]
             /\ cmsg' \in [Consumers -> MsgTypes] /\ handed' \in [Consumers -> MsgTypes]
      PROVE  QueueTypes'
  BY <1>1, <1>4, <1>5, Zenon DEF QueueTypes
<1>6. 0 \in Slots /\ NoMsg \in MsgTypes
  BY QueueAssumption DEF Slots, MsgTypes
<1>7. /\ cpc[c] = "tail" /\ chead[c] # tail => head # tail
      /\ cpc[c] \in {"copy", "publish"} => ctail[c] = tail /\ head # tail
      /\ cpc[c] = "publish" => cmsg[c] = messages[tail]
  BY <1>1, Zenon DEF WorkerCurrent
<1>8. ASSUME tail' = tail PROVE SenderCurrent' /\ Accepted' = Accepted
  BY <1>1, <1>4, <1>8, Zenon DEF SenderCurrent, Accepted
<1>9. ASSUME cpc' = [cpc EXCEPT ![c] = "idle"] PROVE WorkerCurrent'
  BY <1>2, <1>3, <1>9, Zenon DEF WorkerCurrent
<1>10. CASE DeqHead(c)
  <2>1. /\ chead' = [chead EXCEPT ![c] = head] /\ cpc' = [cpc EXCEPT ![c] = "tail"]
        /\ handed' = [handed EXCEPT ![c] = NoMsg] /\ UNCHANGED <<tail, ctail, cmsg>>
    BY <1>10, Zenon DEF DeqHead, shared
  <2>2. QueueTypes'
    BY <1>3, <1>5, <1>6, <2>1, Zenon
  <2>3. cpc'[c] = "tail" /\ chead'[c] = head
    BY <1>3, <2>1, Zenon
  <2>4. WorkerCurrent'
    BY <1>2, <1>4, <2>1, <2>3, Zenon DEF WorkerCurrent
  <2> QED BY <1>1, <1>8, <2>1, <2>2, <2>4, Zenon DEF QueueInv, OneEach
<1>11. CASE DeqTail(c)
  <2>1. tail' = tail /\ handed' = handed /\ cpc[c] = "tail"
    BY <1>11, Zenon DEF DeqTail, shared
  <2>2. CASE chead[c] = tail
    <3>1. DeqDone(c)
      BY <1>11, <2>2, Zenon DEF DeqTail
    <3>2. QueueTypes'
      BY <1>3, <1>5, <1>6, <2>1, <3>1 DEF DeqDone
    <3>3. WorkerCurrent'
      BY <1>9, <3>1, Zenon DEF DeqDone
    <3> QED BY <1>1, <1>8, <2>1, <3>2, <3>3, Zenon DEF QueueInv, OneEach
  <2>3. CASE chead[c] # tail
    <3>1. ctail' = [ctail EXCEPT ![c] = tail] /\ cpc' = [cpc EXCEPT ![c] = "copy"] /\ UNCHANGED <<chead, cmsg>>
      BY <1>11, <2>3, Zenon DEF DeqTail
    <3>2. QueueTypes'
      BY <1>3, <1>5, <2>1, <3>1, Zenon
    <3>3. cpc'[c] = "copy" /\ ctail'[c] = tail /\ head # tail
      BY <1>3, <1>7, <2>1, <2>3, <3>1
    <3>4. WorkerCurrent'
      BY <1>2, <1>4, <2>1, <3>3, Zenon DEF WorkerCurrent
    <3> QED BY <1>1, <1>8, <2>1, <3>2, <3>4, Zenon DEF QueueInv, OneEach
  <2> QED BY <2>2, <2>3, Zenon
<1>12. CASE DeqCopy(c)
  <2>1. /\ cpc[c] = "copy" /\ cmsg' = [cmsg EXCEPT ![c] = messages[ctail[c]]]
        /\ cpc' = [cpc EXCEPT ![c] = "publish"] /\ UNCHANGED <<tail, chead, ctail, handed>>
    BY <1>12, Zenon DEF DeqCopy, shared
  <2>2. ctail[c] = tail /\ head # tail
    BY <1>7, <2>1, Zenon
  <2>3. messages[tail] \in MsgTypes
    BY <1>3, Zenon
  <2>4. QueueTypes'
    BY <1>3, <1>5, <2>1, <2>2, <2>3
  <2>5. cpc'[c] = "publish" /\ cmsg'[c] = messages[tail]
    BY <1>3, <2>1, <2>2, Zenon
  <2>6. WorkerCurrent'
    BY <1>2, <1>4, <2>1, <2>2, <2>5 DEF WorkerCurrent
  <2> QED BY <1>1, <1>8, <2>1, <2>4, <2>6, Zenon DEF QueueInv, OneEach
<1>13. CASE DeqPublish(c)
  <2>1. /\ cpc[c] = "publish" /\ tail' = (ctail[c] + 1) % Capacity
        /\ handed' = [handed EXCEPT ![c] = cmsg[c]] /\ cpc' = [cpc EXCEPT ![c] = "count"]
        /\ UNCHANGED <<chead, ctail, cmsg>>
    BY <1>13, Zenon DEF DeqPublish
  <2>2. ctail[c] = tail /\ head # tail /\ cmsg[c] = messages[tail]
    BY <1>7, <2>1, Zenon
  <2>3. tail' = (tail + 1) % Capacity
    BY <2>1, <2>2, Zenon
  <2>4. tail' \in Slots /\ (head + 1) % Capacity # tail'
    <3>1. /\ (tail + 1) % Capacity = (IF tail + 1 = Capacity THEN 0 ELSE tail + 1)
          /\ (head + 1) % Capacity = (IF head + 1 = Capacity THEN 0 ELSE head + 1)
          /\ head \in Nat /\ tail \in Nat /\ head < Capacity /\ tail < Capacity /\ Capacity \in Nat
      BY <1>3, RingIndices, Zenon
    <3> QED BY <2>2, <2>3, <3>1 DEF Slots
  <2>5. cmsg[c] \in MsgTypes
    BY <1>3, Zenon
  <2>6. QueueTypes'
    BY <1>3, <1>5, <2>1, <2>4, <2>5
  <2>7. WorkerCurrent'
    BY <1>2, <1>3, <2>1, Zenon DEF WorkerCurrent
  <2>8. SenderCurrent'
    BY <1>1, <1>4, <2>4, Zenon DEF SenderCurrent
  <2>9. Accepted # <<>> /\ Head(Accepted) = messages[tail] /\ Accepted' = Tail(Accepted)
    BY <1>3, <1>4, <2>2, <2>3, ContentTail DEF Accepted
  <2> QED BY <1>1, <2>1, <2>2, <2>6, <2>7, <2>8, <2>9, Zenon DEF QueueInv, OneEach
<1>14. CASE DeqCount(c)
  <2>1. DeqDone(c) /\ UNCHANGED <<tail, handed>>
    BY <1>14, Zenon DEF DeqCount
  <2>2. QueueTypes'
    BY <1>3, <1>5, <1>6, <2>1, Zenon DEF DeqDone
  <2>3. WorkerCurrent'
    BY <1>9, <2>1, Zenon DEF DeqDone
  <2> QED BY <1>1, <1>8, <2>1, <2>2, <2>3, Zenon DEF QueueInv, OneEach
<1> QED BY <1>10, <1>11, <1>12, <1>13, <1>14, Zenon

\* With one thread at each end enqueue_message and dequeue_message make the ring
\* a bounded queue, of any capacity: what is accepted is handed out once and in
\* order, and nothing is accepted beyond the last free slot.
THEOREM QueueIsFifo == OneEach => (QueueSpec => RefinesFifo)
<1>1. OneEach /\ QueueInit => QueueInv /\ F!Init
  <2> SUFFICES ASSUME OneEach, QueueInit PROVE QueueInv /\ F!Init
    OBVIOUS
  <2>1. 0 \in Slots /\ NoMsg \in MsgTypes
    BY QueueAssumption DEF Slots, MsgTypes
  <2>2. QueueTypes
    BY <2>1, Zenon DEF QueueInit, QueueTypes
  <2>3. SenderCurrent /\ WorkerCurrent
    BY Zenon DEF QueueInit, SenderCurrent, WorkerCurrent
  <2>4. head = 0 /\ tail = 0 /\ handed = [c \in Consumers |-> NoMsg] /\ messages \in [Slots -> MsgTypes]
    BY <2>2, Zenon DEF QueueInit, QueueTypes
  <2>5. Used = 0
    <3>1. (0 - 0) % Capacity = 0
      BY <2>1, RingIndices
    <3> QED BY <2>4, <3>1, Zenon DEF Used
  <2>6. [i \in 1 .. Used |-> messages[(tail + i - 1) % Capacity]] = <<>>
    BY <2>5
  <2> QED BY <2>2, <2>3, <2>4, <2>6, Zenon DEF QueueInv, F!Init
<1>2. QueueInv /\ [QueueNext]_queueVars =>
        QueueInv' /\ [F!Next]_<<[i \in 1 .. Used |-> messages[(tail + i - 1) % Capacity]], handed>>
  <2> SUFFICES ASSUME QueueInv, [QueueNext]_queueVars
               PROVE  QueueInv' /\ [F!Next]_<<[i \in 1 .. Used |-> messages[(tail + i - 1) % Capacity]], handed>>
    OBVIOUS
  <2>1. /\ Accepted = [i \in 1 .. Used |-> messages[(tail + i - 1) % Capacity]]
        /\ Accepted' = [i \in 1 .. Used |-> messages[(tail + i - 1) % Capacity]]'
    BY Zenon DEF Accepted, Content, Used
  <2>2. ASSUME NEW p \in Producers,
               EnqHead(p) \/ EnqTail(p) \/ EnqCopy(p) \/ EnqPublish(p) \/ EnqCount(p)
        PROVE  QueueInv' /\ [F!Next]_<<[i \in 1 .. Used |-> messages[(tail + i - 1) % Capacity]], handed>>
    BY <2>1, <2>2, SenderStep, Zenon DEF F!Next, F!Accept
  <2>3. ASSUME NEW c \in Consumers,
               DeqHead(c) \/ DeqTail(c) \/ DeqCopy(c) \/ DeqPublish(c) \/ DeqCount(c)
        PROVE  QueueInv' /\ [F!Next]_<<[i \in 1 .. Used |-> messages[(tail + i - 1) % Capacity]], handed>>
    BY <2>1, <2>3, WorkerStep, Zenon DEF F!Next, F!HandOut, F!Forget
  <2>4. CASE UNCHANGED queueVars
    <3>1. /\ UNCHANGED <<head, tail, messages, ppc, phead, pmsg>>
          /\ UNCHANGED <<cpc, chead, ctail, cmsg, handed>>
      BY <2>4, Zenon DEF queueVars, shared, plocals, clocals
    <3>2. QueueInv'
      BY <3>1, Zenon DEF QueueInv, OneEach, QueueTypes, SenderCurrent, WorkerCurrent
    <3> QED BY <3>1, <3>2, Zenon DEF Used
  <2> QED BY <2>2, <2>3, <2>4, Zenon DEF QueueNext
<1> QED BY <1>1, <1>2, PTL DEF QueueSpec, RefinesFifo, F!Spec

-----------------------------------------------------------------------------
(***************************************************************************)
(* The DCD. Live extents are disjoint and inside the device. The three     *)
(* conjuncts of DcdInv are inductive together; add_capacity re-checks      *)
(* range_within_device and range_overlaps_active even for a base that      *)
(* first fit found, so their proof needs no fact about find_free_base      *)
(* beyond its being a 64-bit number. That the base it finds is the lowest  *)
(* that is free needs the order of the extents: a gap is passed over only  *)
(* when the request does not fit, and the next one begins where the        *)
(* extents before it end.                                                  *)
(***************************************************************************)

DcdInv == DcdTypeOK /\ ExtentsDisjoint /\ ExtentsInDevice

\* align_up keeps a 64-bit value 64 bits wide and returns a multiple of the
\* granularity.
LEMMA AlignUpType ==
  ASSUME NEW v \in U64
  PROVE  /\ align_up(v) \in U64
         /\ align_up(v) % Granularity = 0
<1>1. /\ Granularity \in Nat /\ Granularity > 0 /\ MaxU64 \in Nat
      /\ v \in Nat /\ v <= MaxU64
  BY DcdAssumption DEF U64
<1> DEFINE r == v % Granularity
<1>2. r \in 0 .. Granularity - 1
  BY <1>1
<1>3. CASE r = 0
  BY <1>1, <1>2, <1>3, Zenon DEF align_up, U64
<1>4. CASE r # 0 /\ v > MaxU64 - (Granularity - r)
  <2>1. align_up(v) = 0
    BY <1>4, Zenon DEF align_up
  <2>2. 0 % Granularity = 0
    BY <1>1
  <2> QED BY <2>1, <2>2, <1>1 DEF U64
<1>5. CASE r # 0 /\ ~ (v > MaxU64 - (Granularity - r))
  <2>1. align_up(v) = v + Granularity - r
    BY <1>5, Zenon DEF align_up
  <2>2. v = Granularity * (v \div Granularity) + r /\ v \div Granularity \in Nat
    BY <1>1
  <2>3. v + Granularity - r = Granularity * ((v \div Granularity) + 1)
    BY <1>1, <1>2, <2>2
  <2>4. (Granularity * ((v \div Granularity) + 1)) % Granularity = 0
    BY <1>1, <2>2
  <2> QED BY <2>1, <2>3, <2>4, <1>1, <1>2, <1>5 DEF U64
<1> QED BY <1>2, <1>3, <1>4, <1>5, Zenon

\* The rounded size add_capacity and release_capacity work with fits 64 bits.
LEMMA AlignedSizeType ==
  ASSUME NEW v \in U64 PROVE aligned_size(v) \in U64
BY AlignUpType, DcdAssumption, Zenon DEF aligned_size, U64

\* ranges_overlap answers exactly whether two non-empty ranges share a byte.
LEMMA OverlapMeaning ==
  ASSUME NEW a \in Nat, NEW s \in Nat \ {0},
         NEW b \in Nat, NEW t \in Nat \ {0},
         ~ ranges_overlap(a, s, b, t)
  PROVE  a + s <= b \/ b + t <= a
BY DEF ranges_overlap

\* enable_dcd: the empty device and the one with an initial extent are safe.
LEMMA InitInv == DcdInit => DcdInv
<1> SUFFICES ASSUME DcdInit PROVE DcdInv
  OBVIOUS
<1>1. /\ Granularity \in Nat /\ Granularity > 0 /\ MaxU64 \in Nat
      /\ TotalCapacity \in Nat /\ TotalCapacity > 0
      /\ TotalCapacity < MaxU64 /\ MaxTag \in 1 .. MaxU64
  BY DcdAssumption
<1>2. CASE extents = {}
  BY <1>1, <1>2 DEF DcdInit, DcdInv, DcdTypeOK, ExtentsDisjoint, ExtentsInDevice
<1>3. CASE extents # {}
  <2>1. PICK s \in 1 .. TotalCapacity :
          /\ aligned_size(s) <= TotalCapacity
          /\ extents = {[base |-> 0, size |-> aligned_size(s), tag |-> 1]}
    BY <1>3, Zenon DEF DcdInit
  <2>2. s \in U64 /\ aligned_size(s) \in U64
    BY <1>1, AlignedSizeType DEF U64
  <2>3. aligned_size(s) > 0
    <3>1. CASE s = TotalCapacity
      BY <1>1, <3>1, Zenon DEF aligned_size
    <3>2. CASE s # TotalCapacity
      <4>1. s % Granularity \in 0 .. Granularity - 1
        BY <1>1
      <4>2. ~ (s > MaxU64 - (Granularity - (s % Granularity)))
        BY <1>1, <4>1, DcdAssumption
      <4> QED BY <1>1, <3>2, <4>1, <4>2 DEF aligned_size, align_up
    <3> QED BY <3>1, <3>2, Zenon
  <2>4. 0 % Granularity = 0
    BY <1>1
  <2>5. DcdTypeOK
    BY <1>1, <2>1, <2>2 DEF DcdInit, DcdTypeOK, Extent, U64
  <2>6. ExtentsDisjoint
    BY <2>1, Zenon DEF ExtentsDisjoint
  <2>7. ExtentsInDevice
    BY <1>1, <2>1, <2>2, <2>3, <2>4 DEF ExtentsInDevice, U64
  <2> QED BY <2>5, <2>6, <2>7, Zenon DEF DcdInv
<1> QED BY <1>2, <1>3, Zenon

\* A non-empty set of naturals has a least element, and Min picks it.
LEMMA MinIsLeast ==
  ASSUME NEW N, N \subseteq Nat, N # {}
  PROVE  Min(N) \in N /\ \A y \in N : Min(N) <= y
<1> DEFINE Less == {ss \in Nat \X Nat : ss[1] < ss[2]}
<1>1. IsWellFoundedOn(Less, Nat)
  BY NatLessThanWellFounded, Zenon DEF OpToRel
<1> HIDE DEF Less
<1>2. PICK x \in N : \A y \in N : ~ (<<y, x>> \in Less)
  BY <1>1, WFMin, Zenon
<1>3. ASSUME NEW y \in N PROVE x =< y
  <2>1. x \in Nat /\ y \in Nat
    OBVIOUS
  <2>2. ~ (y < x)
    <3> SUFFICES ASSUME y < x PROVE FALSE
      OBVIOUS
    <3>1. <<y, x>> \in Nat \X Nat /\ <<y, x>>[1] < <<y, x>>[2]
      BY <2>1, Zenon
    <3>2. <<y, x>> \in Less
      BY <3>1, Zenon DEF Less
    <3> QED BY <1>2, <3>2, Zenon
  <2> QED BY <2>1, <2>2
<1> QED BY <1>3, Zenon DEF Min

\* First fit answers with a granule-aligned natural number or with nullopt.
LEMMA FindFreeBaseType ==
  ASSUME DcdInv, NEW size \in U64, find_free_base(size) # MaxU64
  PROVE  /\ find_free_base(size) \in Nat
         /\ find_free_base(size) % Granularity = 0
<1>1. \A e \in extents : e.base + e.size \in U64
  BY DcdAssumption DEF DcdInv, DcdTypeOK, ExtentsInDevice, Extent, U64
<1>2. \A p \in ScanPoints : p.at \in Nat /\ p.at % Granularity = 0
  <2>1. 0 % Granularity = 0
    BY DcdAssumption
  <2> QED BY <1>1, <2>1, AlignUpType DEF ScanPoints, U64
<1>3. \A b \in FreeBases(size) : b \in Nat /\ b % Granularity = 0
  BY <1>2, Zenon DEF FreeBases
<1>4. find_free_base(size) \in FreeBases(size)
  <2>1. FreeBases(size) # {}
    BY Zenon DEF find_free_base
  <2>2. Min(FreeBases(size)) \in FreeBases(size)
    BY <1>3, <2>1, MinIsLeast, Zenon
  <2> QED BY <2>1, <2>2, Zenon DEF find_free_base
<1> QED BY <1>3, <1>4, Zenon

\* What a successful add_capacity has established about the range it returns.
LEMMA AddOK ==
  ASSUME DcdInv, NEW base \in U64, NEW size \in U64, NEW tag \in Tags,
         AddResult(base, size, tag).status = "OK"
  PROVE  LET r == AddResult(base, size, tag)
         IN  /\ r.base \in U64 /\ r.size \in U64 /\ r.tag \in U64
             /\ r.base % Granularity = 0
             /\ range_within_device(r.base, r.size)
             /\ ~ range_overlaps_active(r.base, r.size)
<1> DEFINE asize == aligned_size(size)
           b == IF base = MaxU64 THEN find_free_base(asize) ELSE base
           r == AddResult(base, size, tag)
<1>1. /\ r = [status |-> "OK", base |-> b, size |-> asize,
              tag |-> IF tag = 0 THEN next_tag ELSE tag]
      /\ ~ (base = MaxU64 /\ b = MaxU64)
      /\ ~ (base # MaxU64 /\ b % Granularity # 0)
      /\ range_within_device(b, asize)
      /\ ~ range_overlaps_active(b, asize)
  BY Zenon DEF AddResult, Failed
<1>2. asize \in U64
  BY AlignedSizeType, Zenon
<1>3. b \in Nat /\ b % Granularity = 0
  BY <1>1, <1>2, FindFreeBaseType DEF U64
<1>4. b \in U64
  BY <1>1, <1>3, DcdAssumption DEF range_within_device, U64
<1>5. r.tag \in U64
  BY <1>1, DcdAssumption DEF DcdInv, DcdTypeOK, U64
<1> QED BY <1>1, <1>2, <1>3, <1>4, <1>5

\* add_capacity keeps the extents disjoint and inside the device.
LEMMA AddPreservesInv ==
  ASSUME DcdInv, NEW base \in U64, NEW size \in U64, NEW tag \in Tags,
         add_capacity(base, size, tag)
  PROVE  DcdInv'
<1> DEFINE r == AddResult(base, size, tag)
           new == [base |-> r.base, size |-> r.size, tag |-> r.tag]
<1>1. CASE r.status # "OK"
  BY <1>1, Zenon DEF add_capacity, dcdVars, DcdInv, DcdTypeOK, ExtentsDisjoint,
              ExtentsInDevice
<1>2. CASE r.status = "OK"
  <2>1. /\ r.base \in U64 /\ r.size \in U64 /\ r.tag \in U64
        /\ r.base % Granularity = 0
        /\ range_within_device(r.base, r.size)
        /\ ~ range_overlaps_active(r.base, r.size)
    BY <1>2, AddOK, Zenon
  <2>2. extents' = extents \cup {new} /\ next_tag' \in 1 .. MaxTag
    BY <1>2, DcdAssumption DEF add_capacity, DcdInv, DcdTypeOK
  <2> HIDE DEF r
  <2>3. DcdTypeOK'
    BY <2>1, <2>2 DEF DcdInv, DcdTypeOK, Extent
  <2>4. ExtentsInDevice'
    BY <2>1, <2>2, DcdAssumption
       DEF DcdInv, ExtentsInDevice, range_within_device, U64
  <2>5. ASSUME NEW e \in extents
        PROVE  new.base + new.size <= e.base \/ e.base + e.size <= new.base
    <3>1. ~ ranges_overlap(new.base, new.size, e.base, e.size)
      BY <2>1, Zenon DEF range_overlaps_active
    <3>2. /\ e.base \in Nat /\ e.size \in Nat \ {0}
          /\ new.base \in Nat /\ new.size \in Nat \ {0}
      BY <2>1 DEF DcdInv, DcdTypeOK, ExtentsInDevice, Extent, U64,
                  range_within_device
    <3> QED BY <3>1, <3>2, OverlapMeaning, Zenon
  <2>6. ExtentsDisjoint'
    BY <2>2, <2>5, Zenon DEF DcdInv, ExtentsDisjoint
  <2> QED BY <2>3, <2>4, <2>6, Zenon DEF DcdInv
<1> QED BY <1>1, <1>2, Zenon

\* release_capacity only takes an extent away.
LEMMA ReleasePreservesInv ==
  ASSUME DcdInv, NEW base, NEW size, NEW tag, release_capacity(base, size, tag)
  PROVE  DcdInv'
<1>1. extents' \subseteq extents /\ next_tag' = next_tag
  BY Zenon DEF release_capacity
<1> QED BY <1>1, Zenon DEF DcdInv, DcdTypeOK, ExtentsDisjoint, ExtentsInDevice

\* The allocator is safe for every capacity, granularity and integer width:
\* extents keep their type, stay inside the device and never overlap.
THEOREM DcdSafety == DcdSpec => [](DcdTypeOK /\ ExtentsDisjoint /\ ExtentsInDevice)
<1>1. DcdInv /\ [DcdNext]_dcdVars => DcdInv'
  <2> SUFFICES ASSUME DcdInv, [DcdNext]_dcdVars PROVE DcdInv'
    OBVIOUS
  <2>1. CASE UNCHANGED dcdVars
    BY <2>1, Zenon DEF dcdVars, DcdInv, DcdTypeOK, ExtentsDisjoint, ExtentsInDevice
  <2>2. ASSUME NEW base \in U64, NEW size \in U64, NEW tag \in Tags,
               add_capacity(base, size, tag)
        PROVE  DcdInv'
    BY <2>2, AddPreservesInv, Zenon
  <2>3. ASSUME NEW base \in U64, NEW size \in U64, NEW tag \in Tags,
               release_capacity(base, size, tag)
        PROVE  DcdInv'
    BY <2>3, ReleasePreservesInv, Zenon
  <2> QED BY <2>1, <2>2, <2>3, Zenon DEF DcdNext
<1> QED BY InitInv, <1>1, PTL DEF DcdSpec, DcdInv

\* Rounding up to the granularity stays below every granule that is not below
\* the rounded value.
LEMMA AlignUpLeast ==
  ASSUME NEW v \in 0 .. TotalCapacity
  PROVE  /\ align_up(v) \in Nat /\ v <= align_up(v) /\ align_up(v) % Granularity = 0
         /\ \A b \in Nat : b % Granularity = 0 /\ v <= b => align_up(v) <= b
<1> DEFINE g == Granularity
           r == v % g
           q == v \div g
<1>1. /\ g \in Nat /\ g > 0 /\ MaxU64 \in Nat /\ v \in Nat /\ v + g < MaxU64 /\ v \in U64
  BY DcdAssumption DEF U64
<1>2. r \in Nat /\ r < g /\ q \in Nat /\ v = g * q + r
  BY <1>1
<1>3. align_up(v) % g = 0 BY <1>1, AlignUpType, Zenon
<1>4. CASE r = 0
  BY <1>1, <1>2, <1>3, <1>4 DEF align_up
<1>5. CASE r # 0
  <2>1. align_up(v) = v + g - r
    BY <1>1, <1>2, <1>5 DEF align_up
  <2>2. ASSUME NEW b \in Nat, b % g = 0, v <= b PROVE v + g - r <= b
    <3> DEFINE p == b \div g
    <3>1. p \in Nat /\ b = g * p BY <1>1, <2>2
    <3>2. g * q \in Nat /\ g * p \in Nat BY <1>1, <1>2, <3>1
    <3> HIDE DEF p, q
    <3>3. q < p
      <4> SUFFICES ASSUME p <= q PROVE FALSE BY <1>2, <3>1
      <4>1. PICK d \in Nat : q = p + d
        <5>1. q - p \in Nat /\ q = p + (q - p) BY <1>2, <3>1
        <5> QED BY <5>1, Zenon
      <4>2. g * q = g * p + g * d BY <4>1, <1>1, <3>1
      <4>3. g * d \in Nat BY <1>1, <4>1
      <4> HIDE DEF r
      <4> QED BY <1>1, <1>2, <1>5, <2>2, <3>1, <3>2, <4>2, <4>3
    <3>4. PICK d \in Nat : p = q + 1 + d
      <4>1. p - q - 1 \in Nat /\ p = q + 1 + (p - q - 1) BY <1>2, <3>1, <3>3
      <4> QED BY <4>1, Zenon
    <3>5. g * p = g * q + g + g * d BY <1>1, <1>2, <3>4
    <3>6. g * d \in Nat BY <1>1, <3>4
    <3> HIDE DEF r
    <3> QED BY <1>1, <1>2, <2>2, <3>1, <3>2, <3>5, <3>6
  <2> HIDE DEF r, q
  <2> QED BY <1>1, <1>2, <1>3, <2>1, <2>2
<1> QED BY <1>4, <1>5, Zenon

\* A non-empty bounded set of naturals has a greatest element.
LEMMA Greatest ==
  ASSUME NEW K \in Nat, NEW N, N \subseteq 0 .. K, N # {}
  PROVE  \E x \in N : \A y \in N : y <= x
<1> DEFINE M == {K - x : x \in N}
<1>1. M \subseteq Nat /\ M # {}
  <2>1. ASSUME NEW x \in N PROVE K - x \in Nat
    <3>1. x \in 0 .. K OBVIOUS
    <3> QED BY <3>1
  <2>2. PICK x \in N : TRUE BY Zenon
  <2>3. K - x \in M BY Zenon
  <2> QED BY <2>1, <2>3, Zenon
<1>2. PICK m \in M : \A z \in M : m <= z
  <2>1. Min(M) \in M /\ \A z \in M : Min(M) <= z
    <3> HIDE DEF M
    <3> QED BY <1>1, MinIsLeast, Zenon
  <2> QED BY <2>1, Zenon
<1>3. PICK x \in N : m = K - x BY <1>2, Zenon
<1>4. ASSUME NEW y \in N PROVE y <= x
  <2>1. K - y \in M OBVIOUS
  <2>2. K - x <= K - y BY <1>2, <1>3, <2>1, Zenon
  <2>3. x \in 0 .. K /\ y \in 0 .. K OBVIOUS
  <2> QED BY <2>2, <2>3
<1> QED BY <1>4, Zenon

\* What the scan of find_free_base knows of an extent.
LEMMA ExtentFacts ==
  ASSUME DcdInv, NEW e \in extents
  PROVE  /\ e.base \in Nat /\ e.size \in Nat /\ e.size > 0
         /\ e.base + e.size \in 0 .. TotalCapacity
         /\ \A f \in extents : f.base <= e.base => f = e \/ f.base + f.size <= e.base
<1>1. e.base \in Nat /\ e.size \in Nat /\ e.size > 0 /\ e.base + e.size \in 0 .. TotalCapacity
  BY DcdAssumption DEF DcdInv, DcdTypeOK, ExtentsInDevice, Extent, U64
<1>2. ASSUME NEW f \in extents, f.base <= e.base, f # e PROVE f.base + f.size <= e.base
  <2>1. f.base \in Nat /\ f.size \in Nat
    BY DEF DcdInv, DcdTypeOK, Extent, U64
  <2>2. f.base + f.size <= e.base \/ e.base + e.size <= f.base
    BY <1>2, Zenon DEF DcdInv, ExtentsDisjoint
  <2> QED BY <1>1, <1>2, <2>1, <2>2
<1> QED BY <1>1, <1>2, Zenon

\* A base that the scan accepts fits.
LEMMA FreeFits ==
  ASSUME DcdInv, NEW size \in 1 .. TotalCapacity, NEW b \in FreeBases(size)
  PROVE  b \in FittingBases(size)
<1>0. TotalCapacity \in Nat /\ size \in Nat /\ size > 0 /\ Granularity \in Nat /\ Granularity > 0
  BY DcdAssumption
<1>1. PICK q \in ScanPoints :
        /\ b = q.at
        /\ IF q.ahead = {} THEN range_within_device(q.at, size)
           ELSE \A f \in q.ahead : q.at + size <= f.base
  BY Zenon DEF FreeBases
<1>2. /\ b \in Nat /\ b % Granularity = 0
      /\ q.ahead \subseteq extents
      /\ \A f \in extents : f \notin q.ahead => f.base + f.size <= b
  <2>1. CASE q = [at |-> 0, ahead |-> extents]
    <3>1. 0 % Granularity = 0 BY <1>0
    <3> QED BY <1>1, <2>1, <3>1
  <2>2. ASSUME NEW e \in extents,
               q = [at |-> align_up(e.base + e.size), ahead |-> {f \in extents : f.base > e.base}]
        PROVE  /\ b \in Nat /\ b % Granularity = 0
               /\ q.ahead \subseteq extents
               /\ \A f \in extents : f \notin q.ahead => f.base + f.size <= b
    <3>1. /\ e.base \in Nat /\ e.size \in Nat /\ e.base + e.size \in 0 .. TotalCapacity
          /\ \A f \in extents : f.base <= e.base => f = e \/ f.base + f.size <= e.base
      BY ExtentFacts, Zenon
    <3>2. /\ align_up(e.base + e.size) \in Nat /\ e.base + e.size <= align_up(e.base + e.size)
          /\ align_up(e.base + e.size) % Granularity = 0
      BY <3>1, AlignUpLeast, Zenon
    <3>3. ASSUME NEW f \in extents, ~(f.base > e.base) PROVE f.base + f.size <= align_up(e.base + e.size)
      <4>1. f.base \in Nat /\ f.base + f.size \in 0 .. TotalCapacity BY ExtentFacts, Zenon
      <4>2. f.base <= e.base BY <3>1, <3>3, <4>1
      <4>3. f = e \/ f.base + f.size <= e.base BY <3>1, <4>2, Zenon
      <4> QED BY <3>1, <3>2, <4>1, <4>3, <1>0
    <3>4. q.at = align_up(e.base + e.size) /\ q.ahead = {f \in extents : f.base > e.base}
      BY <2>2, Zenon
    <3> QED BY <1>1, <3>2, <3>3, <3>4, Zenon
  <2> QED BY <2>1, <2>2, Zenon DEF ScanPoints
<1>3. \A e \in extents : b + size <= e.base \/ e.base + e.size <= b
  BY <1>1, <1>2, Zenon
<1>4. b + size <= TotalCapacity
  <2>1. CASE q.ahead = {}
    BY <1>0, <1>1, <1>2, <2>1 DEF range_within_device
  <2>2. CASE q.ahead # {}
    <3>1. PICK f \in q.ahead : TRUE BY <2>2, Zenon
    <3>2. b + size <= f.base BY <1>1, <2>2, <3>1, Zenon
    <3>3. f.base \in Nat /\ f.size \in Nat /\ f.base + f.size \in 0 .. TotalCapacity
      BY <1>2, <3>1, ExtentFacts, Zenon
    <3> QED BY <1>0, <1>2, <3>2, <3>3
  <2> QED BY <2>1, <2>2, Zenon
<1>5. b \in 0 .. TotalCapacity - size BY <1>0, <1>2, <1>4
<1> QED BY <1>2, <1>3, <1>5, Zenon DEF FittingBases

\* Where something fits the scan finds a base that is not behind it.
LEMMA FitsFree ==
  ASSUME DcdInv, NEW size \in 1 .. TotalCapacity, NEW b \in FittingBases(size)
  PROVE  \E a \in FreeBases(size) : a <= b
<1>0. TotalCapacity \in Nat /\ size \in Nat /\ size > 0 /\ Granularity \in Nat /\ Granularity > 0
  BY DcdAssumption
<1>1. /\ b \in 0 .. TotalCapacity - size /\ b % Granularity = 0
      /\ \A e \in extents : b + size <= e.base \/ e.base + e.size <= b
  BY Zenon DEF FittingBases
<1> DEFINE Before == {e \in extents : e.base + e.size <= b}
<1>2. ASSUME NEW a \in Nat, NEW ahead, [at |-> a, ahead |-> ahead] \in ScanPoints, a <= b,
             \A f \in ahead : f \in extents /\ f \notin Before
      PROVE  a \in FreeBases(size)
  <2> DEFINE q == [at |-> a, ahead |-> ahead]
  <2>1. ASSUME NEW f \in ahead PROVE a + size <= f.base
    <3>1. b + size <= f.base BY <1>1, <1>2, Zenon
    <3>2. f.base \in Nat BY <1>2, ExtentFacts, Zenon
    <3> QED BY <1>0, <1>1, <1>2, <3>1, <3>2
  <2>2. range_within_device(a, size) BY <1>0, <1>1, <1>2 DEF range_within_device
  <2>3. q.at = a /\ q.ahead = ahead OBVIOUS
  <2>4. IF q.ahead = {} THEN range_within_device(q.at, size) ELSE \A f \in q.ahead : q.at + size <= f.base
    BY <2>1, <2>2, <2>3, Zenon
  <2>5. q \in ScanPoints BY <1>2, Zenon
  <2> HIDE DEF q
  <2> QED BY <2>3, <2>4, <2>5, Zenon DEF FreeBases
<1>3. CASE Before = {}
  <2>1. [at |-> 0, ahead |-> extents] \in ScanPoints BY Zenon DEF ScanPoints
  <2>2. \A f \in extents : f \notin Before BY <1>3, Zenon
  <2>3. 0 \in Nat /\ 0 <= b BY <1>0, <1>1
  <2> QED BY <1>2, <2>1, <2>2, <2>3, Zenon
<1>4. CASE Before # {}
  <2>1. PICK e \in Before : \A f \in Before : f.base <= e.base
    <3> DEFINE Bs == {f.base : f \in Before}
    <3>1. Bs \subseteq 0 .. TotalCapacity /\ Bs # {}
      <4>1. ASSUME NEW f \in Before PROVE f.base \in 0 .. TotalCapacity
        <5>1. f.base \in Nat /\ f.size \in Nat /\ f.base + f.size \in 0 .. TotalCapacity BY ExtentFacts, Zenon
        <5> QED BY <1>0, <5>1
      <4> QED BY <1>4, <4>1, Zenon
    <3>2. PICK x \in Bs : \A y \in Bs : y <= x
      <4> HIDE DEF Bs
      <4> QED BY <1>0, <3>1, Greatest, Zenon
    <3> QED BY <3>2, Zenon
  <2> DEFINE a == align_up(e.base + e.size)
             ahead == {f \in extents : f.base > e.base}
  <2>2. e \in extents /\ e.base + e.size <= b /\ e.base + e.size \in 0 .. TotalCapacity /\ e.base \in Nat
    BY ExtentFacts, Zenon
  <2>3. a \in Nat /\ a <= b
    <3>1. b \in Nat BY <1>0, <1>1
    <3> QED BY <1>1, <2>2, <3>1, AlignUpLeast, Zenon
  <2>4. [at |-> a, ahead |-> ahead] \in ScanPoints BY <2>2, Zenon DEF ScanPoints
  <2>5. ASSUME NEW f \in ahead PROVE f \in extents /\ f \notin Before
    <3>1. f \in extents /\ f.base > e.base OBVIOUS
    <3>2. f.base \in Nat BY <3>1, ExtentFacts, Zenon
    <3>3. ~(f.base <= e.base) BY <2>2, <3>1, <3>2
    <3> QED BY <2>1, <3>1, <3>3, Zenon
  <2> HIDE DEF a, ahead
  <2> QED BY <1>2, <2>3, <2>4, <2>5, Zenon
<1> QED BY <1>3, <1>4, Zenon

\* On every fragmentation that adds and releases can reach, find_free_base
\* returns the lowest granule-aligned base where the extent fits, and gives up
\* only when there is none.
THEOREM DcdFirstFit == DcdSpec => []FirstFit
<1>1. DcdInv => FirstFit
  <2> SUFFICES ASSUME DcdInv, NEW size \in 1 .. TotalCapacity
               PROVE  find_free_base(size) = IF FittingBases(size) = {} THEN MaxU64
                                             ELSE Min(FittingBases(size))
    BY Zenon DEF FirstFit
  <2>1. \A b \in FreeBases(size) : b \in FittingBases(size) BY FreeFits, Zenon
  <2>2. \A b \in FittingBases(size) : \E a \in FreeBases(size) : a <= b BY FitsFree, Zenon
  <2>3. CASE FreeBases(size) = {}
    BY <2>2, <2>3, Zenon DEF find_free_base
  <2>4. CASE FreeBases(size) # {}
    <3> DEFINE m == Min(FreeBases(size))
               n == Min(FittingBases(size))
    <3>1. FittingBases(size) \subseteq Nat
      BY DcdAssumption DEF FittingBases
    <3>2. FreeBases(size) \subseteq Nat BY <2>1, <3>1, Zenon
    <3>3. m \in FreeBases(size) /\ \A a \in FreeBases(size) : m <= a
      BY <2>4, <3>2, MinIsLeast, Zenon
    <3>4. n \in FittingBases(size) /\ n <= m
      BY <2>1, <3>1, <3>3, MinIsLeast, Zenon
    <3>5. PICK a \in FreeBases(size) : a <= n BY <2>2, <3>4, Zenon
    <3>6. m <= a BY <3>3, <3>5, Zenon
    <3>7. m \in Nat /\ n \in Nat /\ a \in Nat BY <3>1, <3>2, <3>3, <3>4, <3>5, Zenon
    <3> HIDE DEF m, n
    <3>8. m = n BY <3>4, <3>5, <3>6, <3>7
    <3>9. FittingBases(size) # {} BY <3>4, Zenon
    <3> QED BY <2>4, <3>8, <3>9, Zenon DEF find_free_base, m, n
  <2> QED BY <2>3, <2>4, Zenon
<1>2. DcdSpec => []DcdInv BY DcdSafety, PTL DEF DcdInv
<1> QED BY <1>1, <1>2, PTL

-----------------------------------------------------------------------------
(***************************************************************************)
(* The fabric manager. An access that is let through was granted and not   *)
(* revoked: the mapping table never holds a mapping that was not granted,  *)
(* so a lookup in it finds only granted ones. A mapping of a whole extent  *)
(* keeps its extent because a release revokes before it takes the extent   *)
(* away; that needs the released size to be the one the extent has.        *)
(***************************************************************************)

MappingsGranted == mappings \subseteq granted

FabricInv ==
  /\ DcdInv /\ FabricTypeOK
  /\ MappingsGranted /\ AccessWasGranted

\* A mapping that was recorded for a live extent still has that extent, or a
\* release of exactly its range is about to revoke it.
ExtentOrRevoke ==
  \A m \in whole :
     \/ \E e \in extents : e.base = m.base /\ e.size = m.size
     \/ \E t \in Threads : /\ fpc[t] = "revoke"
                           /\ req[t].base = m.base /\ req[t].size = m.size

FabricSteps == {"idle", "revoke", "grant_check", "grant", "record_check", "record", "touch"}

\* The four fields of a request or a mapping are what Range4 was given.
LEMMA Range4Fields ==
  ASSUME NEW h, NEW b, NEW s, NEW p
  PROVE  /\ Range4(h, b, s, p).host = h /\ Range4(h, b, s, p).base = b
         /\ Range4(h, b, s, p).size = s /\ Range4(h, b, s, p).perms = p
         /\ h \in HostIds /\ b \in U64 /\ s \in U64 /\ p \in SUBSET Perms
              => Range4(h, b, s, p) \in Mapping
BY Zenon DEF Range4, Mapping

\* An idle connection's empty request is a mapping record.
LEMMA NoReqType == ASSUME NEW t \in Threads PROVE NoReq(t) \in Mapping
<1>1. 0 \in U64
  BY DcdAssumption DEF U64
<1> QED BY <1>1, Range4Fields, Zenon DEF NoReq, HostIds

\* What a successful add returns is a base and a size of 64 bits.
LEMMA AddResultType ==
  ASSUME DcdInv, NEW base \in U64, NEW size \in U64, NEW tag \in Tags,
         AddResult(base, size, tag).status = "OK"
  PROVE  AddResult(base, size, tag).base \in U64 /\ AddResult(base, size, tag).size \in U64
BY AddOK, Zenon

\* Moving thread t to another step and request leaves the other threads'
\* alone.
LEMMA FabricGoEffect ==
  ASSUME FabricTypeOK, NEW t \in Threads, NEW step \in FabricSteps, NEW r \in Mapping,
         FabricGo(t, step, r)
  PROVE  /\ fpc' \in [Threads -> FabricSteps] /\ req' \in [Threads -> Mapping]
         /\ fpc'[t] = step /\ req'[t] = r
         /\ \A u \in Threads : u # t => fpc'[u] = fpc[u] /\ req'[u] = req[u]
BY Zenon DEF FabricTypeOK, FabricGo, FabricSteps

\* The accesses under way stay covered by grants when the table of grants only
\* grows and the one thread that moves either touches no memory next or has
\* just found a grant for its request.
LEMMA AccessStays ==
  ASSUME AccessWasGranted, NEW t \in Threads, granted \subseteq granted',
         \A u \in Threads : u # t => fpc'[u] = fpc[u] /\ req'[u] = req[u],
         fpc'[t] = "touch" =>
           \E m \in granted' : Allows(m, t, req'[t].base, req'[t].size, req'[t].perms)
  PROVE  AccessWasGranted'
<1> SUFFICES ASSUME NEW u \in Threads, fpc'[u] = "touch"
             PROVE  \E m \in granted' : Allows(m, u, req'[u].base, req'[u].size, req'[u].perms)
  BY Zenon DEF AccessWasGranted
<1>1. CASE u = t
  BY <1>1, Zenon
<1>2. CASE u # t
  <2>1. fpc[u] = "touch" /\ req'[u] = req[u]
    BY <1>2, Zenon
  <2>2. PICK m \in granted : Allows(m, u, req[u].base, req[u].size, req[u].perms)
    BY <2>1, Zenon DEF AccessWasGranted
  <2> QED BY <2>1, <2>2, Zenon
<1> QED BY <1>1, <1>2, Zenon

\* enable_gfam: the hosts start with one mapping per extent.
LEMMA FabricInitInv == FabricInit => FabricInv /\ ExtentOrRevoke
<1> SUFFICES ASSUME FabricInit PROVE FabricInv /\ ExtentOrRevoke
  OBVIOUS
<1>1. DcdInv
  BY InitInv, Zenon DEF FabricInit
<1>2. ASSUME NEW m \in mappings
      PROVE  /\ m \in Mapping
             /\ \E e \in extents : e.base = m.base /\ e.size = m.size
  <2>1. PICK h \in Hosts, e \in extents : m = Range4(h, e.base, e.size, Perms)
    BY DEF FabricInit
  <2>2. e.base \in U64 /\ e.size \in U64 /\ h \in HostIds
    BY <1>1, Zenon DEF DcdInv, DcdTypeOK, Extent, HostIds
  <2> QED BY <2>1, <2>2, Range4Fields
<1>3. fpc \in [Threads -> FabricSteps] /\ \A t \in Threads : fpc[t] = "idle"
  BY Zenon DEF FabricInit, FabricSteps
<1>4. req \in [Threads -> Mapping]
  BY NoReqType, Zenon DEF FabricInit
<1>5. FabricTypeOK
  BY <1>1, <1>2, <1>3, <1>4, Zenon DEF FabricInit, FabricTypeOK, FabricSteps, DcdInv
<1>6. MappingsGranted /\ whole = mappings
  BY Zenon DEF FabricInit, MappingsGranted
<1>7. AccessWasGranted
  BY <1>3, Zenon DEF AccessWasGranted
<1> QED BY <1>1, <1>2, <1>5, <1>6, <1>7, Zenon DEF FabricInv, ExtentOrRevoke

\* What a step of thread t does to the tables and to its own place: the
\* devices keep their types, grants are only added, and a thread gets to its
\* memory access only from a mapping that allows it.
FabricStepOf(t) ==
  /\ DcdInv'
  /\ active_hosts' = active_hosts
  /\ mappings' \subseteq Mapping /\ granted' \subseteq Mapping
  /\ granted \subseteq granted' /\ mappings' \subseteq granted'
  /\ whole' \subseteq mappings'
  /\ fpc' \in [Threads -> FabricSteps] /\ req' \in [Threads -> Mapping]
  /\ \A u \in Threads : u # t => fpc'[u] = fpc[u] /\ req'[u] = req[u]
  /\ fpc'[t] = "touch" =>
       \E m \in granted' : Allows(m, t, req'[t].base, req'[t].size, req'[t].perms)

\* Such a step keeps the invariant.
LEMMA FabricStepKeeps ==
  ASSUME FabricInv, NEW t \in Threads, FabricStepOf(t) PROVE FabricInv'
<1>1. AccessWasGranted'
  BY AccessStays, Zenon DEF FabricInv, FabricStepOf
<1>2. FabricTypeOK'
  BY Zenon DEF FabricInv, FabricStepOf, FabricTypeOK, FabricSteps, DcdInv
<1> QED BY <1>1, <1>2, Zenon DEF FabricInv, FabricStepOf, MappingsGranted

\* OP_DCD_ADD keeps it, whether the device accepts the request or not.
LEMMA DcdAddStep ==
  ASSUME FabricInv, NEW t \in Threads, DcdAdd(t) PROVE FabricStepOf(t)
<1>1. PICK base \in Bases, size \in Sizes, tag \in Tags :
        LET result == AddResult(base, size, tag)
        IN  /\ add_capacity(base, size, tag)
            /\ IF result.status = "OK"
               THEN FabricGo(t, "grant_check", Range4(t, result.base, result.size, Perms))
               ELSE UNCHANGED <<fpc, req>>
  BY Zenon DEF DcdAdd
<1>2. base \in U64 /\ size \in U64
  BY FabricAssumption, Zenon DEF U64
<1>3. DcdInv'
  BY <1>1, <1>2, AddPreservesInv, Zenon DEF FabricInv
<1>4. UNCHANGED <<active_hosts, mappings, granted, whole>> /\ fpc[t] = "idle"
  BY Zenon DEF DcdAdd
<1>5. CASE AddResult(base, size, tag).status = "OK"
  <2> DEFINE r == Range4(t, AddResult(base, size, tag).base,
                         AddResult(base, size, tag).size, Perms)
  <2>1. r \in Mapping
    BY <1>2, <1>5, AddResultType, Range4Fields, Zenon DEF FabricInv, HostIds
  <2>2. FabricGo(t, "grant_check", r)
    BY <1>1, <1>5, Zenon
  <2> HIDE DEF r
  <2>3. /\ fpc' \in [Threads -> FabricSteps] /\ req' \in [Threads -> Mapping]
        /\ fpc'[t] = "grant_check"
        /\ \A u \in Threads : u # t => fpc'[u] = fpc[u] /\ req'[u] = req[u]
    BY <2>1, <2>2, FabricGoEffect, Zenon DEF FabricInv, FabricSteps
  <2> QED BY <1>3, <1>4, <2>3, Zenon DEF FabricStepOf, FabricInv, FabricTypeOK, MappingsGranted
<1>6. CASE AddResult(base, size, tag).status # "OK"
  <2>1. UNCHANGED <<fpc, req>>
    BY <1>1, <1>6, Zenon
  <2> QED BY <1>3, <1>4, <2>1, Zenon DEF FabricStepOf, FabricInv, FabricTypeOK, MappingsGranted, FabricSteps
<1> QED BY <1>5, <1>6, Zenon

\* OP_DCD_RELEASE keeps it.
LEMMA DcdReleaseStep ==
  ASSUME FabricInv, NEW t \in Threads, DcdRelease(t) PROVE FabricStepOf(t)
<1>1. PICK base \in Bases, size \in ReleaseSizes, tag \in Tags :
        /\ release_capacity(base, size, tag)
        /\ IF ReleaseStatus(base, size, tag) = "OK"
           THEN FabricGo(t, "revoke", Range4(t, base, size, {}))
           ELSE UNCHANGED <<fpc, req>>
  BY Zenon DEF DcdRelease
<1>2. base \in U64 /\ size \in U64
  BY FabricAssumption, Zenon DEF U64
<1>3. DcdInv'
  BY <1>1, ReleasePreservesInv, Zenon DEF FabricInv
<1>4. UNCHANGED <<active_hosts, mappings, granted, whole>> /\ fpc[t] = "idle"
  BY Zenon DEF DcdRelease
<1>5. CASE ReleaseStatus(base, size, tag) = "OK"
  <2>1. Range4(t, base, size, {}) \in Mapping
    BY <1>2, Range4Fields, Zenon DEF HostIds
  <2>2. FabricGo(t, "revoke", Range4(t, base, size, {}))
    BY <1>1, <1>5, Zenon
  <2>3. /\ fpc' \in [Threads -> FabricSteps] /\ req' \in [Threads -> Mapping]
        /\ fpc'[t] = "revoke"
        /\ \A u \in Threads : u # t => fpc'[u] = fpc[u] /\ req'[u] = req[u]
    BY <2>1, <2>2, FabricGoEffect, Zenon DEF FabricInv, FabricSteps
  <2> QED BY <1>3, <1>4, <2>3, Zenon DEF FabricStepOf, FabricInv, FabricTypeOK, MappingsGranted
<1>6. CASE ReleaseStatus(base, size, tag) # "OK"
  <2>1. UNCHANGED <<fpc, req>>
    BY <1>1, <1>6, Zenon
  <2> QED BY <1>3, <1>4, <2>1, Zenon DEF FabricStepOf, FabricInv, FabricTypeOK, MappingsGranted, FabricSteps
<1> QED BY <1>5, <1>6, Zenon

\* An answered request leaves its thread idle with the empty request.
LEMMA RespondEffect ==
  ASSUME FabricTypeOK, NEW t \in Threads, Respond(t)
  PROVE  /\ fpc' \in [Threads -> FabricSteps] /\ req' \in [Threads -> Mapping]
         /\ fpc'[t] = "idle"
         /\ \A u \in Threads : u # t => fpc'[u] = fpc[u] /\ req'[u] = req[u]
<1>1. FabricGo(t, "idle", NoReq(t)) /\ NoReq(t) \in Mapping /\ "idle" \in FabricSteps
  BY NoReqType, Zenon DEF Respond, FabricSteps
<1> QED BY <1>1, FabricGoEffect, Zenon

\* The DCD is safe across a step that leaves it alone.
LEMMA DcdInvStays == ASSUME DcdInv, UNCHANGED <<extents, next_tag>> PROVE DcdInv'
BY Zenon DEF DcdInv, DcdTypeOK, ExtentsDisjoint, ExtentsInDevice

\* revoke_extent, OP_GFAM_UNMAP and grant_access change the GFAM table only.
LEMMA TableSteps ==
  ASSUME FabricInv, NEW t \in Threads,
         revoke_extent(t) \/ grant_access(t) \/ revoke_access(t)
  PROVE  FabricStepOf(t)
<1>1. UNCHANGED <<extents, next_tag>> /\ active_hosts' = active_hosts
  BY Zenon DEF revoke_extent, grant_access, revoke_access
<1>2. DcdInv'
  BY <1>1, DcdInvStays, Zenon DEF FabricInv
<1>3. /\ fpc \in [Threads -> FabricSteps] /\ req \in [Threads -> Mapping]
      /\ mappings \subseteq Mapping /\ granted \subseteq Mapping
      /\ mappings \subseteq granted /\ whole \subseteq mappings /\ FabricTypeOK
  BY Zenon DEF FabricInv, FabricTypeOK, FabricSteps, MappingsGranted
<1>4. CASE revoke_extent(t)
  <2>1. /\ mappings' \subseteq mappings /\ granted' = granted
        /\ whole' \subseteq mappings' /\ Respond(t)
    BY <1>4, Zenon DEF revoke_extent
  <2> QED BY <1>1, <1>2, <1>3, <2>1, RespondEffect, Zenon DEF FabricStepOf
<1>5. CASE revoke_access(t)
  <2>1. /\ mappings' \subseteq mappings /\ granted' = granted
        /\ whole' \subseteq mappings' /\ fpc' = fpc /\ req' = req /\ fpc[t] = "idle"
    BY <1>5, Zenon DEF revoke_access
  <2> QED BY <1>1, <1>2, <1>3, <2>1, Zenon DEF FabricStepOf
<1>6. CASE grant_access(t)
  <2>1. Respond(t)
    BY <1>6, Zenon DEF grant_access
  <2>2. CASE req[t].host \in active_hosts
    <3> DEFINE r == req[t]
               others == {m \in mappings : ~ (/\ m.host = r.host
                                              /\ m.base = r.base
                                              /\ m.size = r.size)}
    <3>1. /\ mappings' = others \cup {r} /\ granted' = granted \cup {r}
          /\ whole' = (whole \cap others) \cup
               {m \in {r} : \E e \in extents : e.base = m.base /\ e.size = m.size}
      BY <1>6, <2>2, Zenon DEF grant_access
    <3>2. r \in Mapping /\ others \subseteq mappings
      BY <1>3, Zenon
    <3> HIDE DEF r, others
    <3>3. /\ mappings' \subseteq Mapping /\ granted' \subseteq Mapping
          /\ granted \subseteq granted' /\ mappings' \subseteq granted'
          /\ whole' \subseteq mappings'
      BY <1>3, <3>1, <3>2, Zenon
    <3> QED BY <1>1, <1>2, <1>3, <2>1, <3>3, RespondEffect, Zenon DEF FabricStepOf
  <2>3. CASE req[t].host \notin active_hosts
    <3>1. UNCHANGED <<mappings, granted, whole>>
      BY <1>6, <2>3, Zenon DEF grant_access
    <3> QED BY <1>1, <1>2, <1>3, <2>1, <3>1, RespondEffect, Zenon DEF FabricStepOf
  <2> QED BY <2>2, <2>3, Zenon
<1> QED BY <1>4, <1>5, <1>6, Zenon

\* Every permission a request asks for is one GFAM knows.
LEMMA RequiredPerms ==
  ASSUME NEW kind \in {"read", "write", "atomic"}
  PROVE  required_permissions(kind) \in SUBSET Perms
BY Zenon DEF required_permissions, Perms

\* The steps that only move a thread on: the checks under the DCD lock,
\* record_access under the GFAM lock, and the memory access itself.
LEMMA CheckSteps ==
  ASSUME FabricInv, NEW t \in Threads,
         \/ GfamMap(t) \/ GrantCheck(t) \/ AccessStart(t)
         \/ RecordCheck(t) \/ record_access(t) \/ Touch(t)
  PROVE  FabricStepOf(t)
<1>1. UNCHANGED <<extents, next_tag, active_hosts, mappings, granted, whole>>
  BY Zenon DEF GfamMap, GrantCheck, AccessStart, RecordCheck, record_access, Touch
<1>2. DcdInv'
  BY <1>1, DcdInvStays, Zenon DEF FabricInv
<1>3. /\ req \in [Threads -> Mapping]
      /\ mappings \subseteq Mapping /\ granted \subseteq Mapping
      /\ mappings \subseteq granted /\ whole \subseteq mappings /\ FabricTypeOK
  BY Zenon DEF FabricInv, FabricTypeOK, MappingsGranted
<1>4. ASSUME Respond(t) PROVE FabricStepOf(t)
  BY <1>1, <1>2, <1>3, <1>4, RespondEffect, Zenon DEF FabricStepOf
<1>5. ASSUME NEW step \in FabricSteps \ {"touch"}, NEW r \in Mapping, FabricGo(t, step, r)
      PROVE  FabricStepOf(t)
  <2>1. /\ fpc' \in [Threads -> FabricSteps] /\ req' \in [Threads -> Mapping]
        /\ fpc'[t] = step
        /\ \A u \in Threads : u # t => fpc'[u] = fpc[u] /\ req'[u] = req[u]
    BY <1>3, <1>5, FabricGoEffect, Zenon
  <2> QED BY <1>1, <1>2, <1>3, <2>1, Zenon DEF FabricStepOf
<1>6. CASE GfamMap(t)
  <2>1. PICK host \in HostIds, base \in Bases, size \in Sizes, p \in PermChoices :
          FabricGo(t, "grant_check", Range4(host, base, size, p))
    BY <1>6, Zenon DEF GfamMap
  <2>2. base \in U64 /\ size \in U64 /\ p \in SUBSET Perms
    BY FabricAssumption, Zenon DEF U64, PermChoices, Perms
  <2>3. Range4(host, base, size, p) \in Mapping /\ "grant_check" \in FabricSteps \ {"touch"}
    BY <2>2, Range4Fields, Zenon DEF FabricSteps
  <2> QED BY <1>5, <2>1, <2>3, Zenon
<1>7. CASE GrantCheck(t)
  <2>1. FabricGo(t, "grant", req[t]) \/ Respond(t)
    BY <1>7, Zenon DEF GrantCheck
  <2>2. req[t] \in Mapping /\ "grant" \in FabricSteps \ {"touch"}
    BY <1>3, Zenon DEF FabricSteps
  <2> QED BY <1>4, <1>5, <2>1, <2>2, Zenon
<1>8. CASE AccessStart(t)
  <2>1. PICK base \in Bases, size \in Sizes, kind \in {"read", "write", "atomic"} :
          FabricGo(t, "record_check", Range4(t, base, size, required_permissions(kind)))
    BY <1>8, Zenon DEF AccessStart
  <2>2. base \in U64 /\ size \in U64 /\ t \in HostIds
    BY FabricAssumption, Zenon DEF U64, HostIds
  <2>3. /\ Range4(t, base, size, required_permissions(kind)) \in Mapping
        /\ "record_check" \in FabricSteps \ {"touch"}
    BY <2>2, Range4Fields, RequiredPerms, Zenon DEF FabricSteps
  <2> QED BY <1>5, <2>1, <2>3, Zenon
<1>9. CASE RecordCheck(t)
  <2>1. FabricGo(t, "record", req[t]) \/ Respond(t)
    BY <1>9, Zenon DEF RecordCheck
  <2>2. req[t] \in Mapping /\ "record" \in FabricSteps \ {"touch"}
    BY <1>3, Zenon DEF FabricSteps
  <2> QED BY <1>4, <1>5, <2>1, <2>2, Zenon
<1>10. CASE record_access(t)
  <2>1. CASE /\ t \in active_hosts
             /\ \E m \in mappings : Allows(m, t, req[t].base, req[t].size, req[t].perms)
    <3>1. FabricGo(t, "touch", req[t])
      BY <1>10, <2>1, Zenon DEF record_access
    <3>2. req[t] \in Mapping /\ "touch" \in FabricSteps
      BY <1>3, Zenon DEF FabricSteps
    <3>3. /\ fpc' \in [Threads -> FabricSteps] /\ req' \in [Threads -> Mapping]
          /\ fpc'[t] = "touch" /\ req'[t] = req[t]
          /\ \A u \in Threads : u # t => fpc'[u] = fpc[u] /\ req'[u] = req[u]
      BY <1>3, <3>1, <3>2, FabricGoEffect, Zenon
    <3>4. \E m \in granted' : Allows(m, t, req'[t].base, req'[t].size, req'[t].perms)
      BY <1>1, <1>3, <2>1, <3>3, Zenon
    <3> QED BY <1>1, <1>2, <1>3, <3>3, <3>4, Zenon DEF FabricStepOf
  <2>2. CASE ~ (/\ t \in active_hosts
                /\ \E m \in mappings : Allows(m, t, req[t].base, req[t].size, req[t].perms))
    <3>1. Respond(t)
      BY <1>10, <2>2, Zenon DEF record_access
    <3> QED BY <1>4, <3>1, Zenon
  <2> QED BY <2>1, <2>2, Zenon
<1>11. CASE Touch(t)
  BY <1>4, <1>11, Zenon DEF Touch
<1> QED BY <1>6, <1>7, <1>8, <1>9, <1>10, <1>11, Zenon

\* The invariant is inductive.
LEMMA FabricInductive == FabricInv /\ [FabricNext]_fabricVars => FabricInv'
<1> SUFFICES ASSUME FabricInv, [FabricNext]_fabricVars PROVE FabricInv'
  OBVIOUS
<1>1. CASE UNCHANGED fabricVars
  <2>1. DcdInv'
    BY <1>1, DcdInvStays, Zenon DEF fabricVars, FabricInv
  <2>2. AccessWasGranted'
    BY <1>1, Zenon DEF fabricVars, FabricInv, AccessWasGranted
  <2> QED BY <1>1, <2>1, <2>2, Zenon DEF fabricVars, FabricInv, FabricTypeOK, MappingsGranted, DcdTypeOK
<1>2. ASSUME NEW t \in Threads, DcdAdd(t) PROVE FabricInv'
  BY <1>2, DcdAddStep, FabricStepKeeps, Zenon
<1>3. ASSUME NEW t \in Threads, DcdRelease(t) PROVE FabricInv'
  BY <1>3, DcdReleaseStep, FabricStepKeeps, Zenon
<1>4. ASSUME NEW t \in Threads, revoke_extent(t) \/ grant_access(t) \/ revoke_access(t)
      PROVE  FabricInv'
  BY <1>4, TableSteps, FabricStepKeeps, Zenon
<1>5. ASSUME NEW t \in Threads,
             \/ GfamMap(t) \/ GrantCheck(t) \/ AccessStart(t)
             \/ RecordCheck(t) \/ record_access(t) \/ Touch(t)
      PROVE  FabricInv'
  BY <1>5, CheckSteps, FabricStepKeeps, Zenon
<1> QED BY <1>1, <1>2, <1>3, <1>4, <1>5, Zenon DEF FabricNext

\* OP_DCD_RELEASE requests name the size the extent was rounded to when it was
\* added, as the response to the add reported it.
ReleasesRounded == \A size \in ReleaseSizes : aligned_size(size) = size

\* A mapping keeps its extent or its pending revocation across every step that
\* records no mapping, keeps the extents and ends no release.
LEMMA WholeStays ==
  ASSUME ExtentOrRevoke, NEW t \in Threads, fpc[t] # "revoke",
         extents \subseteq extents', whole' \subseteq whole,
         \A u \in Threads : u # t => fpc'[u] = fpc[u] /\ req'[u] = req[u]
  PROVE  ExtentOrRevoke'
<1> SUFFICES ASSUME NEW m \in whole'
             PROVE  \/ \E e \in extents' : e.base = m.base /\ e.size = m.size
                    \/ \E u \in Threads : /\ fpc'[u] = "revoke"
                                          /\ req'[u].base = m.base /\ req'[u].size = m.size
  BY Zenon DEF ExtentOrRevoke
<1>1. CASE \E e \in extents : e.base = m.base /\ e.size = m.size
  BY <1>1, Zenon
<1>2. CASE \E u \in Threads : /\ fpc[u] = "revoke"
                              /\ req[u].base = m.base /\ req[u].size = m.size
  BY <1>2, Zenon
<1> QED BY <1>1, <1>2, Zenon DEF ExtentOrRevoke

\* A release takes the extent away and leaves its thread about to revoke
\* exactly that range: the request's size is the extent's.
LEMMA ReleaseWhole ==
  ASSUME ReleasesRounded, FabricInv, ExtentOrRevoke, NEW t \in Threads, DcdRelease(t)
  PROVE  ExtentOrRevoke'
<1>1. PICK base \in Bases, size \in ReleaseSizes, tag \in Tags :
        /\ release_capacity(base, size, tag)
        /\ IF ReleaseStatus(base, size, tag) = "OK"
           THEN FabricGo(t, "revoke", Range4(t, base, size, {}))
           ELSE UNCHANGED <<fpc, req>>
  BY Zenon DEF DcdRelease
<1>2. whole' = whole /\ fpc[t] = "idle"
  BY Zenon DEF DcdRelease
<1>3. CASE ReleaseStatus(base, size, tag) # "OK"
  <2>1. UNCHANGED <<fpc, req, extents>>
    BY <1>1, <1>3, Zenon DEF release_capacity
  <2> QED BY <1>2, <2>1, Zenon DEF ExtentOrRevoke
<1>4. CASE ReleaseStatus(base, size, tag) = "OK"
  <2> DEFINE r == Range4(t, base, size, {})
  <2>1. r \in Mapping /\ r.base = base /\ r.size = size
    BY Range4Fields, FabricAssumption DEF U64, HostIds
  <2>2. FabricGo(t, "revoke", r)
    BY <1>1, <1>4, Zenon
  <2> HIDE DEF r
  <2>3. /\ fpc'[t] = "revoke" /\ req'[t].base = base /\ req'[t].size = size
        /\ \A u \in Threads : u # t => fpc'[u] = fpc[u] /\ req'[u] = req[u]
    BY <2>1, <2>2, FabricGoEffect, Zenon DEF FabricInv, FabricSteps
  <2>4. extents' = extents \ Releasable(base, size, tag)
    BY <1>1, <1>4, Zenon DEF release_capacity
  <2>5. \A e \in Releasable(base, size, tag) : e.base = base /\ e.size = size
    BY Zenon DEF Releasable, ReleasesRounded
  <2> SUFFICES ASSUME NEW m \in whole
               PROVE  \/ \E e \in extents' : e.base = m.base /\ e.size = m.size
                      \/ \E u \in Threads : /\ fpc'[u] = "revoke"
                                            /\ req'[u].base = m.base /\ req'[u].size = m.size
    BY <1>2, Zenon DEF ExtentOrRevoke
  <2>6. CASE \E e \in extents : e.base = m.base /\ e.size = m.size
    <3>1. PICK e \in extents : e.base = m.base /\ e.size = m.size
      BY <2>6, Zenon
    <3> QED BY <2>3, <2>4, <2>5, <3>1, Zenon
  <2>7. CASE \E u \in Threads : /\ fpc[u] = "revoke"
                                /\ req[u].base = m.base /\ req[u].size = m.size
    BY <1>2, <2>3, <2>7, Zenon
  <2> QED BY <2>6, <2>7, Zenon DEF ExtentOrRevoke
<1> QED BY <1>3, <1>4, Zenon

\* revoke_extent ends a release: the mappings of its range are gone with it.
LEMMA RevokeWhole ==
  ASSUME FabricInv, ExtentOrRevoke, NEW t \in Threads, revoke_extent(t)
  PROVE  ExtentOrRevoke'
<1>1. /\ mappings' = {m \in mappings : ~ (m.base = req[t].base /\ m.size = req[t].size)}
      /\ whole' = whole \cap mappings' /\ extents' = extents /\ Respond(t)
  BY Zenon DEF revoke_extent
<1>2. \A u \in Threads : u # t => fpc'[u] = fpc[u] /\ req'[u] = req[u]
  BY <1>1, RespondEffect, Zenon DEF FabricInv
<1> SUFFICES ASSUME NEW m \in whole'
             PROVE  \/ \E e \in extents' : e.base = m.base /\ e.size = m.size
                    \/ \E u \in Threads : /\ fpc'[u] = "revoke"
                                          /\ req'[u].base = m.base /\ req'[u].size = m.size
  BY Zenon DEF ExtentOrRevoke
<1>3. m \in whole /\ ~ (m.base = req[t].base /\ m.size = req[t].size)
  BY <1>1, Zenon
<1>4. CASE \E e \in extents : e.base = m.base /\ e.size = m.size
  BY <1>1, <1>4, Zenon
<1>5. CASE \E u \in Threads : /\ fpc[u] = "revoke"
                              /\ req[u].base = m.base /\ req[u].size = m.size
  BY <1>2, <1>3, <1>5, Zenon
<1> QED BY <1>3, <1>4, <1>5, Zenon DEF ExtentOrRevoke

\* grant_access adds a mapping to the whole ones only next to a live extent of
\* its range.
LEMMA GrantWhole ==
  ASSUME FabricInv, ExtentOrRevoke, NEW t \in Threads, grant_access(t)
  PROVE  ExtentOrRevoke'
<1>1. extents' = extents /\ fpc[t] = "grant" /\ Respond(t)
  BY Zenon DEF grant_access
<1>2. \A u \in Threads : u # t => fpc'[u] = fpc[u] /\ req'[u] = req[u]
  BY <1>1, RespondEffect, Zenon DEF FabricInv
<1>3. \A m \in whole' : m \in whole \/ \E e \in extents : e.base = m.base /\ e.size = m.size
  <2>1. CASE req[t].host \in active_hosts
    BY <2>1, Zenon DEF grant_access
  <2>2. CASE req[t].host \notin active_hosts
    BY <2>2, Zenon DEF grant_access
  <2> QED BY <2>1, <2>2, Zenon
<1> SUFFICES ASSUME NEW m \in whole'
             PROVE  \/ \E e \in extents' : e.base = m.base /\ e.size = m.size
                    \/ \E u \in Threads : /\ fpc'[u] = "revoke"
                                          /\ req'[u].base = m.base /\ req'[u].size = m.size
  BY Zenon DEF ExtentOrRevoke
<1>4. CASE \E e \in extents : e.base = m.base /\ e.size = m.size
  BY <1>1, <1>4, Zenon
<1>5. CASE m \in whole /\ \E u \in Threads : /\ fpc[u] = "revoke"
                              /\ req[u].base = m.base /\ req[u].size = m.size
  BY <1>1, <1>2, <1>5, Zenon
<1> QED BY <1>3, <1>4, <1>5, Zenon DEF ExtentOrRevoke

\* No step separates a mapping from its extent without a revocation pending.
LEMMA WholeInductive ==
  ReleasesRounded /\ FabricInv /\ ExtentOrRevoke /\ [FabricNext]_fabricVars => ExtentOrRevoke'
<1> SUFFICES ASSUME ReleasesRounded, FabricInv, ExtentOrRevoke, [FabricNext]_fabricVars
             PROVE  ExtentOrRevoke'
  OBVIOUS
<1>1. CASE UNCHANGED fabricVars
  BY <1>1, Zenon DEF fabricVars, ExtentOrRevoke
<1>2. ASSUME NEW t \in Threads, DcdRelease(t) PROVE ExtentOrRevoke'
  BY <1>2, ReleaseWhole, Zenon
<1>3. ASSUME NEW t \in Threads, revoke_extent(t) PROVE ExtentOrRevoke'
  BY <1>3, RevokeWhole, Zenon
<1>4. ASSUME NEW t \in Threads, grant_access(t) PROVE ExtentOrRevoke'
  BY <1>4, GrantWhole, Zenon
<1>5. ASSUME NEW t \in Threads, DcdAdd(t) PROVE ExtentOrRevoke'
  <2>1. fpc[t] # "revoke" /\ whole' = whole /\ extents \subseteq extents'
    BY <1>5, Zenon DEF DcdAdd, add_capacity, dcdVars
  <2>2. FabricStepOf(t)
    BY <1>5, DcdAddStep, Zenon
  <2> QED BY <2>1, <2>2, WholeStays, Zenon DEF FabricStepOf
<1>6. ASSUME NEW t \in Threads, revoke_access(t) PROVE ExtentOrRevoke'
  <2>1. fpc[t] # "revoke" /\ whole' \subseteq whole /\ extents' = extents
    BY <1>6, Zenon DEF revoke_access
  <2>2. FabricStepOf(t)
    BY <1>6, TableSteps, Zenon
  <2> QED BY <2>1, <2>2, WholeStays, Zenon DEF FabricStepOf
<1>7. ASSUME NEW t \in Threads,
             \/ GfamMap(t) \/ GrantCheck(t) \/ AccessStart(t)
             \/ RecordCheck(t) \/ record_access(t) \/ Touch(t)
      PROVE  ExtentOrRevoke'
  <2>1. fpc[t] # "revoke" /\ whole' = whole /\ extents' = extents
    BY <1>7, Zenon DEF GfamMap, GrantCheck, AccessStart, RecordCheck, record_access, Touch
  <2>2. FabricStepOf(t)
    BY <1>7, CheckSteps, Zenon
  <2> QED BY <2>1, <2>2, WholeStays, Zenon DEF FabricStepOf
<1> QED BY <1>1, <1>2, <1>3, <1>4, <1>5, <1>6, <1>7, Zenon DEF FabricNext

\* With nothing being released, the extent of a whole mapping answers
\* is_allocated for its whole range.
LEMMA WholeIsAllocated == FabricInv /\ ExtentOrRevoke => WholeMappingsBacked
<1> SUFFICES ASSUME FabricInv, ExtentOrRevoke, \A t \in Threads : fpc[t] # "revoke",
                    NEW m \in whole
             PROVE  is_allocated(m.base, m.size)
  BY Zenon DEF WholeMappingsBacked
<1>1. PICK e \in extents : e.base = m.base /\ e.size = m.size
  BY Zenon DEF ExtentOrRevoke
<1>2. /\ e.base \in Nat /\ e.size \in Nat /\ e.size > 0
      /\ e.base + e.size <= TotalCapacity
  BY DEF FabricInv, DcdInv, DcdTypeOK, ExtentsInDevice, Extent, U64
<1> QED BY <1>1, <1>2, DcdAssumption DEF is_allocated, range_contains

\* The tables and requests of the fabric keep their types, for any hosts,
\* connections, ranges and capacity.
THEOREM FabricTyped == FabricSpec => []FabricTypeOK
BY FabricInitInv, FabricInductive, PTL DEF FabricSpec, FabricInv

\* check_fabric_access lets a connection at memory only inside a range that was
\* granted to it with the permissions the access needs, in every interleaving
\* of any number of connections.
THEOREM FabricAccess == FabricSpec => []AccessWasGranted
BY FabricInitInv, FabricInductive, PTL DEF FabricSpec, FabricInv

\* dcd_release_capacity takes the mappings of an extent away with it, whoever
\* else adds, maps or releases meanwhile, provided requests release the size
\* that was reported: revoke_extent compares with the size of the request,
\* release_capacity with that size rounded up.
THEOREM FabricWhole == ReleasesRounded => (FabricSpec => []WholeMappingsBacked)
<1> SUFFICES ASSUME ReleasesRounded PROVE FabricSpec => []WholeMappingsBacked
  OBVIOUS
<1>1. FabricInit => FabricInv /\ ExtentOrRevoke
  BY FabricInitInv, Zenon
<1>2. FabricInv /\ ExtentOrRevoke /\ [FabricNext]_fabricVars => (FabricInv /\ ExtentOrRevoke)'
  BY FabricInductive, WholeInductive, Zenon
<1> QED BY <1>1, <1>2, WholeIsAllocated, PTL DEF FabricSpec

-----------------------------------------------------------------------------
(***************************************************************************)
(* The directory. Its safety and the refinement of Swmr.                   *)
(* DirectoryMatchesViews with the type invariant is inductive on its own;  *)
(* the other properties are proved beside it.                              *)
(***************************************************************************)

IInv == CohTypeOK /\ DirectoryMatchesViews /\ HoldersAreFresh /\ DirtyHasOwner

\* CohInit: the entry DirectoryEntry() makes satisfies the invariant.
LEMMA InitIInv == CohInit => IInv
  BY CohAssumption, Zenon DEF CohInit, IInv, CohTypeOK, DirectoryMatchesViews,
     HoldersAreFresh, DirtyHasOwner, States

\* process_read keeps the invariant, whichever case of its switch is taken.
LEMMA ReadIInv ==
  ASSUME NEW n \in Nodes, IInv, process_read(n)
  PROVE  IInv'
  <1> USE CohAssumption
  <1>1. CASE ReadHitStep(n)
    BY <1>1, Zenon DEF IInv, CohTypeOK, DirectoryMatchesViews, HoldersAreFresh,
       DirtyHasOwner, States, ReadHitStep, ReadHit
  <1>2. CASE ReadInvalid(n)
    BY <1>2, Zenon DEF IInv, CohTypeOK, DirectoryMatchesViews, HoldersAreFresh,
       DirtyHasOwner, States, ReadInvalid, ReadHit, Receive
  <1>3. CASE ReadShared(n)
    BY <1>3, Zenon DEF IInv, CohTypeOK, DirectoryMatchesViews, HoldersAreFresh,
       DirtyHasOwner, States, ReadShared, ReadHit, Receive
  <1>4. CASE ReadModified(n)
    BY <1>4, Zenon DEF IInv, CohTypeOK, DirectoryMatchesViews, HoldersAreFresh,
       DirtyHasOwner, States, ReadModified, ReadHit, Receive
  <1>5. CASE ReadOwned(n)
    BY <1>5, Zenon DEF IInv, CohTypeOK, DirectoryMatchesViews, HoldersAreFresh,
       DirtyHasOwner, States, ReadOwned, ReadHit, Receive
  <1> QED
    BY <1>1, <1>2, <1>3, <1>4, <1>5, Zenon DEF process_read

\* Every node that holds the line is told by a write of another node.
LEMMA WriteTakesAll ==
  ASSUME NEW n \in Nodes, IInv, process_write(n)
  PROVE  view' = [m \in Nodes |-> IF m = n THEN "MODIFIED" ELSE "INVALID"]
  <1>1. \A m \in Nodes : m # n /\ m \notin Invalidated(n) => view[m] = "INVALID"
    BY CohAssumption, Zenon DEF IInv, CohTypeOK, DirectoryMatchesViews, Invalidated, States
  <1> QED
    BY <1>1, Zenon DEF process_write

\* process_write keeps the invariant.
LEMMA WriteIInv ==
  ASSUME NEW n \in Nodes, IInv, process_write(n)
  PROVE  IInv'
  <1>1. sharer_nodes' = {}
    BY Zenon DEF IInv, DirectoryMatchesViews, process_write, WriteOwnHit
  <1> QED
    BY <1>1, WriteTakesAll, CohAssumption, Zenon DEF IInv, CohTypeOK,
       DirectoryMatchesViews, HoldersAreFresh, DirtyHasOwner, States, process_write

\* Every access of every node in any order: the directory agrees with what
\* the nodes were told, nobody holds old data and dirty data has an owner.
THEOREM CohSafety == CohSpec => [](CohTypeOK /\ DirectoryMatchesViews /\ HoldersAreFresh /\ DirtyHasOwner)
  <1>1. IInv /\ [CohNext]_cohVars => IInv'
    <2> SUFFICES ASSUME IInv, [CohNext]_cohVars PROVE IInv'
      OBVIOUS
    <2>1. CASE CohNext
      BY <2>1, ReadIInv, WriteIInv, Zenon DEF CohNext, process_atomic
    <2>2. CASE UNCHANGED cohVars
      BY <2>2, Zenon DEF cohVars, IInv, CohTypeOK, DirectoryMatchesViews,
         HoldersAreFresh, DirtyHasOwner
    <2> QED
      BY <2>1, <2>2, Zenon
  <1> QED
    BY InitIInv, <1>1, PTL DEF CohSpec, IInv
-----------------------------------------------------------------------------
\* A read is a Load of Swmr: only the reader is added to the holders, and a
\* writer other than the reader loses the right to write.
LEMMA ReadIsLoad ==
  ASSUME NEW n \in Nodes, IInv, process_read(n)
  PROVE  S!Load(n)
  <1>1. view' \in [Nodes -> States]
    BY ReadIInv, Zenon DEF IInv, CohTypeOK
  <1>2. view'[n] # "INVALID"
    BY Zenon DEF IInv, CohTypeOK, process_read, ReadHitStep, ReadInvalid, ReadShared,
       ReadModified, ReadOwned, ReadHit
  <1>3. \A m \in Nodes \ {n} : view'[m] = "INVALID" <=> view[m] = "INVALID"
    BY CohAssumption, Zenon DEF IInv, CohTypeOK, DirectoryMatchesViews, process_read,
       ReadHitStep, ReadInvalid, ReadShared, ReadModified, ReadOwned, ReadHit
  <1>4. Holders' = Holders \cup {n}
    BY <1>2, <1>3, Zenon DEF Holders
  <1>5. Writer' = IF Writer = n THEN n ELSE NoNode
    BY CohAssumption, Zenon DEF Writer, IInv, CohTypeOK, DirectoryMatchesViews, process_read,
       ReadHitStep, ReadInvalid, ReadShared, ReadModified, ReadOwned, ReadHit
  <1> QED
    BY <1>4, <1>5, Zenon DEF S!Load

\* A write is a Store of Swmr: the writer is left as the only holder.
LEMMA WriteIsStore ==
  ASSUME NEW n \in Nodes, IInv, process_write(n)
  PROVE  S!Store(n)
  <1>1. Holders' = {n}
    BY WriteTakesAll, Zenon DEF Holders
  <1>2. Writer' = n
    BY Zenon DEF Writer, process_write
  <1> QED
    BY <1>1, <1>2, Zenon DEF S!Store

\* The directory implements the single-writer promise for any set of nodes.
THEOREM CohRefinesSwmr == CohSpec => SwmrSpec
  <1>1. CohInit => S!Init
    BY Zenon DEF CohInit, S!Init, Holders, Writer
  <1>2. IInv /\ [CohNext]_cohVars => [S!Next]_S!swmrVars
    <2> SUFFICES ASSUME IInv, [CohNext]_cohVars PROVE [S!Next]_S!swmrVars
      OBVIOUS
    <2>1. CASE CohNext
      BY <2>1, ReadIsLoad, WriteIsStore, Zenon DEF CohNext, process_atomic, S!Next
    <2>2. CASE UNCHANGED cohVars
      BY <2>2, Zenon DEF cohVars, S!swmrVars, Holders, Writer
    <2> QED
      BY <2>1, <2>2, Zenon
  <1>3. CohSpec => []IInv
    BY CohSafety, PTL DEF IInv
  <1> QED
    BY <1>1, <1>2, <1>3, PTL DEF CohSpec, SwmrSpec, S!Spec

-----------------------------------------------------------------------------
(***************************************************************************)
(* The decoder. Interleaving is injective at every granularity and number  *)
(* of targets, and ranges that are added never move an address that is     *)
(* mapped. The binary search over the sorted ranges finds what the scan    *)
(* finds: what it has left out can hold no answer.                         *)
(***************************************************************************)

HdmInv ==
  /\ hdm_mode \in {"INTERLEAVED", "RANGE_BASED", "HYBRID"}
  /\ ranges \in Seq([base : Nat, size : Nat, node : Nat, remote : BOOLEAN])
  /\ interleave.granularity \in Nat \ {0} /\ interleave.base \in Nat
  /\ interleave.targets \in Seq(Nat)
  /\ \A i, j \in DOMAIN interleave.targets :
       interleave.targets[i] = interleave.targets[j] => i = j

\* Division with remainder by g determines a natural number.
LEMMA DivMod ==
  ASSUME NEW g \in Nat \ {0}, NEW x \in Nat
  PROVE  /\ x \div g \in Nat /\ x % g \in Nat /\ x % g < g
         /\ x = g * (x \div g) + (x % g)
OBVIOUS

\* A block and a place inside it are determined by the offset they make up.
LEMMA OffsetUnique ==
  ASSUME NEW g \in Nat \ {0}, NEW p \in Nat, NEW q \in Nat, NEW r \in Nat, NEW s \in Nat,
         r < g, s < g, p * g + r = q * g + s
  PROVE  p = q /\ r = s
<1>1. ASSUME NEW a \in Nat, NEW b \in Nat, a < b PROVE a * g + g <= b * g
  <2>1. PICK d \in Nat : b = a + 1 + d
    <3>1. b - a - 1 \in Nat /\ b = a + 1 + (b - a - 1) BY <1>1
    <3> QED BY <3>1, Zenon
  <2>2. b * g = a * g + g + d * g BY <2>1
  <2>3. d * g >= 0 OBVIOUS
  <2>4. a * g \in Nat /\ d * g \in Nat /\ b * g \in Nat OBVIOUS
  <2> QED BY <2>2, <2>3, <2>4
<1>2. p * g \in Nat /\ q * g \in Nat OBVIOUS
<1>3. ~(p < q) BY <1>1, <1>2
<1>4. ~(q < p) BY <1>1, <1>2
<1>5. p = q BY <1>3, <1>4
<1> QED BY <1>2, <1>5

\* decode_interleaved gives two addresses of the region the same place in the
\* same target only if they are the same.
LEMMA InterleavingUnique ==
  ASSUME NEW g \in Nat \ {0}, NEW n \in Nat \ {0}, NEW x \in Nat, NEW y \in Nat,
         TargetIndex(x, g, n) = TargetIndex(y, g, n),
         LocalOffset(x, g, n) = LocalOffset(y, g, n)
  PROVE  x = y
<1> DEFINE bx == x \div g
           by == y \div g
<1>1. bx \in Nat /\ x % g \in Nat /\ x % g < g /\ x = g * bx + (x % g) BY DivMod, Zenon
<1>2. by \in Nat /\ y % g \in Nat /\ y % g < g /\ y = g * by + (y % g) BY DivMod, Zenon
<1> HIDE DEF bx, by
<1>3. bx \div n \in Nat /\ bx % n \in Nat /\ bx = n * (bx \div n) + (bx % n) BY <1>1, DivMod, Zenon
<1>4. by \div n \in Nat /\ by % n \in Nat /\ by = n * (by \div n) + (by % n) BY <1>2, DivMod, Zenon
<1>5. bx % n = by % n BY Zenon DEF TargetIndex, bx, by
<1>6. (bx \div n) * g + (x % g) = (by \div n) * g + (y % g) BY Zenon DEF LocalOffset, bx, by
<1>7. bx \div n = by \div n /\ x % g = y % g BY <1>1, <1>2, <1>3, <1>4, <1>6, OffsetUnique
<1>8. bx = by BY <1>3, <1>4, <1>5, <1>7, Zenon
<1> QED BY <1>1, <1>2, <1>7, <1>8, Zenon

\* The invariant holds of a new decoder and is kept by both operations.
LEMMA HdmInvariant == HdmSpec => []HdmInv
<1> USE HdmAssumption
<1>1. HdmInit => HdmInv
  BY DEF HdmInit, HdmInv, NoInterleave
<1>2. ASSUME HdmInv, [HdmNext]_hdmVars PROVE HdmInv'
  <2>1. CASE UNCHANGED hdmVars BY <1>2, <2>1, Zenon DEF hdmVars, HdmInv
  <2>2. ASSUME NEW in \in Inputs, add_range(in[1], in[2], in[3], in[3] # LocalNode) PROVE HdmInv'
    <3>1. RangeOf(in[1], in[2], in[3], in[3] # LocalNode) \in [base : Nat, size : Nat, node : Nat, remote : BOOLEAN]
      BY DEF RangeOf
    <3>2. ranges' \in Seq([base : Nat, size : Nat, node : Nat, remote : BOOLEAN])
      BY <1>2, <2>2, <3>1 DEF HdmInv, add_range
    <3> QED BY <1>2, <2>2, <3>2, Zenon DEF HdmInv, add_range
  <2>3. ASSUME NEW il \in Interleavings, configure_interleave(il[1], il[2], il[3], il[4]) PROVE HdmInv'
    BY <1>2, <2>3 DEF HdmInv, configure_interleave
  <2> QED BY <1>2, <2>1, <2>2, <2>3, Zenon DEF HdmNext
<1> QED BY <1>1, <1>2, PTL DEF HdmSpec

\* Whatever interleaving is configured, two addresses of its region never share
\* a target and an offset.
THEOREM HdmInjective == HdmSpec => []InterleaveInjective
<1>1. HdmInv => InterleaveInjective
  <2> SUFFICES ASSUME HdmInv, NEW a \in Addresses, NEW b \in Addresses,
                      decode_interleaved(a) # Unmapped,
                      decode_interleaved(a) = decode_interleaved(b)
               PROVE  a = b
    BY Zenon DEF InterleaveInjective
  <2> DEFINE g == interleave.granularity
             n == Len(interleave.targets)
             x == a - interleave.base
             y == b - interleave.base
  <2>1. n \in Nat \ {0} /\ g \in Nat \ {0} /\ a >= interleave.base
    <3>1. n # 0 /\ ~(a < interleave.base) BY Zenon DEF decode_interleaved
    <3> QED BY <3>1, HdmAssumption DEF HdmInv, Addresses
  <2>2. decode_interleaved(b) # Unmapped /\ b >= interleave.base
    <3>1. decode_interleaved(b) # Unmapped OBVIOUS
    <3>2. ~(b < interleave.base) BY <3>1, Zenon DEF decode_interleaved
    <3> QED BY <3>1, <3>2, HdmAssumption DEF HdmInv, Addresses
  <2>3. x \in Nat /\ y \in Nat
    BY <2>1, <2>2, HdmAssumption DEF HdmInv, Addresses
  <2>4. decode_interleaved(a) = <<interleave.targets[TargetIndex(x, g, n) + 1], LocalOffset(x, g, n),
                                  IsRemote(interleave.targets[TargetIndex(x, g, n) + 1])>>
    BY Zenon DEF decode_interleaved, Mapped
  <2>5. decode_interleaved(b) = <<interleave.targets[TargetIndex(y, g, n) + 1], LocalOffset(y, g, n),
                                  IsRemote(interleave.targets[TargetIndex(y, g, n) + 1])>>
    BY <2>2, Zenon DEF decode_interleaved, Mapped
  <2>a. ASSUME NEW p1, NEW p2, NEW p3, NEW q1, NEW q2, NEW q3, <<p1, p2, p3>> = <<q1, q2, q3>>
        PROVE  p1 = q1 /\ p2 = q2
    BY <2>a, Zenon
  <2>b. <<interleave.targets[TargetIndex(x, g, n) + 1], LocalOffset(x, g, n),
          IsRemote(interleave.targets[TargetIndex(x, g, n) + 1])>>
        = <<interleave.targets[TargetIndex(y, g, n) + 1], LocalOffset(y, g, n),
            IsRemote(interleave.targets[TargetIndex(y, g, n) + 1])>>
    <3> HIDE DEF x, y, g, n
    <3> QED BY <2>4, <2>5, Zenon
  <2>6. LocalOffset(x, g, n) = LocalOffset(y, g, n)
    <3> HIDE DEF x, y, g, n
    <3> QED BY <2>b, <2>a, Zenon
  <2>7. interleave.targets[TargetIndex(x, g, n) + 1] = interleave.targets[TargetIndex(y, g, n) + 1]
    <3> HIDE DEF x, y, g, n
    <3> QED BY <2>b, <2>a, Zenon
  <2>8. TargetIndex(x, g, n) + 1 \in 1 .. n /\ TargetIndex(y, g, n) + 1 \in 1 .. n
    <3> HIDE DEF x, y, g, n
    <3>1. x \div g \in Nat /\ y \div g \in Nat BY <2>1, <2>3, DivMod, Zenon
    <3> QED BY <2>1, <3>1, DivMod DEF TargetIndex
  <2>9. TargetIndex(x, g, n) = TargetIndex(y, g, n)
    <3>1. DOMAIN interleave.targets = 1 .. n BY DEF HdmInv
    <3>2. TargetIndex(x, g, n) + 1 = TargetIndex(y, g, n) + 1 BY <2>7, <2>8, <3>1, Zenon DEF HdmInv
    <3>3. TargetIndex(x, g, n) \in Int /\ TargetIndex(y, g, n) \in Int
      <4> HIDE DEF x, y, g, n
      <4>1. x \div g \in Nat /\ y \div g \in Nat BY <2>1, <2>3, DivMod, Zenon
      <4> QED BY <2>1, <4>1, DivMod DEF TargetIndex
    <3> QED BY <3>2, <3>3
  <2>10. x = y
    <3> HIDE DEF x, y, g, n
    <3> QED BY <2>1, <2>3, <2>6, <2>9, InterleavingUnique, Zenon
  <2> QED BY <2>10, HdmAssumption DEF Addresses, HdmInv
<1> QED BY <1>1, HdmInvariant, PTL

\* A set of indices that is not empty has a first one, which the scan stops at.
LEMMA FirstExists ==
  ASSUME NEW A, A \subseteq Nat, A # {}
  PROVE  First(A) \in A /\ \A j \in A : First(A) <= j
<1>1. \E x \in A : \A y \in A : ~(<<y, x>> \in OpToRel(<, Nat))
  BY NatLessThanWellFounded, WFMin, Zenon
<1>2. PICK x \in A : \A y \in A : ~(<<y, x>> \in OpToRel(<, Nat)) BY <1>1, Zenon
<1>3. \A y \in A : ~(y < x) BY <1>2, Zenon DEF OpToRel
<1>4. \A y \in A : x <= y BY <1>3
<1> QED BY <1>4, Zenon DEF First

\* Indices behind the others do not change which one is first.
LEMMA FirstStays ==
  ASSUME NEW A, NEW T, A \subseteq Nat, T \subseteq Nat, A # {}, A \subseteq T,
         \A i \in A, j \in T \ A : i < j
  PROVE  First(T) = First(A)
<1>1. First(A) \in A /\ \A j \in A : First(A) <= j BY FirstExists, Zenon
<1>2. First(T) \in T /\ \A j \in T : First(T) <= j BY FirstExists, Zenon
<1>3. First(A) \in Nat /\ First(T) \in Nat /\ First(T) <= First(A) BY <1>1, <1>2, Zenon
<1>4. First(T) \in A
  <2>1. SUFFICES ASSUME First(T) \notin A PROVE FALSE OBVIOUS
  <2>2. First(A) < First(T) BY <1>1, <1>2, <2>1, Zenon
  <2> QED BY <1>3, <2>2
<1>5. First(A) <= First(T) BY <1>1, <1>4, Zenon
<1> QED BY <1>3, <1>5

\* The first range that contains an address is the same after another range
\* was appended.
LEMMA ScanStays ==
  ASSUME NEW R, NEW s \in Seq(R), NEW r \in R, NEW addr, Matches(s, addr) # {}
  PROVE  LET t == Append(s, r)
         IN  Matches(t, addr) # {} /\ t[First(Matches(t, addr))] = s[First(Matches(s, addr))]
<1> DEFINE t == Append(s, r)
           A == Matches(s, addr)
           T == Matches(t, addr)
<1>1. Len(s) \in Nat /\ DOMAIN s = 1 .. Len(s) /\ DOMAIN t = 1 .. Len(s) + 1
  OBVIOUS
<1>2. \A i \in DOMAIN s : t[i] = s[i] OBVIOUS
<1>3. A \subseteq 1 .. Len(s) /\ T \subseteq 1 .. Len(s) + 1 BY <1>1, Zenon DEF Matches
<1>4. \A i \in 1 .. Len(s) : i \in A <=> i \in T BY <1>1, <1>2 DEF Matches
<1> HIDE DEF A, T, t
<1>5. A \subseteq T BY <1>3, <1>4, Zenon
<1>6. \A i \in A, j \in T \ A : i < j
  <2> SUFFICES ASSUME NEW i \in A, NEW j \in T \ A PROVE i < j OBVIOUS
  <2>1. i \in 1 .. Len(s) /\ j \in 1 .. Len(s) + 1 /\ j \notin 1 .. Len(s) BY <1>3, <1>4, Zenon
  <2> QED BY <1>1, <2>1
<1>7. A # {} BY Zenon DEF A
<1>8. A \subseteq Nat /\ T \subseteq Nat BY <1>1, <1>3
<1>9. First(T) = First(A) BY <1>5, <1>6, <1>7, <1>8, FirstStays, Zenon
<1>10. First(A) \in A BY <1>7, <1>8, FirstExists, Zenon
<1>11. t[First(A)] = s[First(A)] BY <1>1, <1>2, <1>3, <1>10, Zenon
<1> QED BY <1>5, <1>7, <1>9, <1>11, Zenon DEF A, T, t

\* Whatever ranges are added, no address that a range or the interleaving maps
\* changes its node or its offset.
THEOREM HdmHomesStable == HdmSpec => HomesAreStable
<1> DEFINE Stable ==
      UNCHANGED interleave =>
        \A a \in Addresses :
          decode_range(a) # Unmapped \/ hdm_mode = "INTERLEAVED" => Home(decode(a))' = Home(decode(a))
<1>1. ASSUME HdmInv, [HdmNext]_hdmVars PROVE [Stable]_hdmVars
  <2> SUFFICES ASSUME HdmNext, UNCHANGED interleave, NEW a \in Addresses,
                      decode_range(a) # Unmapped \/ hdm_mode = "INTERLEAVED"
               PROVE  Home(decode(a))' = Home(decode(a))
    BY <1>1, Zenon
  <2>1. CASE UNCHANGED ranges
    <3>1. UNCHANGED hdmVars BY <2>1, Zenon DEF HdmNext, add_range, configure_interleave, hdmVars
    <3> QED BY <3>1 DEF hdmVars, Home, decode, decode_range, decode_interleaved, IsRemote
  <2>2. ASSUME NEW in \in Inputs, add_range(in[1], in[2], in[3], in[3] # LocalNode)
        PROVE  Home(decode(a))' = Home(decode(a))
    <3> DEFINE R == [base : Nat, size : Nat, node : Nat, remote : BOOLEAN]
               r == RangeOf(in[1], in[2], in[3], in[3] # LocalNode)
    <3>1. r \in R BY HdmAssumption DEF RangeOf
    <3>2. ranges \in Seq(R) /\ ranges' = Append(ranges, r) /\ hdm_mode' = hdm_mode
      BY <1>1, <2>2, Zenon DEF HdmInv, add_range
    <3>3. ASSUME decode_range(a) # Unmapped PROVE decode_range(a)' = decode_range(a)
      <4>1. Matches(ranges, a) # {} BY <3>3, Zenon DEF decode_range
      <4> HIDE DEF R, r
      <4>2. Matches(ranges', a) # {}
            /\ ranges'[First(Matches(ranges', a))] = ranges[First(Matches(ranges, a))]
        BY <3>1, <3>2, <4>1, ScanStays, Zenon
      <4>3. decode_range(a) = Hit(ranges[First(Matches(ranges, a))], a) BY <4>1, Zenon DEF decode_range
      <4>4. decode_range(a)' = Hit(ranges'[First(Matches(ranges', a))], a) BY <4>2, Zenon DEF decode_range
      <4> QED BY <4>2, <4>3, <4>4, Zenon
    <3>4. CASE hdm_mode = "INTERLEAVED"
      <4>1. decode(a) = decode_interleaved(a) /\ decode(a)' = decode_interleaved(a)'
        BY <3>2, <3>4, Zenon DEF decode
      <4>2. Home(decode_interleaved(a))' = Home(decode_interleaved(a))
        BY Zenon DEF Home, decode_interleaved, Mapped, Unmapped
      <4> QED BY <4>1, <4>2, Zenon
    <3>5. CASE hdm_mode = "RANGE_BASED"
      BY <3>2, <3>3, <3>5, Zenon DEF decode, Home
    <3>6. CASE hdm_mode = "HYBRID"
      BY <3>2, <3>3, <3>6, Zenon DEF decode, Home
    <3> QED BY <1>1, <3>4, <3>5, <3>6, Zenon DEF HdmInv
  <2> QED BY <2>1, <2>2, Zenon DEF HdmNext, configure_interleave
<1> QED BY <1>1, HdmInvariant, PTL DEF HdmSpec, HomesAreStable

\* The places of window w of s that the scan would stop at.
InWindow(s, addr, w) == {i \in w[1] .. w[2] : InRange(s[i], addr)}
\* What the scan finds in window w of s.
ScanOf(s, addr, w) ==
  IF InWindow(s, addr, w) = {} THEN Unmapped ELSE Hit(s[First(InWindow(s, addr, w))], addr)
Windows(s) == (1 .. Len(s) + 1) \X (0 .. Len(s))
\* One turn of the search loop, with f for the rest of the search.
SearchTurn(s, addr, f, w) ==
  LET lo == w[1]  hi == w[2]  mid == lo + (hi - lo) \div 2
  IN  IF lo > hi THEN Unmapped
      ELSE LET step == SearchStep(s[mid], addr)
           IN  CASE step = "left"  -> f[<<lo, mid - 1>>]
                 [] step = "right" -> f[<<mid + 1, hi>>]
                 [] step = "here"  -> Hit(s[mid], addr)

\* A sum that does not wrap is its own remainder.
LEMMA SmallMod ==
  ASSUME NEW g \in Nat \ {0}, NEW x \in Nat, x < g
  PROVE  x % g = x
<1>1. x \div g \in Nat /\ x % g \in Nat /\ x = g * (x \div g) + (x % g) BY DivMod, Zenon
<1> DEFINE q == x \div g
           r == x % g
<1> HIDE DEF q, r
<1>2. q \in Nat /\ r \in Nat /\ x = g * q + r BY <1>1, Zenon DEF q, r
<1>3. q = 0
  <2> SUFFICES ASSUME q # 0 PROVE FALSE OBVIOUS
  <2>1. PICK d \in Nat : q = 1 + d
    <3>1. q - 1 \in Nat /\ q = 1 + (q - 1) BY <1>2
    <3> QED BY <3>1, Zenon
  <2>2. g * q = g + g * d BY <2>1
  <2>3. g * d \in Nat BY <2>1
  <2> QED BY <1>2, <2>2, <2>3
<1>4. r = x BY <1>2, <1>3
<1> QED BY <1>4, Zenon DEF r

\* A position divides the list.
LEMMA AroundPosition ==
  ASSUME NEW n \in Nat, NEW k \in 1 .. n
  PROVE  /\ k \in Nat
         /\ \A i \in k .. n : i \in 1 .. n /\ (i = k \/ k < i)
         /\ \A i \in 1 .. k : i \in 1 .. n /\ (i = k \/ i < k)
OBVIOUS

\* Ranges that are sorted, disjoint and do not wrap: one on the left of the
\* middle lies below it, one on the right above it.
LEMMA SearchOrder ==
  ASSUME NEW s \in Seq([base : Nat, size : Nat, node : Nat, remote : BOOLEAN]),
         Disjoint(s), NonEmpty(s), NEW addr \in Addresses, NEW m \in 1 .. Len(s)
  PROVE  /\ SearchStep(s[m], addr) = "left" => \A i \in m .. Len(s) : ~InRange(s[i], addr)
         /\ SearchStep(s[m], addr) = "right" => \A i \in 1 .. m : ~InRange(s[i], addr)
         /\ SearchStep(s[m], addr) = "here" =>
              InRange(s[m], addr) /\ \A i \in 1 .. Len(s) : InRange(s[i], addr) => i = m
         /\ SearchStep(s[m], addr) \in {"left", "right", "here"}
<1> DEFINE B(i) == s[i].base
           E(i) == s[i].base + s[i].size
<1>1. Len(s) \in Nat /\ Wrap \in Nat /\ Wrap > 0 /\ addr \in Nat /\ DOMAIN s = 1 .. Len(s)
  BY HdmAssumption DEF Addresses
<1>2. ASSUME NEW i \in 1 .. Len(s)
      PROVE  B(i) \in Nat /\ E(i) \in Nat /\ B(i) < E(i) /\ (s[i].base + s[i].size) % Wrap = E(i)
  <2>1. s[i] \in [base : Nat, size : Nat, node : Nat, remote : BOOLEAN] 
    <3> DEFINE R == [base : Nat, size : Nat, node : Nat, remote : BOOLEAN]
    <3>1. s \in Seq(R) OBVIOUS
    <3> HIDE DEF R
    <3>2. s[i] \in R BY <3>1
    <3> QED BY <3>2, Zenon DEF R
  <2>2. s[i].base \in Nat /\ s[i].size \in Nat BY <2>1, Zenon
  <2>3. s[i].size > 0 /\ s[i].base + s[i].size < Wrap BY <1>1, Zenon DEF NonEmpty
  <2>4. ASSUME NEW x \in Nat, NEW y \in Nat, y > 0, x + y < Wrap
        PROVE  x + y \in Nat /\ x < x + y /\ (x + y) % Wrap = x + y
    <3>1. x + y \in Nat /\ x < x + y /\ Wrap \in Nat \ {0} BY <1>1, <2>4
    <3>2. (x + y) % Wrap = x + y BY <2>4, <3>1, SmallMod, Zenon
    <3> QED BY <3>1, <3>2, Zenon
  <2> QED BY <2>2, <2>3, <2>4, Zenon
<1>3. ASSUME NEW i \in 1 .. Len(s), NEW j \in 1 .. Len(s), i < j PROVE E(i) <= B(j)
  BY <1>1, <1>3, Zenon DEF Disjoint
<1>4. ASSUME NEW i \in 1 .. Len(s) PROVE InRange(s[i], addr) <=> addr >= B(i) /\ addr < E(i)
  <2>1. (s[i].base + s[i].size) % Wrap = E(i) BY <1>2, Zenon
  <2> HIDE DEF E
  <2> QED BY <2>1, Zenon DEF InRange
<1>5. SearchStep(s[m], addr) = IF addr < B(m) THEN "left" ELSE IF addr >= E(m) THEN "right" ELSE "here"
  <2>1. (s[m].base + s[m].size) % Wrap = E(m) BY <1>2, Zenon
  <2> HIDE DEF E
  <2> QED BY <2>1, Zenon DEF SearchStep
<1> HIDE DEF B, E
<1>6. B(m) \in Nat /\ E(m) \in Nat /\ B(m) < E(m) /\ m \in Nat BY <1>1, <1>2, AroundPosition, Zenon
<1>7. ASSUME NEW i \in 1 .. Len(s)
      PROVE  /\ B(i) \in Nat /\ E(i) \in Nat /\ B(i) < E(i) /\ i \in Nat
             /\ i < m => E(i) <= B(m)
             /\ m < i => E(m) <= B(i)
  BY <1>1, <1>2, <1>3, AroundPosition, Zenon
<1>8. ASSUME NEW i \in m .. Len(s), addr < B(m) PROVE ~InRange(s[i], addr)
  <2>1. i \in 1 .. Len(s) /\ (i = m \/ m < i) BY <1>1, AroundPosition, Zenon
  <2>2. addr < B(i)
    <3>1. \A a, b, e, c \in Nat : a < b /\ b < e /\ e <= c => a < c OBVIOUS
    <3>2. CASE m < i
      <4>1. E(m) <= B(i) /\ B(i) \in Nat BY <1>7, <2>1, <3>2, Zenon
      <4> QED BY <1>1, <1>6, <1>8, <3>1, <4>1, Zenon
    <3> QED BY <1>8, <2>1, <3>2, Zenon
  <2>3. ~(addr >= B(i)) BY <1>1, <1>7, <2>1, <2>2
  <2> QED BY <1>4, <2>1, <2>3, Zenon
<1>9. ASSUME NEW i \in 1 .. m, addr >= E(m) PROVE ~InRange(s[i], addr)
  <2>1. i \in 1 .. Len(s) /\ (i = m \/ i < m) BY <1>1, AroundPosition, Zenon
  <2>2. addr >= E(i)
    <3>1. \A a, b, e, c \in Nat : a >= e /\ b < e /\ c <= b => a >= c OBVIOUS
    <3>2. CASE i < m
      <4>1. E(i) <= B(m) /\ E(i) \in Nat BY <1>7, <2>1, <3>2, Zenon
      <4> QED BY <1>1, <1>6, <1>9, <3>1, <4>1, Zenon
    <3> QED BY <1>9, <2>1, <3>2, Zenon
  <2>3. ~(addr < E(i)) BY <1>1, <1>7, <2>1, <2>2
  <2> QED BY <1>4, <2>1, <2>3, Zenon
<1>10. ASSUME ~(addr < B(m)), ~(addr >= E(m))
       PROVE  InRange(s[m], addr) /\ \A i \in 1 .. Len(s) : InRange(s[i], addr) => i = m
  <2>1. addr >= B(m) /\ addr < E(m) BY <1>1, <1>6, <1>10
  <2>2. ASSUME NEW i \in 1 .. Len(s), InRange(s[i], addr) PROVE i = m
    <3>1. addr >= B(i) /\ addr < E(i) BY <1>4, <2>2, Zenon
    <3>2. ~(i < m) BY <1>1, <1>6, <1>7, <2>1, <3>1
    <3>3. ~(m < i) BY <1>1, <1>6, <1>7, <2>1, <3>1
    <3> QED BY <1>6, <1>7, <3>2, <3>3
  <2> QED BY <1>4, <2>1, <2>2, Zenon
<1>11. /\ SearchStep(s[m], addr) = "left" => addr < B(m)
       /\ SearchStep(s[m], addr) = "right" => addr >= E(m)
       /\ SearchStep(s[m], addr) = "here" => ~(addr < B(m)) /\ ~(addr >= E(m))
       /\ SearchStep(s[m], addr) \in {"left", "right", "here"}
  <2>1. CASE addr < B(m) BY <1>5, <2>1
  <2>2. CASE ~(addr < B(m)) /\ addr >= E(m) BY <1>5, <2>2
  <2>3. CASE ~(addr < B(m)) /\ ~(addr >= E(m)) BY <1>5, <2>3
  <2> QED BY <2>1, <2>2, <2>3, Zenon
<1> QED BY <1>8, <1>9, <1>10, <1>11, Zenon

\* The middle of a window is in it, and the halves are windows.
LEMMA Middle ==
  ASSUME NEW n \in Nat, NEW w \in (1 .. n + 1) \X (0 .. n), w[1] <= w[2]
  PROVE  LET mid == w[1] + (w[2] - w[1]) \div 2
         IN  /\ mid \in Nat /\ w[1] <= mid /\ mid <= w[2] /\ mid \in 1 .. n
             /\ <<w[1], mid - 1>> \in (1 .. n + 1) \X (0 .. n)
             /\ <<mid + 1, w[2]>> \in (1 .. n + 1) \X (0 .. n)
<1>1. w[1] \in 1 .. n + 1 /\ w[2] \in 0 .. n BY Zenon
<1>2. ASSUME NEW a \in 1 .. n + 1, NEW b \in 0 .. n, a <= b
      PROVE  /\ a + (b - a) \div 2 \in Nat /\ a <= a + (b - a) \div 2 /\ a + (b - a) \div 2 <= b
  BY <1>2
<1>3. ASSUME NEW a \in 1 .. n + 1, NEW b \in 0 .. n, a <= b, NEW m \in Nat, a <= m, m <= b
      PROVE  m \in 1 .. n /\ m - 1 \in 0 .. n /\ m + 1 \in 1 .. n + 1
  BY <1>3
<1> DEFINE mid == w[1] + (w[2] - w[1]) \div 2
<1>4. mid \in Nat /\ w[1] <= mid /\ mid <= w[2] BY <1>1, <1>2, Zenon
<1> HIDE DEF mid
<1>5. mid \in 1 .. n /\ mid - 1 \in 0 .. n /\ mid + 1 \in 1 .. n + 1 BY <1>1, <1>3, <1>4, Zenon
<1>6. <<w[1], mid - 1>> \in (1 .. n + 1) \X (0 .. n) BY <1>1, <1>5, Zenon
<1>7. <<mid + 1, w[2]>> \in (1 .. n + 1) \X (0 .. n) BY <1>1, <1>5, Zenon
<1> QED BY <1>4, <1>5, <1>6, <1>7, Zenon DEF mid

\* One turn of the search finds what the scan of the window finds, if the rest
\* of the search does.
LEMMA SearchTurnScans ==
  ASSUME NEW s \in Seq([base : Nat, size : Nat, node : Nat, remote : BOOLEAN]),
         Disjoint(s), NonEmpty(s), NEW addr \in Addresses, NEW f, NEW w \in Windows(s),
         \A v \in Windows(s) : v[2] - v[1] < w[2] - w[1] => f[v] = ScanOf(s, addr, v)
  PROVE  SearchTurn(s, addr, f, w) = ScanOf(s, addr, w)
<1> DEFINE mid == w[1] + (w[2] - w[1]) \div 2
           a == w[1]
           b == w[2]
           lft == <<w[1], mid - 1>>
           rgt == <<mid + 1, w[2]>>
<1>1. Len(s) \in Nat OBVIOUS
<1>2. w[1] \in 1 .. Len(s) + 1 /\ w[2] \in 0 .. Len(s) BY Zenon DEF Windows
<1>3. CASE w[1] > w[2]
  <2>1. InWindow(s, addr, w) = {} BY <1>1, <1>2, <1>3 DEF InWindow
  <2> QED BY <1>3, <2>1, Zenon DEF SearchTurn, ScanOf
<1>4. CASE w[1] <= w[2]
  <2>0. ~(w[1] > w[2]) BY <1>1, <1>2, <1>4
  <2>1. /\ mid \in Nat /\ w[1] <= mid /\ mid <= w[2] /\ mid \in 1 .. Len(s)
        /\ lft \in Windows(s) /\ rgt \in Windows(s)
    BY <1>1, <1>4, Middle, Zenon DEF Windows
  <2> HIDE DEF mid
  <2>2. lft[1] = w[1] /\ lft[2] = mid - 1 /\ rgt[1] = mid + 1 /\ rgt[2] = w[2] OBVIOUS
  <2>8. /\ a \in 1 .. Len(s) + 1 /\ b \in 0 .. Len(s) /\ Len(s) \in Nat
        /\ mid \in Nat /\ a <= mid /\ mid <= b
    BY <1>1, <1>2, <2>1, Zenon
  <2>3. /\ SearchStep(s[mid], addr) = "left" => \A i \in mid .. Len(s) : ~InRange(s[i], addr)
        /\ SearchStep(s[mid], addr) = "right" => \A i \in 1 .. mid : ~InRange(s[i], addr)
        /\ SearchStep(s[mid], addr) = "here" =>
             InRange(s[mid], addr) /\ \A i \in 1 .. Len(s) : InRange(s[i], addr) => i = mid
        /\ SearchStep(s[mid], addr) \in {"left", "right", "here"}
    BY <2>1, SearchOrder, Zenon
  <2>4. f[lft] = ScanOf(s, addr, lft) /\ f[rgt] = ScanOf(s, addr, rgt)
    <3>1. lft[2] - lft[1] < w[2] - w[1] /\ rgt[2] - rgt[1] < w[2] - w[1]
      <4> HIDE DEF a, b
      <4>1. (mid - 1) - a < b - a /\ b - (mid + 1) < b - a BY <2>8
      <4> QED BY <2>2, <4>1, Zenon DEF a, b
    <3> QED BY <2>1, <3>1, Zenon
  <2>5. CASE SearchStep(s[mid], addr) = "left"
    <3>1. SearchTurn(s, addr, f, w) = f[lft]
      BY <2>0, <2>5 DEF SearchTurn, mid
    <3>2. \A i \in mid .. Len(s) : ~InRange(s[i], addr) BY <2>3, <2>5, Zenon
    <3>3. ASSUME NEW i, i \in w[1] .. w[2] /\ InRange(s[i], addr) PROVE i \in w[1] .. (mid - 1)
      <4>1. i \in a .. b /\ ~(i \in mid .. Len(s)) BY <3>2, <3>3, Zenon
      <4> HIDE DEF a, b
      <4>2. i \in a .. (mid - 1) BY <2>8, <4>1
      <4> QED BY <4>2, Zenon DEF a
    <3>4. ASSUME NEW i \in w[1] .. (mid - 1) PROVE i \in w[1] .. w[2]
      <4> HIDE DEF a, b
      <4>1. \A j \in a .. (mid - 1) : j \in a .. b BY <2>8
      <4> QED BY <4>1, Zenon DEF a, b
    <3>5. InWindow(s, addr, lft) = InWindow(s, addr, w) BY <2>2, <3>3, <3>4, Zenon DEF InWindow
    <3> QED BY <2>4, <3>1, <3>5, Zenon DEF ScanOf
  <2>6. CASE SearchStep(s[mid], addr) = "right"
    <3>1. SearchTurn(s, addr, f, w) = f[rgt]
      BY <2>0, <2>6 DEF SearchTurn, mid
    <3>2. \A i \in 1 .. mid : ~InRange(s[i], addr) BY <2>3, <2>6, Zenon
    <3>3. ASSUME NEW i, i \in w[1] .. w[2] /\ InRange(s[i], addr) PROVE i \in (mid + 1) .. w[2]
      <4>1. i \in a .. b /\ ~(i \in 1 .. mid) BY <3>2, <3>3, Zenon
      <4> HIDE DEF a, b
      <4>2. i \in (mid + 1) .. b BY <2>8, <4>1
      <4> QED BY <4>2, Zenon DEF b
    <3>4. ASSUME NEW i \in (mid + 1) .. w[2] PROVE i \in w[1] .. w[2]
      <4> HIDE DEF a, b
      <4>1. \A j \in (mid + 1) .. b : j \in a .. b BY <2>8
      <4> QED BY <4>1, Zenon DEF a, b
    <3>5. InWindow(s, addr, rgt) = InWindow(s, addr, w) BY <2>2, <3>3, <3>4, Zenon DEF InWindow
    <3> QED BY <2>4, <3>1, <3>5, Zenon DEF ScanOf
  <2>7. CASE SearchStep(s[mid], addr) = "here"
    <3>1. SearchTurn(s, addr, f, w) = Hit(s[mid], addr)
      BY <2>0, <2>7 DEF SearchTurn, mid
    <3>2. InRange(s[mid], addr) /\ \A i \in 1 .. Len(s) : InRange(s[i], addr) => i = mid
      BY <2>3, <2>7, Zenon
    <3>3. mid \in w[1] .. w[2] BY <1>1, <1>2, <2>1
    <3>4. ASSUME NEW i \in w[1] .. w[2] PROVE i \in 1 .. Len(s) BY <1>1, <1>2
    <3>5. InWindow(s, addr, w) = {mid} BY <3>2, <3>3, <3>4, Zenon DEF InWindow
    <3>6. First({mid}) = mid
      <4>1. {mid} \subseteq Nat /\ {mid} # {} BY <2>1, Zenon
      <4>2. First({mid}) \in {mid} BY <4>1, FirstExists, Zenon
      <4> QED BY <4>2, Zenon
    <3> QED BY <3>1, <3>5, <3>6, Zenon DEF ScanOf
  <2> QED BY <2>3, <2>5, <2>6, <2>7, Zenon
<1> QED BY <1>2, <1>3, <1>4

\* A search that takes the turns of the loop finds what the scan finds, in
\* every window: in a window of least width where it did not, one turn would
\* give a narrower one.
LEMMA SearchIsScan ==
  ASSUME NEW s \in Seq([base : Nat, size : Nat, node : Nat, remote : BOOLEAN]),
         Disjoint(s), NonEmpty(s), NEW addr \in Addresses, NEW f,
         \A w \in Windows(s) : f[w] = SearchTurn(s, addr, f, w)
  PROVE  \A w \in Windows(s) : f[w] = ScanOf(s, addr, w)
<1> DEFINE Width(w) == w[2] - w[1] + Len(s) + 1
           Wrong == {w \in Windows(s) : f[w] # ScanOf(s, addr, w)}
           N == {Width(w) : w \in Wrong}
<1>1. Len(s) \in Nat OBVIOUS
<1>2. ASSUME NEW w \in Windows(s) PROVE Width(w) \in Nat /\ w[1] \in Int /\ w[2] \in Int
  <2>1. w[1] \in 1 .. Len(s) + 1 /\ w[2] \in 0 .. Len(s) BY Zenon DEF Windows
  <2> QED BY <1>1, <2>1
<1>3. SUFFICES ASSUME Wrong # {} PROVE FALSE BY Zenon
<1>4. N \subseteq Nat /\ N # {}
  <2> HIDE DEF Width
  <2> QED BY <1>2, <1>3, Zenon
<1>5. PICK w \in Wrong : \A v \in Wrong : Width(w) <= Width(v)
  <2>1. First(N) \in N /\ \A j \in N : First(N) <= j
    <3> HIDE DEF N
    <3> QED BY <1>4, FirstExists, Zenon
  <2> HIDE DEF Width
  <2> QED BY <2>1, Zenon
<1>6. ASSUME NEW v \in Windows(s), v[2] - v[1] < w[2] - w[1] PROVE f[v] = ScanOf(s, addr, v)
  <2> SUFFICES ASSUME v \in Wrong PROVE FALSE BY Zenon
  <2>1. Width(w) <= Width(v) BY <1>5, Zenon
  <2>2. v[1] \in Int /\ v[2] \in Int /\ w[1] \in Int /\ w[2] \in Int BY <1>2, Zenon
  <2> QED BY <1>1, <1>6, <2>1, <2>2
<1>7. SearchTurn(s, addr, f, w) = ScanOf(s, addr, w) BY <1>6, SearchTurnScans, Zenon
<1> QED BY <1>7, Zenon

\* BinarySearch is the search over the whole sequence.
LEMMA BinarySearchScans ==
  ASSUME NEW s \in Seq([base : Nat, size : Nat, node : Nat, remote : BOOLEAN]),
         Disjoint(s), NonEmpty(s), NEW addr \in Addresses
  PROVE  BinarySearch(s, addr) = ScanOf(s, addr, <<1, Len(s)>>)
<1> DEFINE find == CHOOSE f : f = [w \in Windows(s) |-> SearchTurn(s, addr, f, w)]
           scan == [w \in Windows(s) |-> ScanOf(s, addr, w)]
<1>1. BinarySearch(s, addr) = find[<<1, Len(s)>>]
  BY Zenon DEF BinarySearch, SearchTurn, Windows
<1>2. \A w \in Windows(s) : scan[w] = ScanOf(s, addr, w) BY Zenon
<1>3. \A w \in Windows(s) : SearchTurn(s, addr, scan, w) = ScanOf(s, addr, w)
  <2> HIDE DEF scan
  <2> QED BY <1>2, SearchTurnScans, Zenon
<1>4. scan = [w \in Windows(s) |-> SearchTurn(s, addr, scan, w)] BY <1>3, Zenon
<1>5. find = [w \in Windows(s) |-> SearchTurn(s, addr, find, w)]
  <2> HIDE DEF scan
  <2> QED BY <1>4, Zenon
<1> HIDE DEF find
<1>6. \A w \in Windows(s) : find[w] = SearchTurn(s, addr, find, w) BY <1>5, Zenon
<1>7. \A w \in Windows(s) : find[w] = ScanOf(s, addr, w) BY <1>6, SearchIsScan, Zenon
<1>8. <<1, Len(s)>> \in Windows(s)
  <2>1. 1 \in 1 .. Len(s) + 1 /\ Len(s) \in 0 .. Len(s) OBVIOUS
  <2> QED BY <2>1, Zenon DEF Windows
<1> QED BY <1>1, <1>7, <1>8, Zenon

\* On any number of sorted, disjoint ranges the binary search and the scan of
\* decode_range give the same answer for every address.
THEOREM HdmSearchesAgree == HdmSpec => []SearchesAgree
<1>1. HdmInv => SearchesAgree
  <2> SUFFICES ASSUME HdmInv, Disjoint(ranges), NonEmpty(ranges), NEW a \in Addresses
               PROVE  BinarySearch(ranges, a) = decode_range(a)
    BY Zenon DEF SearchesAgree
  <2>1. ranges \in Seq([base : Nat, size : Nat, node : Nat, remote : BOOLEAN])
    BY Zenon DEF HdmInv
  <2>2. BinarySearch(ranges, a) = ScanOf(ranges, a, <<1, Len(ranges)>>)
    BY <2>1, BinarySearchScans, Zenon
  <2>3. DOMAIN ranges = 1 .. Len(ranges) BY <2>1
  <2>4. InWindow(ranges, a, <<1, Len(ranges)>>) = Matches(ranges, a)
    BY <2>3, Zenon DEF InWindow, Matches
  <2> QED BY <2>2, <2>4, Zenon DEF ScanOf, decode_range
<1> QED BY <1>1, HdmInvariant, PTL
=============================================================================
