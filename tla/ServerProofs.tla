---------------------------- MODULE ServerProofs ----------------------------
(***************************************************************************)
(* The memory server, for any number of threads, addresses and credits and *)
(* any queue size.                                                         *)
(***************************************************************************)
EXTENDS ServerMemory, ExpanderQueue, FiniteSetTheorems, SequenceTheorems, TLAPS

-----------------------------------------------------------------------------
(***************************************************************************)
(* The expander. Its credits and its queue.                                *)
(***************************************************************************)

\* A request in flight.
Request == [kind : AccessKinds, complete : Nat]

\* Threads that may push_back without another look at the queue.
Pushers == {u \in Users : epc[u] = "push"}

\* Each thread past can_accept_request takes one of the places that the queue
\* has beyond its size.
RoomForPushers == Len(request_queue) + Cardinality(Pushers) <= MaxQueueSize + Cardinality(Users) - 1

\* The issue loop keeps requests in flight to half of MAX_QUEUE_SIZE.
WindowKept == Cardinality(InFlight) <= MaxQueueSize \div 2

\* insert of address 0 and calculate_latency end before the queue.
PushesAddress == \A u \in Users : epc[u] \in {"accept", "push"} => call[u].addr # 0

\* The inductive invariant of the expander.
ExpanderInv == ExpanderTypeOK /\ PushesAddress /\ CreditsAccounted /\ RoomForPushers /\ WindowKept

\* Sets of addresses in flight and of threads about to push are finite.
LEMMA ExpanderFinite ==
  /\ IsFiniteSet(InFlight) /\ Cardinality(InFlight) \in Nat
  /\ \A k \in AccessKinds : IsFiniteSet(InFlightOf(k)) /\ Cardinality(InFlightOf(k)) \in Nat
  /\ IsFiniteSet(Pushers) /\ Cardinality(Pushers) \in Nat /\ Cardinality(Pushers) <= Cardinality(Users)
  /\ Cardinality(Users) \in Nat \ {0}
<1>1. InFlight \in SUBSET Addrs /\ \A k \in AccessKinds : InFlightOf(k) \in SUBSET Addrs
  BY Zenon DEF InFlight, InFlightOf
<1>2. Pushers \in SUBSET Users
  BY Zenon DEF Pushers
<1>3. \A S \in SUBSET Addrs : IsFiniteSet(S) /\ Cardinality(S) \in Nat
  BY FS_Subset, FS_CardinalityType, ExpanderAssumption, Zenon
<1>4. IsFiniteSet(Pushers) /\ Cardinality(Pushers) <= Cardinality(Users)
  BY <1>2, FS_Subset, ExpanderAssumption, Zenon
<1>5. Cardinality(Pushers) \in Nat
  BY <1>4, FS_CardinalityType, Zenon
<1>6. Cardinality(Users) \in Nat \ {0}
  <2>1. Cardinality(Users) \in Nat /\ Users # {}
    BY FS_CardinalityType, ExpanderAssumption, Zenon
  <2>. QED
    BY <2>1, FS_EmptySet, ExpanderAssumption, Zenon
<1>. QED
  BY <1>1, <1>3, <1>4, <1>5, <1>6, Zenon

\* The constructor establishes the invariant.
LEMMA ExpanderStart == ExpanderInit => ExpanderInv
<1>. SUFFICES ASSUME ExpanderInit
              PROVE  ExpanderInv
  OBVIOUS
<1>1. InFlight = {} /\ \A k \in AccessKinds : InFlightOf(k) = {}
  BY Zenon DEF ExpanderInit, InFlight, InFlightOf
<1>2. Pushers = {}
  BY Zenon DEF ExpanderInit, Pushers
<1>3. ExpanderTypeOK /\ PushesAddress
  BY ExpanderAssumption DEF ExpanderInit, ExpanderTypeOK, PushesAddress, NoCall, Calls, AccessKinds, Stamps
<1>4. CreditsAccounted
  <2>1. \A k \in AccessKinds : Cardinality(InFlightOf(k)) = 0
    BY <1>1, FS_EmptySet, Zenon
  <2>2. \A k \in AccessKinds : credits[k] = InitialCredits /\ leaked[k] = 0
    BY Zenon DEF ExpanderInit
  <2>. QED
    BY <2>1, <2>2, ExpanderAssumption DEF CreditsAccounted
<1>5. RoomForPushers /\ WindowKept
  <2>1. Len(request_queue) = 0
    BY Zenon DEF ExpanderInit
  <2>. QED
    BY <2>1, <1>1, <1>2, FS_EmptySet, ExpanderFinite, ExpanderAssumption DEF RoomForPushers, WindowKept
<1>. QED
  BY <1>3, <1>4, <1>5, Zenon DEF ExpanderInv

\* release_credit keeps a credit count in its range, and loses nothing when the
\* credits stay within INITIAL_CREDITS.
LEMMA ReleasedFacts ==
  ASSUME NEW c \in 0 .. InitialCredits, NEW n \in Nat
  PROVE  /\ Released(c, n) \in 0 .. InitialCredits
         /\ c + n <= InitialCredits => Released(c, n) = c + n
BY ExpanderAssumption DEF Released

\* Every step of a thread keeps the variables in their types.
LEMMA ExpanderTypes ==
  ASSUME ExpanderTypeOK, PushesAddress, NEW u \in Users,
         \/ \E a \in ServerAddrs, k \in AccessKinds, ts \in Stamps : RecordAccess(u, a, k, ts)
         \/ \E a \in Addrs \cup {0}, ts \in Stamps : Insert(u, a, ts)
         \/ \E ts \in Stamps : CalculateLatency(u, ts)
         \/ FreeStats(u)
         \/ ExpanderStep(u)
  PROVE  ExpanderTypeOK'
<1>. USE DEF ExpanderTypeOK
<1>c. NoCall \in Calls
  BY ExpanderAssumption DEF NoCall, Calls, AccessKinds, Stamps
<1>1. CASE \E a \in ServerAddrs, k \in AccessKinds, ts \in Stamps : RecordAccess(u, a, k, ts)
  BY <1>1, ExpanderAssumption, SMTT(30) DEF RecordAccess, EGoto, queueStateVars, Calls
<1>2. CASE \E a \in Addrs \cup {0}, ts \in Stamps : Insert(u, a, ts)
  BY <1>2 DEF Insert, EGoto, queueStateVars, Calls, AccessKinds
<1>3. CASE \E ts \in Stamps : CalculateLatency(u, ts)
  BY <1>3 DEF CalculateLatency, EGoto, queueStateVars, Calls, AccessKinds
<1>4. CASE FreeStats(u)
  BY <1>4, Zenon DEF FreeStats, queueStateVars
<1>5. CASE Retire(u)
  <2>1. \A k \in AccessKinds : Cardinality(InFlightOf(k) \cap Expired(call[u].stamp)) \in Nat
    BY ExpanderFinite, FS_Intersection, FS_CardinalityType, Zenon
  <2>2. credits' \in [AccessKinds -> 0 .. InitialCredits]
    BY <1>5, <2>1, ReleasedFacts, Zenon DEF Retire
  <2>3. in_flight_requests' \in [Addrs -> [kind : AccessKinds, complete : Nat] \cup {NoRequest}]
    BY <1>5, Zenon DEF Retire
  <2>. QED
    BY <1>5, <2>2, <2>3, Zenon DEF Retire, EGoto
<1>6. CASE Issue(u)
  <2>1. Head(request_queue) \in [addr : Addrs, kind : AccessKinds]
        /\ Tail(request_queue) \in Seq([addr : Addrs, kind : AccessKinds])
    <3>1. request_queue # <<>>
      BY <1>6, Zenon DEF Issue, CanIssue
    <3>. QED
      BY <3>1, HeadTailProperties, Zenon
  <2>2. credits' \in [AccessKinds -> 0 .. InitialCredits]
    BY <1>6, <2>1, ExpanderAssumption DEF Issue, CanIssue
  <2>3. in_flight_requests' \in [Addrs -> [kind : AccessKinds, complete : Nat] \cup {NoRequest}]
    <3>1. PICK latency \in Latencies :
             in_flight_requests' = [in_flight_requests EXCEPT ![Head(request_queue).addr] =
               [kind |-> Head(request_queue).kind, complete |-> call[u].stamp + latency]]
      BY <1>6, Zenon DEF Issue
    <3>2. call[u].stamp \in Nat /\ latency \in Nat
      BY ExpanderAssumption DEF Calls, Stamps
    <3>. QED
      BY <2>1, <3>1, <3>2
  <2>4. leaked' \in [AccessKinds -> Nat]
    BY <1>6, <2>1, SMTT(30) DEF Issue
  <2>. QED
    BY <1>6, <2>1, <2>2, <2>3, <2>4, Zenon DEF Issue
<1>7. CASE StopIssuing(u)
  BY <1>7, <1>c, Zenon DEF StopIssuing, Finished, EGoto, queueStateVars
<1>8. CASE Accept(u)
  BY <1>8, Zenon DEF Accept, EGoto, queueStateVars
<1>9. CASE Reject(u)
  BY <1>9, <1>c, Zenon DEF Reject, Finished, EGoto, queueStateVars
<1>10. CASE Push(u)
  <2>1. call[u].addr \in Addrs /\ call[u].kind \in AccessKinds
    BY <1>10, Zenon DEF Push, PushesAddress, Calls
  <2>2. request_queue' \in Seq([addr : Addrs, kind : AccessKinds])
    BY <1>10, <2>1 DEF Push, AccessKinds
  <2>3. occupation' \subseteq Addrs
    BY <1>10, <2>1, Zenon DEF Push
  <2>. QED
    BY <1>10, <1>c, <2>2, <2>3, Zenon DEF Push, Finished, EGoto
<1>. QED
  BY <1>1, <1>2, <1>3, <1>4, <1>5, <1>6, <1>7, <1>8, <1>9, <1>10, Zenon DEF ExpanderStep

\* Every step of a thread keeps PushesAddress, and the room that the threads
\* past can_accept_request may need: can_accept_request leaves one place below
\* MAX_QUEUE_SIZE free, and a push takes the place of its own thread.
LEMMA ExpanderRoom ==
  ASSUME ExpanderInv, ExpanderTypeOK', NEW u \in Users,
         \/ \E a \in ServerAddrs, k \in AccessKinds, ts \in Stamps : RecordAccess(u, a, k, ts)
         \/ \E a \in Addrs \cup {0}, ts \in Stamps : Insert(u, a, ts)
         \/ \E ts \in Stamps : CalculateLatency(u, ts)
         \/ FreeStats(u)
         \/ ExpanderStep(u)
  PROVE  PushesAddress' /\ RoomForPushers'
<1>. USE DEF ExpanderInv, ExpanderTypeOK
<1>f. /\ Cardinality(Pushers) \in Nat /\ IsFiniteSet(Pushers)
      /\ Cardinality(Pushers') \in Nat /\ Cardinality(Pushers') <= Cardinality(Users)
      /\ Cardinality(Users) \in Nat
  <2>1. Pushers' \in SUBSET Users
    BY Zenon DEF Pushers
  <2>2. IsFiniteSet(Pushers') /\ Cardinality(Pushers') <= Cardinality(Users)
    BY <2>1, FS_Subset, ExpanderAssumption, Zenon
  <2>. QED
    BY <2>2, FS_CardinalityType, ExpanderFinite, Zenon
<1>l. Len(request_queue) \in Nat /\ Len(request_queue') \in Nat
  OBVIOUS
<1>1. CASE \/ \E a \in ServerAddrs, k \in AccessKinds, ts \in Stamps : RecordAccess(u, a, k, ts)
           \/ \E a \in Addrs \cup {0}, ts \in Stamps : Insert(u, a, ts)
           \/ \E ts \in Stamps : CalculateLatency(u, ts)
           \/ FreeStats(u)
           \/ Retire(u)
           \/ StopIssuing(u)
           \/ Reject(u)
  <2>1. request_queue' = request_queue
    BY <1>1, Zenon DEF RecordAccess, Insert, CalculateLatency, FreeStats, Retire, StopIssuing, Reject, queueStateVars
  <2>2. epc[u] # "push" /\ epc'[u] # "push" /\ (\A v \in Users \ {u} : epc'[v] = epc[v] /\ call'[v] = call[v])
    BY <1>1 DEF RecordAccess, Insert, CalculateLatency, FreeStats, Retire, StopIssuing, Reject, Finished, EGoto
  <2>3. Pushers' = Pushers
    BY <2>2, Zenon DEF Pushers
  <2>4. epc'[u] = "accept" => call'[u].addr # 0
    BY <1>1, Zenon DEF RecordAccess, Insert, CalculateLatency, FreeStats, Retire, StopIssuing, Reject, Finished, EGoto
  <2>. QED
    BY <2>1, <2>2, <2>3, <2>4, Zenon DEF PushesAddress, RoomForPushers
<1>2. CASE Issue(u)
  <2>1. Len(request_queue') <= Len(request_queue)
    BY <1>2, SMTT(30) DEF Issue, CanIssue
  <2>2. Pushers' = Pushers
    BY <1>2, Zenon DEF Issue, Pushers
  <2>3. PushesAddress'
    BY <1>2, Zenon DEF Issue, PushesAddress
  <2>. QED
    BY <2>1, <2>2, <2>3, <1>f, <1>l, ExpanderAssumption, SMTT(30) DEF RoomForPushers
<1>3. CASE Accept(u)
  <2>1. Len(request_queue') <= MaxQueueSize - 1
    BY <1>3, <1>l, ExpanderAssumption DEF Accept, queueStateVars
  <2>2. PushesAddress'
    BY <1>3, Zenon DEF Accept, EGoto, PushesAddress
  <2>. QED
    BY <2>1, <2>2, <1>f, <1>l, ExpanderAssumption DEF RoomForPushers
<1>4. CASE Push(u)
  <2>1. u \in Pushers /\ Pushers' = Pushers \ {u}
    BY <1>4, Zenon DEF Push, Finished, EGoto, Pushers
  <2>2. Cardinality(Pushers') = Cardinality(Pushers) - 1
    BY <2>1, <1>f, FS_RemoveElement, Zenon
  <2>3. Len(request_queue') = Len(request_queue) + 1
    BY <1>4 DEF Push
  <2>4. PushesAddress'
    BY <1>4, Zenon DEF Push, Finished, EGoto, PushesAddress
  <2>. QED
    BY <2>2, <2>3, <2>4, <1>f, <1>l, ExpanderAssumption DEF RoomForPushers
<1>. QED
  BY <1>1, <1>2, <1>3, <1>4, Zenon DEF ExpanderStep

\* Retiring requests returns exactly their credits: the limit in release_credit
\* does not bite, because the credits were accounted for.
LEMMA RetireAccounts ==
  ASSUME ExpanderInv, NEW u \in Users, Retire(u)
  PROVE  CreditsAccounted' /\ WindowKept'
<1>. DEFINE done == Expired(call[u].stamp)
<1>t. ExpanderTypeOK /\ CreditsAccounted /\ WindowKept
  BY Zenon DEF ExpanderInv
<1>1. \A a \in Addrs : in_flight_requests'[a] = IF a \in done THEN NoRequest ELSE in_flight_requests[a]
  BY Zenon DEF Retire
<1>2. InFlight' = InFlight \ done
  BY <1>1, Zenon DEF InFlight
<1>3. ASSUME NEW k \in AccessKinds
      PROVE  credits'[k] + Cardinality(InFlightOf(k)') + leaked'[k] = InitialCredits
  <2>. DEFINE n == Cardinality(InFlightOf(k) \cap done)
  <2>1. InFlightOf(k)' = InFlightOf(k) \ done
    BY <1>1, <1>2, Zenon DEF InFlightOf, InFlight
  <2>2. Cardinality(InFlightOf(k) \ done) = Cardinality(InFlightOf(k)) - n
    BY FS_Difference, ExpanderFinite, Zenon
  <2>3. n \in Nat /\ n <= Cardinality(InFlightOf(k)) /\ Cardinality(InFlightOf(k)) \in Nat
    BY FS_Intersection, FS_CardinalityType, ExpanderFinite, Zenon
  <2>4. credits'[k] = Released(credits[k], n) /\ leaked'[k] = leaked[k]
    BY Zenon DEF Retire
  <2>5. credits[k] \in 0 .. InitialCredits /\ leaked[k] \in Nat
    BY <1>t, Zenon DEF ExpanderTypeOK
  <2>6. credits[k] + Cardinality(InFlightOf(k)) + leaked[k] = InitialCredits
    BY <1>t, Zenon DEF CreditsAccounted
  <2>. HIDE DEF n
  <2>7. credits[k] + n <= InitialCredits
    BY <2>3, <2>5, <2>6, ExpanderAssumption
  <2>8. credits'[k] = credits[k] + n
    BY <2>3, <2>4, <2>5, <2>7, ReleasedFacts, Zenon
  <2>. QED
    BY <2>1, <2>2, <2>3, <2>4, <2>5, <2>6, <2>8, ExpanderAssumption
<1>4. CreditsAccounted'
  BY <1>3, Zenon DEF CreditsAccounted
<1>5. Cardinality(InFlight') <= Cardinality(InFlight) /\ Cardinality(InFlight') \in Nat
  BY <1>2, FS_Subset, FS_CardinalityType, ExpanderFinite, Zenon
<1>6. WindowKept'
  BY <1>5, <1>t, ExpanderFinite, ExpanderAssumption DEF WindowKept
<1>. QED
  BY <1>4, <1>6, Zenon

\* Issuing a request moves a credit into flight; a request that it replaces
\* under the same address takes its own credit with it.
LEMMA IssueAccounts ==
  ASSUME ExpanderInv, NEW u \in Users, Issue(u)
  PROVE  CreditsAccounted' /\ WindowKept'
<1>. DEFINE a == Head(request_queue).addr
            kd == Head(request_queue).kind
            old == in_flight_requests[a]
<1>t. ExpanderTypeOK /\ CreditsAccounted /\ WindowKept
  BY Zenon DEF ExpanderInv
<1>1. a \in Addrs /\ kd \in AccessKinds
  <2>1. request_queue # <<>>
    BY Zenon DEF Issue, CanIssue
  <2>2. Head(request_queue) \in [addr : Addrs, kind : AccessKinds]
    BY <2>1, <1>t, HeadTailProperties, Zenon DEF ExpanderTypeOK
  <2>. QED
    BY <2>2, Zenon
<1>2. PICK new \in Request : new.kind = kd /\ in_flight_requests' = [in_flight_requests EXCEPT ![a] = new]
  <2>1. PICK latency \in Latencies :
           in_flight_requests' = [in_flight_requests EXCEPT ![a] = [kind |-> kd, complete |-> call[u].stamp + latency]]
    BY Zenon DEF Issue
  <2>2. call[u].stamp + latency \in Nat
    BY <1>t, ExpanderAssumption, SMTT(30) DEF ExpanderTypeOK, Calls, Stamps
  <2>. QED
    BY <1>1, <2>1, <2>2, Zenon DEF Request
<1>3. new # NoRequest
  BY ExpanderAssumption, Zenon DEF Request, AccessKinds
<1>4. credits' = [credits EXCEPT ![kd] = @ - 1]
      /\ leaked' = IF old = NoRequest THEN leaked ELSE [leaked EXCEPT ![old.kind] = @ + 1]
  BY Zenon DEF Issue
<1>5. Cardinality(InFlight) < MaxQueueSize \div 2
  BY Zenon DEF Issue, CanIssue
<1>6. /\ credits \in [AccessKinds -> 0 .. InitialCredits] /\ leaked \in [AccessKinds -> Nat]
      /\ in_flight_requests \in [Addrs -> Request \cup {NoRequest}]
  BY <1>t, Zenon DEF ExpanderTypeOK, Request
<1>. HIDE DEF a, kd
<1>7. InFlight' = InFlight \cup {a}
  BY <1>1, <1>2, <1>3, <1>6, Zenon DEF InFlight
<1>8. WindowKept'
  <2>1. Cardinality(InFlight') <= Cardinality(InFlight) + 1
    <3>1. Cardinality(InFlight \cup {a}) = IF a \in InFlight THEN Cardinality(InFlight) ELSE Cardinality(InFlight) + 1
      BY FS_AddElement, ExpanderFinite, Zenon
    <3>. QED
      BY <1>7, <3>1, ExpanderFinite
  <2>2. Cardinality(InFlight') \in Nat
    BY <1>7, FS_AddElement, FS_CardinalityType, ExpanderFinite, Zenon
  <2>. QED
    BY <2>1, <2>2, <1>5, ExpanderFinite, ExpanderAssumption DEF WindowKept
<1>9. ASSUME NEW k \in AccessKinds
      PROVE  credits'[k] + Cardinality(InFlightOf(k)') + leaked'[k] = InitialCredits
  <2>1. InFlightOf(k)' = IF k = kd THEN InFlightOf(k) \cup {a} ELSE InFlightOf(k) \ {a}
    BY <1>1, <1>2, <1>3, <1>6, Zenon DEF InFlightOf, InFlight
  <2>2. a \in InFlightOf(k) <=> old # NoRequest /\ old.kind = k
    BY <1>1, Zenon DEF InFlightOf, InFlight
  <2>3. Cardinality(InFlightOf(k)') =
           IF k = kd THEN (IF a \in InFlightOf(k) THEN Cardinality(InFlightOf(k)) ELSE Cardinality(InFlightOf(k)) + 1)
                     ELSE (IF a \in InFlightOf(k) THEN Cardinality(InFlightOf(k)) - 1 ELSE Cardinality(InFlightOf(k)))
    <3>1. IsFiniteSet(InFlightOf(k))
      BY ExpanderFinite, Zenon
    <3>2. Cardinality(InFlightOf(k) \cup {a}) =
             IF a \in InFlightOf(k) THEN Cardinality(InFlightOf(k)) ELSE Cardinality(InFlightOf(k)) + 1
      BY <3>1, FS_AddElement, Zenon
    <3>3. Cardinality(InFlightOf(k) \ {a}) =
             IF a \in InFlightOf(k) THEN Cardinality(InFlightOf(k)) - 1 ELSE Cardinality(InFlightOf(k))
      BY <3>1, FS_RemoveElement, Zenon
    <3>4. CASE k = kd
      BY <2>1, <3>2, <3>4, Zenon
    <3>5. CASE k # kd
      BY <2>1, <3>3, <3>5, Zenon
    <3>. QED
      BY <3>4, <3>5, Zenon
  <2>4. leaked'[k] = IF a \in InFlightOf(k) THEN leaked[k] + 1 ELSE leaked[k]
    BY <1>4, <1>6, <2>2, Zenon
  <2>5. credits'[k] = IF k = kd THEN credits[k] - 1 ELSE credits[k]
    BY <1>1, <1>4, <1>6, Zenon
  <2>6. credits[k] \in Nat /\ leaked[k] \in Nat /\ Cardinality(InFlightOf(k)) \in Nat
    BY <1>6, ExpanderFinite
  <2>7. credits[k] + Cardinality(InFlightOf(k)) + leaked[k] = InitialCredits
    BY <1>t, Zenon DEF CreditsAccounted
  <2>. QED
    BY <2>3, <2>4, <2>5, <2>6, <2>7
<1>. QED
  BY <1>8, <1>9, Zenon DEF CreditsAccounted

\* No step breaks the inductive invariant.
LEMMA ExpanderStepKeeps == ExpanderInv /\ [ExpanderNext]_expanderVars => ExpanderInv'
<1>1. ASSUME ExpanderInv, ExpanderNext
      PROVE  ExpanderInv'
  <2>1. PICK u \in Users :
          \/ \E a \in ServerAddrs, k \in AccessKinds, ts \in Stamps : RecordAccess(u, a, k, ts)
          \/ \E a \in Addrs \cup {0}, ts \in Stamps : Insert(u, a, ts)
          \/ \E ts \in Stamps : CalculateLatency(u, ts)
          \/ FreeStats(u)
          \/ ExpanderStep(u)
    BY <1>1, Zenon DEF ExpanderNext
  <2>2. ExpanderTypeOK'
    BY <1>1, <2>1, ExpanderTypes, Zenon DEF ExpanderInv
  <2>3. PushesAddress' /\ RoomForPushers'
    BY <1>1, <2>1, <2>2, ExpanderRoom, Zenon
  <2>4. CreditsAccounted' /\ WindowKept'
    <3>1. CASE Retire(u)
      BY <1>1, <3>1, RetireAccounts, Zenon
    <3>2. CASE Issue(u)
      BY <1>1, <3>2, IssueAccounts, Zenon
    <3>3. CASE ~Retire(u) /\ ~Issue(u)
      <4>1. credits' = credits /\ in_flight_requests' = in_flight_requests /\ leaked' = leaked
        BY <2>1, <3>3, Zenon DEF ExpanderStep, RecordAccess, Insert, CalculateLatency, FreeStats, StopIssuing, Accept,
                          Reject, Push, queueStateVars
      <4>. QED
        BY <1>1, <4>1, Zenon DEF ExpanderInv, CreditsAccounted, WindowKept, InFlightOf, InFlight
    <3>. QED
      BY <3>1, <3>2, <3>3, Zenon
  <2>. QED
    BY <2>2, <2>3, <2>4, Zenon DEF ExpanderInv
<1>2. ASSUME ExpanderInv, UNCHANGED expanderVars
      PROVE  ExpanderInv'
  BY <1>2, Zenon DEF ExpanderInv, expanderVars, ExpanderTypeOK, PushesAddress, CreditsAccounted, RoomForPushers, WindowKept,
              InFlightOf, InFlight, Pushers
<1>. QED
  BY <1>1, <1>2, Zenon

\* The inductive invariant holds in every behaviour of the expander.
LEMMA ExpanderInvariant == ExpanderSpec => []ExpanderInv
  BY ExpanderStart, ExpanderStepKeeps, PTL DEF ExpanderSpec

\* process_queued_requests accounts for every credit, for any number of
\* threads, addresses, latencies and credits and whatever the stamps: the only
\* credits that never come back are those of requests replaced in
\* in_flight_requests_ by a later one for the same address.
THEOREM ExpanderCredits == ExpanderSpec => []CreditsAccounted
<1>1. ExpanderInv => CreditsAccounted
  BY Zenon DEF ExpanderInv
<1>. QED
  BY <1>1, ExpanderInvariant, PTL

\* request_queue_ outgrows MAX_QUEUE_SIZE by less than the number of threads,
\* and requests in flight keep to half of it, for any number of threads.
THEOREM ExpanderBounds == ExpanderSpec => []QueueBounded
<1>1. ExpanderInv => QueueBounded
  <2>. SUFFICES ASSUME ExpanderInv
                PROVE  QueueBounded
    OBVIOUS
  <2>1. Len(request_queue) \in Nat
    BY DEF ExpanderInv, ExpanderTypeOK
  <2>. QED
    BY <2>1, ExpanderFinite, ExpanderAssumption DEF ExpanderInv, RoomForPushers, WindowKept, QueueBounded
<1>. QED
  BY <1>1, ExpanderInvariant, PTL

-----------------------------------------------------------------------------
(***************************************************************************)
(* The memory of the server. Reads return what was last written, and the   *)
(* directory of the lines names those that hold copies, for any number of  *)
(* connections and lines, and any order of requests and back               *)
(* invalidations.                                                          *)
(***************************************************************************)

SpcLabels == {"idle", "sent", "apply", "register"}
LineStates == {"INVALID", "SHARED", "MODIFIED"}
ClientStamps == 0 .. MaxClock
Infos == [state : LineStates, owner : Threads \cup {None}, sharers : SUBSET Threads,
          last_access_time : ClientStamps]
Entries == [source : Threads, timestamp : ClientStamps, size : 0 .. NumWords, val : Values]
ReqTypes == [op : OpTypes \cup {"none"}, off : Words, size : 1 .. NumWords, val : Values, expected : Values,
             timestamp : ClientStamps]

\* Types, and which request a thread inside a handler serves.
ServerTypes ==
  /\ mem \in Line /\ last \in Line /\ info \in Infos /\ bi_queue \in Seq(Entries)
  /\ clock \in ClientStamps /\ req \in [Threads -> ReqTypes] /\ spc \in [Threads -> SpcLabels]
  /\ holders \subseteq Threads
  /\ invalidated \in BOOLEAN /\ skewed \in BOOLEAN /\ current \in BOOLEAN
  /\ \A t \in Threads : spc[t] = "register" => req[t].op = "BI_WRITEBACK"

\* A line has an owner exactly when it is MODIFIED, sharers exactly when it is
\* SHARED, and the queue is within its bound.
InfoConsistent ==
  /\ info.state = "MODIFIED" <=> info.owner # None
  /\ info.state = "SHARED" <=> info.sharers # {}
  /\ Len(bi_queue) <= MaxQueue

\* READ holds the mutexes alone.
OneReader == \A t, u \in Threads : spc[t] = "apply" /\ spc[u] = "apply" => t = u

\* While requests are handled in the order of their stamps, memory holds the
\* latest words and no data on its way into the line is newer than its last
\* access: in the queue, or in the second half of an OP_BI_WRITEBACK, also
\* after the READ that is under way.
NothingNewer ==
  ~skewed =>
    /\ current /\ mem = last
    /\ \A i \in 1 .. Len(bi_queue) : bi_queue[i].size # 0 => bi_queue[i].timestamp <= info.last_access_time
    /\ \A u \in Threads : spc[u] = "register" => req[u].timestamp <= info.last_access_time
    /\ \A t, u \in Threads : spc[t] = "apply" /\ spc[u] = "register" => req[u].timestamp <= req[t].timestamp

\* Until a client sends OP_BI_INVALIDATE every entry carries data.
OnlyData == ~invalidated => \A i \in 1 .. Len(bi_queue) : bi_queue[i].size # 0

ServerInv ==
  /\ ServerTypes /\ InfoConsistent /\ OneReader /\ NothingNewer /\ OnlyData
  /\ DirectoryTracksHolders

USE DEF SpcLabels, LineStates, ClientStamps, OpTypes

\* A request a client may send has the type of a request.
LEMMA RequestTypes ==
  ASSUME NEW op \in Ops, NEW r \in Requests(op), NEW ts \in ClientStamps
  PROVE  [r EXCEPT !.timestamp = ts] \in ReqTypes
<1>1. r \in [op : {op}, off : Words, size : 1 .. NumWords, val : Values, expected : Values, timestamp : {0}]
  BY Zenon DEF Requests
<1>2. op \in OpTypes BY ServerAssumption, Zenon
<1> QED BY <1>1, <1>2, Zenon DEF ReqTypes

\* Storing words keeps the line a line.
LEMMA StoreType ==
  ASSUME NEW l \in Line, NEW off, NEW size, NEW v \in Values
  PROVE  Store(l, off, size, v) \in Line
BY Zenon DEF Store, Line

\* The first state.
LEMMA ServerStart == ServerInit => ServerInv
<1> SUFFICES ASSUME ServerInit PROVE ServerInv OBVIOUS
<1> USE ServerAssumption DEF ServerInit
<1>1. ServerTypes
  <2>1. 0 \in Words /\ 0 \in Values /\ 1 \in 1 .. NumWords BY DEF Words, Values
  <2>2. mem \in Line /\ last \in Line BY <2>1, Zenon DEF Line
  <2>3. info \in Infos BY DEF Infos
  <2>4. NoReq \in ReqTypes BY <2>1 DEF NoReq, ReqTypes
  <2>5. req \in [Threads -> ReqTypes] BY <2>4, Zenon
  <2>6. spc \in [Threads -> SpcLabels] /\ \A t \in Threads : spc[t] = "idle" OBVIOUS
  <2>7. invalidated \in BOOLEAN /\ skewed \in BOOLEAN /\ current \in BOOLEAN BY Zenon
  <2>8. \A t \in Threads : req[t].op = "none" BY Zenon DEF NoReq
  <2> QED BY <2>2, <2>3, <2>5, <2>6, <2>7, <2>8 DEF ServerTypes
<1>2. InfoConsistent BY DEF InfoConsistent
<1>3. OneReader BY Zenon DEF OneReader
<1>4. NothingNewer BY DEF NothingNewer
<1>5. OnlyData BY DEF OnlyData
<1>6. DirectoryTracksHolders BY Zenon DEF DirectoryTracksHolders
<1> QED BY <1>1, <1>2, <1>3, <1>4, <1>5, <1>6, Zenon DEF ServerInv

\* handle_read_coherency leaves the line shared by its holders and the reader.
LEMMA ReadCoherency ==
  ASSUME info \in Infos, InfoConsistent, NEW t \in Threads
  PROVE  handle_read_coherency(info, t) =
           [state |-> "SHARED", owner |-> None, last_access_time |-> info.last_access_time,
            sharers |-> {t} \cup IF info.state = "MODIFIED" THEN {info.owner} ELSE info.sharers]
<1> USE DEF Infos, InfoConsistent, handle_read_coherency
<1>1. info.state \in LineStates OBVIOUS
<1>2. CASE info.state = "INVALID" BY <1>2, Zenon
<1>3. CASE info.state = "SHARED" BY <1>3, Zenon
<1>4. CASE info.state = "MODIFIED" BY <1>4, Zenon
<1> QED BY <1>1, <1>2, <1>3, <1>4, Zenon

\* handle_write_coherency leaves the line to the writer alone.
LEMMA WriteCoherency ==
  ASSUME info \in Infos, InfoConsistent, NEW t \in Threads
  PROVE  handle_write_coherency(info, t) =
           [state |-> "MODIFIED", owner |-> t, sharers |-> {}, last_access_time |-> info.last_access_time]
<1> USE DEF Infos, InfoConsistent, handle_write_coherency
<1>1. info.state \in LineStates OBVIOUS
<1>2. CASE info.state = "INVALID" BY <1>2, Zenon
<1>3. CASE info.state = "SHARED" BY <1>3, Zenon
<1>4. CASE info.state = "MODIFIED" BY <1>4, Zenon
<1> QED BY <1>1, <1>2, <1>3, <1>4, Zenon

\* Registering copies of an entry adds that entry to the queue and no other.
LEMMA RegisteredQueue ==
  ASSUME bi_queue \in Seq(Entries), info \in Infos, InfoConsistent, NEW t \in Threads, NEW e \in Entries,
         NEW q, q = Registered(threads_to_invalidate(info, t), e)
  PROVE  /\ q \in Seq(Entries)
         /\ \A i \in 1 .. Len(q) : q[i] = e \/ \E j \in 1 .. Len(bi_queue) : q[i] = bi_queue[j]
<1> DEFINE n == Cardinality(threads_to_invalidate(info, t))
           new == [i \in 1 .. n |-> e]
<1>1. threads_to_invalidate(info, t) \subseteq Threads
  BY Zenon DEF threads_to_invalidate, Infos, InfoConsistent
<1>2. n \in Nat BY <1>1, ServerAssumption, FS_Subset, FS_CardinalityType, Zenon
<1>3. new \in Seq(Entries) /\ Len(new) = n BY <1>2
<1>4. q = bi_queue \o new BY Zenon DEF Registered
<1> HIDE DEF new
<1>5. q \in Seq(Entries) /\ Len(q) = Len(bi_queue) + n BY <1>3, <1>4, ConcatProperties, Zenon
<1>6. ASSUME NEW i \in 1 .. Len(q) PROVE q[i] = e \/ \E j \in 1 .. Len(bi_queue) : q[i] = bi_queue[j]
  <2>1. CASE i <= Len(bi_queue) BY <1>3, <1>4, <2>1, ConcatProperties
  <2>2. CASE i > Len(bi_queue)
    <3>1. q[i] = new[i - Len(bi_queue)] BY <1>3, <1>4, <1>5, <2>2, ConcatProperties
    <3>2. i - Len(bi_queue) \in 1 .. n BY <1>2, <1>5, <2>2
    <3> QED BY <3>1, <3>2, Zenon DEF new
  <2> QED BY <1>5, <2>1, <2>2
<1> QED BY <1>5, <1>6, Zenon

ServerStepOf(t) ==
  \/ \E op \in Ops : Send(t, op)
  \/ ReadBegin(t) \/ check_and_apply_back_invalidations(t) \/ Read(t)
  \/ WriteOK(t) \/ WriteFails(t) \/ Faa(t) \/ Cas(t)
  \/ BiInvalidate(t) \/ BiWriteback(t) \/ BiWritebackFails(t) \/ BiRegister(t)

\* Every step keeps the types.
LEMMA ServerTypesStep ==
  ASSUME ServerInv, NEW t \in Threads, ServerStepOf(t)
  PROVE  ServerTypes'
<1> USE ServerAssumption DEF ServerInv, ServerTypes, Done, Handles
<1>0. 0 \in Words /\ 0 \in Values /\ 1 \in 1 .. NumWords /\ NoReq \in ReqTypes
  BY DEF Words, Values, NoReq, ReqTypes
<1>1. /\ req[t] \in ReqTypes /\ req[t].timestamp \in ClientStamps
      /\ req[t].val \in Values /\ req[t].size \in 1 .. NumWords /\ req[t].off \in Words
  BY Zenon DEF ReqTypes
<1>2. BiEntry(t, req[t].timestamp, req[t].size, req[t].val) \in Entries BY <1>1 DEF BiEntry, Entries
<1>3. Owned(t) \in Infos BY <1>1, Zenon DEF Owned, Infos
<1>4. Stored(t) => mem' \in Line /\ last' \in Line BY <1>1, StoreType DEF Stored
<1>5. CASE \E op \in Ops : Send(t, op)
  <2>1. PICK op \in Ops : Send(t, op) BY <1>5, Zenon
  <2>2. PICK tick \in {0, 1}, r \in Requests(op) :
      /\ clock + tick <= MaxClock /\ clock' = clock + tick
      /\ req' = [req EXCEPT ![t] = [r EXCEPT !.timestamp = clock + tick]]
    BY <2>1, Zenon DEF Send
  <2>3. clock + tick \in ClientStamps BY <2>2
  <2>4. req' \in [Threads -> ReqTypes] BY <2>2, <2>3, RequestTypes, Zenon
  <2> QED BY <2>1, <2>2, <2>3, <2>4, Zenon DEF Send
<1>6. CASE ReadBegin(t) BY <1>6, Zenon DEF ReadBegin
<1>7. CASE check_and_apply_back_invalidations(t)
  <2>1. Head(bi_queue) \in Entries /\ Tail(bi_queue) \in Seq(Entries)
    BY <1>7, HeadTailProperties, Zenon DEF check_and_apply_back_invalidations
  <2>2. Head(bi_queue).val \in Values /\ Head(bi_queue).timestamp \in ClientStamps BY <2>1, Zenon DEF Entries
  <2>3. Store(mem, 0, Head(bi_queue).size, Head(bi_queue).val) \in Line BY <2>2, StoreType, Zenon
  <2>4. Invalidate(info, Head(bi_queue)) \in Infos BY <2>2, Zenon DEF Invalidate, Infos
  <2>5. mem' \in Line /\ info' \in Infos /\ bi_queue' \in Seq(Entries)
    BY <1>7, <2>1, <2>3, <2>4, Zenon DEF check_and_apply_back_invalidations
  <2> QED BY <1>7, <2>5, Zenon DEF check_and_apply_back_invalidations
<1>8. CASE Read(t)
  <2>1. info' \in Infos BY <1>1, <1>8, ReadCoherency DEF Read, Infos, InfoConsistent
  <2>2. current' \in BOOLEAN BY <1>8, Zenon DEF Read
  <2> QED BY <1>0, <1>8, <2>1, <2>2, Zenon DEF Read
<1>9. CASE WriteOK(t)
  <2>1. info' \in Infos BY <1>1, <1>9, WriteCoherency DEF WriteOK, Infos
  <2>2. bi_queue' \in Seq(Entries) BY <1>2, <1>9, RegisteredQueue, Zenon DEF WriteOK
  <2> QED BY <1>0, <1>4, <1>9, <2>1, <2>2, Zenon DEF WriteOK
<1>10. CASE WriteFails(t)
  <2>1. info' \in Infos BY <1>1, <1>10, WriteCoherency DEF WriteFails, Infos
  <2>2. mem' \in Line /\ last' \in Line BY <1>4, <1>10, Zenon DEF WriteFails
  <2> QED BY <1>0, <1>10, <2>1, <2>2, Zenon DEF WriteFails
<1>11. CASE Faa(t)
  <2>1. \A l \in Line : [l EXCEPT ![req[t].off] = (@ + req[t].val) % NumValues] \in Line
    BY <1>1 DEF Line, Values
  <2>2. mem' \in Line /\ last' \in Line BY <1>11, <2>1, Zenon DEF Faa
  <2> QED BY <1>0, <1>3, <1>11, <2>2, Zenon DEF Faa
<1>12. CASE Cas(t)
  <2>1. [info EXCEPT !.last_access_time = req[t].timestamp] \in Infos BY <1>1, Zenon DEF Infos
  <2>2. mem' \in Line /\ last' \in Line /\ info' \in Infos /\ holders' \subseteq Threads
    BY <1>3, <1>4, <1>12, <2>1, Zenon DEF Cas
  <2> QED BY <1>0, <1>12, <2>2, Zenon DEF Cas
<1>13. CASE BiInvalidate(t)
  <2>1. BiEntry(t, req[t].timestamp, 0, 0) \in Entries BY <1>0, <1>1 DEF BiEntry, Entries
  <2>2. bi_queue' \in Seq(Entries) BY <1>13, <2>1, AppendProperties, Zenon DEF BiInvalidate
  <2>3. invalidated' \in BOOLEAN BY <1>13, Zenon DEF BiInvalidate
  <2> QED BY <1>0, <1>13, <2>2, <2>3, Zenon DEF BiInvalidate
<1>14. CASE BiWriteback(t) BY <1>3, <1>4, <1>14, Zenon DEF BiWriteback
<1>15. CASE BiWritebackFails(t)
  <2>1. mem' \in Line /\ last' \in Line BY <1>4, <1>15, Zenon DEF BiWritebackFails
  <2> QED BY <1>0, <1>15, <2>1, Zenon DEF BiWritebackFails
<1>16. CASE BiRegister(t)
  <2>1. bi_queue' \in Seq(Entries) BY <1>2, <1>16, AppendProperties, Zenon DEF BiRegister
  <2> QED BY <1>0, <1>16, <2>1, Zenon DEF BiRegister
<1> QED BY <1>5, <1>6, <1>7, <1>8, <1>9, <1>10, <1>11, <1>12, <1>13, <1>14, <1>15, <1>16, Zenon DEF ServerStepOf

\* The directory entry stays consistent, the queue in its bound, the mutexes
\* held once.
LEMMA ServerShapeStep ==
  ASSUME ServerInv, ServerTypes', NEW t \in Threads, ServerStepOf(t)
  PROVE  InfoConsistent' /\ OneReader'
<1> USE ServerAssumption DEF ServerInv, Done, Handles
<1>1. OneReader'
  BY DEF OneReader, ServerTypes, MutexesFree, ServerStepOf, Send, ReadBegin, check_and_apply_back_invalidations,
         Read, WriteOK, WriteFails, Faa, Cas, BiInvalidate, BiWriteback, BiWritebackFails, BiRegister
<1>2. t # None BY Zenon DEF None
<1>3. info \in Infos BY Zenon DEF ServerTypes
<1>4. CASE \/ \E op \in Ops : Send(t, op)
           \/ ReadBegin(t) \/ BiWritebackFails(t)
  BY <1>1, <1>4, Zenon DEF InfoConsistent, Send, ReadBegin, BiWritebackFails
<1>5. CASE check_and_apply_back_invalidations(t)
  <2>1. Len(Tail(bi_queue)) = Len(bi_queue) - 1 /\ Len(bi_queue) \in Nat
    BY <1>5, HeadTailProperties DEF check_and_apply_back_invalidations, ServerTypes
  <2>2. info' = info \/ info' = Invalidate(info, Head(bi_queue)) BY <1>5, Zenon DEF check_and_apply_back_invalidations
  <2> QED BY <1>1, <1>5, <2>1, <2>2 DEF check_and_apply_back_invalidations, InfoConsistent, Invalidate
<1>6. CASE Read(t)
  <2>1. info'.state = "SHARED" /\ info'.owner = None /\ t \in info'.sharers
    BY <1>3, <1>6, ReadCoherency DEF Read
  <2> QED BY <1>1, <1>6, <2>1, Zenon DEF Read, InfoConsistent
<1>7. CASE WriteOK(t) BY <1>1, <1>2, <1>3, <1>7, WriteCoherency DEF WriteOK, InfoConsistent
<1>8. CASE WriteFails(t) BY <1>1, <1>2, <1>3, <1>8, WriteCoherency DEF WriteFails, InfoConsistent
<1>9. CASE Faa(t) BY <1>1, <1>2, <1>9, Zenon DEF Faa, Owned, InfoConsistent
<1>10. CASE Cas(t) BY <1>1, <1>2, <1>3, <1>10 DEF Cas, Owned, InfoConsistent, Infos
<1>11. CASE BiInvalidate(t)
  <2>1. Len(bi_queue') = Len(bi_queue) + 1 BY <1>11 DEF BiInvalidate, ServerTypes
  <2> QED BY <1>1, <1>11, <2>1 DEF BiInvalidate, InfoConsistent, ServerTypes
<1>12. CASE BiWriteback(t) BY <1>1, <1>2, <1>12, Zenon DEF BiWriteback, Owned, InfoConsistent
<1>13. CASE BiRegister(t)
  <2>1. Len(bi_queue') = Len(bi_queue) + 1 BY <1>13 DEF BiRegister, ServerTypes
  <2> QED BY <1>1, <1>13, <2>1 DEF BiRegister, InfoConsistent, ServerTypes
<1> QED BY <1>4, <1>5, <1>6, <1>7, <1>8, <1>9, <1>10, <1>11, <1>12, <1>13, Zenon DEF ServerStepOf

\* The directory names the holders, as long as every queued entry has data.
LEMMA ServerHoldersStep ==
  ASSUME ServerInv, ServerTypes', NEW t \in Threads, ServerStepOf(t)
  PROVE  OnlyData' /\ DirectoryTracksHolders'
<1> USE ServerAssumption DEF ServerInv, Done, Handles
<1>0. info \in Infos /\ bi_queue \in Seq(Entries) /\ Len(bi_queue) \in Nat BY DEF ServerTypes
<1>1. req[t] \in ReqTypes /\ req[t].size # 0 /\ BiEntry(t, req[t].timestamp, req[t].size, req[t].val).size # 0
  BY DEF ServerTypes, ReqTypes, BiEntry
<1>2. BiEntry(t, req[t].timestamp, req[t].size, req[t].val) \in Entries
  BY DEF ServerTypes, ReqTypes, BiEntry, Entries
<1>3. CASE (\E op \in Ops : Send(t, op)) \/ ReadBegin(t) \/ BiWritebackFails(t)
  BY <1>3, Zenon DEF OnlyData, DirectoryTracksHolders, Send, ReadBegin, BiWritebackFails
<1>4. CASE check_and_apply_back_invalidations(t)
  <2>0. bi_queue # <<>> /\ bi_queue' = Tail(bi_queue) /\ UNCHANGED <<holders, invalidated>>
    BY <1>4, Zenon DEF check_and_apply_back_invalidations
  <2>1. Len(bi_queue') = Len(bi_queue) - 1 /\ \A i \in 1 .. Len(bi_queue') : bi_queue'[i] = bi_queue[i + 1]
    BY <1>0, <2>0, HeadTailProperties, Zenon
  <2>2. OnlyData' BY <1>0, <2>0, <2>1 DEF OnlyData
  <2>3. ~invalidated => info' = info
    <3>1. Head(bi_queue) = bi_queue[1] /\ 1 \in 1 .. Len(bi_queue) BY <1>0, <2>0
    <3> QED BY <1>4, <3>1, Zenon DEF check_and_apply_back_invalidations, OnlyData
  <2> QED BY <2>0, <2>2, <2>3, Zenon DEF DirectoryTracksHolders
<1>5. CASE Read(t)
  BY <1>0, <1>5, ReadCoherency DEF Read, OnlyData, DirectoryTracksHolders
<1>6. CASE WriteOK(t)
  <2>1. \A i \in 1 .. Len(bi_queue') : \/ bi_queue'[i] = BiEntry(t, req[t].timestamp, req[t].size, req[t].val)
                                       \/ \E j \in 1 .. Len(bi_queue) : bi_queue'[i] = bi_queue[j]
    BY <1>0, <1>2, <1>6, RegisteredQueue DEF WriteOK
  <2>2. OnlyData' BY <1>1, <1>6, <2>1, Zenon DEF OnlyData, WriteOK
  <2> QED BY <1>0, <1>6, <2>2, WriteCoherency DEF WriteOK, DirectoryTracksHolders
<1>7. CASE WriteFails(t)
  <2>1. info' = handle_write_coherency(info, t) /\ holders' = {t} /\ UNCHANGED <<bi_queue, invalidated>>
    BY <1>7, Zenon DEF WriteFails
  <2>2. info'.state = "MODIFIED" /\ info'.owner = t BY <1>0, <2>1, WriteCoherency
  <2> QED BY <2>1, <2>2, Zenon DEF OnlyData, DirectoryTracksHolders
<1>8. CASE Faa(t) BY <1>8, Zenon DEF Faa, Owned, OnlyData, DirectoryTracksHolders
<1>9. CASE Cas(t) BY <1>0, <1>9 DEF Cas, Owned, OnlyData, DirectoryTracksHolders, Infos
<1>10. CASE BiInvalidate(t) BY <1>10, Zenon DEF BiInvalidate, OnlyData, DirectoryTracksHolders
<1>11. CASE BiWriteback(t) BY <1>11, Zenon DEF BiWriteback, Owned, OnlyData, DirectoryTracksHolders
<1>12. CASE BiRegister(t)
  <2>1. /\ Len(bi_queue') = Len(bi_queue) + 1
        /\ \A i \in 1 .. Len(bi_queue) : bi_queue'[i] = bi_queue[i]
        /\ bi_queue'[Len(bi_queue) + 1] = BiEntry(t, req[t].timestamp, req[t].size, req[t].val)
    BY <1>0, <1>2, <1>12, AppendProperties DEF BiRegister
  <2>2. OnlyData' BY <1>0, <1>1, <1>12, <2>1 DEF OnlyData, BiRegister
  <2> QED BY <1>12, <2>2, Zenon DEF BiRegister, DirectoryTracksHolders
<1> QED BY <1>3, <1>4, <1>5, <1>6, <1>7, <1>8, <1>9, <1>10, <1>11, <1>12, Zenon DEF ServerStepOf

\* No data on its way becomes newer than the line, while stamps are in order.
LEMMA ServerNewerStep ==
  ASSUME ServerInv, ServerTypes', NEW t \in Threads, ServerStepOf(t)
  PROVE  NothingNewer'
<1> SUFFICES ASSUME ~skewed' PROVE NothingNewer' BY Zenon DEF NothingNewer
<1> DEFINE Aged == \A i \in 1 .. Len(bi_queue) :
                      bi_queue[i].size # 0 => bi_queue[i].timestamp <= info.last_access_time
           Registering == \A u \in Threads : spc[u] = "register" => req[u].timestamp <= info.last_access_time
           Applying == \A v, u \in Threads :
                          spc[v] = "apply" /\ spc[u] = "register" => req[u].timestamp <= req[v].timestamp
<1>0. /\ info \in Infos /\ bi_queue \in Seq(Entries) /\ Len(bi_queue) \in Nat
      /\ info.last_access_time \in Int /\ \A u \in Threads : req[u].timestamp \in Int
      /\ \A i \in 1 .. Len(bi_queue) : bi_queue[i].timestamp \in Int
      /\ spc \in [Threads -> SpcLabels] /\ req \in [Threads -> ReqTypes]
  <2>0. ServerTypes BY Zenon DEF ServerInv
  <2>1. \A i \in 1 .. Len(bi_queue) : bi_queue[i] \in Entries BY <2>0, ElementOfSeq, Zenon DEF ServerTypes
  <2>2. \A u \in Threads : req[u] \in ReqTypes BY <2>0, Zenon DEF ServerTypes
  <2>3. /\ info \in Infos /\ bi_queue \in Seq(Entries) /\ Len(bi_queue) \in Nat
        /\ spc \in [Threads -> SpcLabels] /\ req \in [Threads -> ReqTypes]
    BY <2>0 DEF ServerTypes
  <2>4. info.last_access_time \in Int BY <2>3, ServerAssumption DEF Infos
  <2>5. \A u \in Threads : req[u].timestamp \in Int BY <2>2, ServerAssumption DEF ReqTypes
  <2>6. \A i \in 1 .. Len(bi_queue) : bi_queue[i].timestamp \in Int BY <2>1, ServerAssumption DEF Entries
  <2> QED BY <2>3, <2>4, <2>5, <2>6, Zenon
<1>i. InfoConsistent BY Zenon DEF ServerInv
<1>1. BiEntry(t, req[t].timestamp, req[t].size, req[t].val) \in Entries
  <2>1. req[t] \in ReqTypes BY <1>0, Zenon
  <2> QED BY <2>1, ServerAssumption DEF ReqTypes, BiEntry, Entries
<1>2. ~skewed
  <2>1. skewed' = skewed \/ skewed' = (skewed \/ req[t].timestamp < info.last_access_time)
    BY Zenon DEF ServerStepOf, Send, ReadBegin, check_and_apply_back_invalidations, Handles,
           Read, WriteOK, WriteFails, Faa, Cas, BiInvalidate, BiWriteback, BiWritebackFails, BiRegister
  <2> QED BY <2>1, Zenon
<1>3. current /\ mem = last /\ Aged /\ Registering /\ Applying
  BY <1>2, Zenon DEF NothingNewer, ServerInv
<1>4. ASSUME NEW op, Handles(t, op)
      PROVE  MutexesFree /\ spc[t] = "sent" /\ req[t].timestamp >= info.last_access_time
  <2>1. ~(req[t].timestamp < info.last_access_time)
    BY <1>4, Zenon DEF Handles
  <2> QED BY <1>0, <1>4, <2>1 DEF Handles
<1>g. ASSUME current', mem' = last', Aged', Registering', Applying' PROVE NothingNewer'
  BY <1>g, Zenon DEF NothingNewer
<1>a. ASSUME info'.last_access_time \in Int, info'.last_access_time >= info.last_access_time
      PROVE  \A i \in 1 .. Len(bi_queue) :
                bi_queue[i].size # 0 => bi_queue[i].timestamp <= info'.last_access_time
  BY <1>0, <1>3, <1>a
<1>d. ASSUME Done(t)
      PROVE  /\ spc'[t] = "idle"
             /\ \A u \in Threads : u # t => spc'[u] = spc[u] /\ req'[u] = req[u]
  BY <1>0, <1>d, Zenon DEF Done
<1>r. ASSUME Done(t), info'.last_access_time \in Int, info'.last_access_time >= info.last_access_time
      PROVE  Registering'
  <2>1. /\ spc'[t] = "idle" /\ \A u \in Threads : u # t => spc'[u] = spc[u] /\ req'[u] = req[u]
    BY <1>d, <1>r, Zenon
  <2> SUFFICES ASSUME NEW u \in Threads, spc'[u] = "register"
               PROVE  req'[u].timestamp <= info'.last_access_time
    OBVIOUS
  <2>2. spc[u] = "register" /\ req'[u] = req[u] BY <2>1, Zenon
  <2>3. req[u].timestamp <= info.last_access_time BY <1>3, <2>2, Zenon
  <2> QED BY <1>0, <1>r, <2>2, <2>3
<1>p. ASSUME Done(t), MutexesFree PROVE Applying'
  <2>1. \A u \in Threads : spc'[u] # "apply"
    BY <1>d, <1>p, Zenon DEF MutexesFree
  <2> QED BY <2>1, Zenon
<1>s. ASSUME UNCHANGED bi_queue, info'.last_access_time \in Int,
             info'.last_access_time >= info.last_access_time
      PROVE  Aged'
  BY <1>a, <1>s, Zenon
<1>5. CASE \E op \in Ops : Send(t, op)
  <2>1. PICK op \in Ops : Send(t, op) BY <1>5, Zenon
  <2>2. /\ spc' = [spc EXCEPT ![t] = "sent"] /\ \E r : req' = [req EXCEPT ![t] = r]
        /\ UNCHANGED <<mem, info, bi_queue, last, current>>
    <3>1. \E tick \in {0, 1}, r \in Requests(op) : req' = [req EXCEPT ![t] = [r EXCEPT !.timestamp = clock + tick]]
      BY <2>1, Zenon DEF Send
    <3> QED BY <2>1, <3>1, Zenon DEF Send
  <2>3. /\ spc'[t] = "sent" /\ \A u \in Threads : u # t => spc'[u] = spc[u] /\ req'[u] = req[u]
    BY <1>0, <2>2, Zenon
  <2>4. Registering' /\ Applying' BY <1>3, <2>2, <2>3, Zenon
  <2> QED BY <1>3, <1>g, <2>2, <2>4, Zenon
<1>6. CASE ReadBegin(t)
  <2>1. Handles(t, "READ") /\ spc' = [spc EXCEPT ![t] = "apply"]
        /\ UNCHANGED <<mem, info, bi_queue, req, last, current>>
    BY <1>6, Zenon DEF ReadBegin
  <2>2. /\ spc'[t] = "apply" /\ \A u \in Threads : u # t => spc'[u] = spc[u]
    BY <1>0, <2>1, Zenon
  <2>3. MutexesFree /\ req[t].timestamp >= info.last_access_time BY <1>4, <2>1, Zenon
  <2>4. Registering' BY <1>3, <2>1, <2>2, Zenon
  <2>5. Applying'
    <3> SUFFICES ASSUME NEW v \in Threads, NEW u \in Threads, spc'[v] = "apply", spc'[u] = "register"
                 PROVE  req'[u].timestamp <= req'[v].timestamp
      OBVIOUS
    <3>1. v = t /\ spc[u] = "register" BY <2>2, <2>3, Zenon DEF MutexesFree
    <3>2. req[u].timestamp <= info.last_access_time BY <1>3, <3>1, Zenon
    <3> QED BY <1>0, <2>1, <2>3, <3>1, <3>2
  <2> QED BY <1>3, <1>g, <2>1, <2>4, <2>5, Zenon
<1>7. CASE check_and_apply_back_invalidations(t)
  <2> DEFINE e == Head(bi_queue)
  <2>0. bi_queue # <<>> /\ bi_queue' = Tail(bi_queue) /\ UNCHANGED <<req, spc, last, current>>
    BY <1>7, Zenon DEF check_and_apply_back_invalidations
  <2>1. Len(bi_queue') = Len(bi_queue) - 1 /\ \A i \in 1 .. Len(bi_queue') : bi_queue'[i] = bi_queue[i + 1]
    BY <1>0, <2>0, HeadTailProperties, Zenon
  <2>2. e = bi_queue[1] /\ 1 \in 1 .. Len(bi_queue)
    <3>1. e = bi_queue[1] /\ Len(bi_queue) # 0
      BY <1>0, <2>0, EmptySeq, HeadTailProperties
    <3> QED BY <1>0, <3>1
  <2>3. e.size # 0 => ~Applies(e)
    BY <1>0, <1>3, <2>2 DEF Applies
  <2>4. \/ info' = Invalidate(info, e) /\ mem' = mem
        \/ info' = info /\ mem' = mem
    BY <1>7, <2>3, Zenon DEF check_and_apply_back_invalidations
  <2>5. info'.last_access_time \in Int /\ info'.last_access_time >= info.last_access_time
    <3>1. CASE info' = Invalidate(info, e)
      <4>1. info'.last_access_time = IF e.timestamp > info.last_access_time
                                     THEN e.timestamp ELSE info.last_access_time
        BY <3>1, Zenon DEF Invalidate
      <4> QED BY <1>0, <2>2, <4>1
    <3> QED BY <1>0, <2>4, <3>1
  <2>6. Aged'
    <3> SUFFICES ASSUME NEW i \in 1 .. Len(bi_queue'), bi_queue'[i].size # 0
                 PROVE  bi_queue'[i].timestamp <= info'.last_access_time
      OBVIOUS
    <3>1. i + 1 \in 1 .. Len(bi_queue) /\ bi_queue'[i] = bi_queue[i + 1]
      BY <1>0, <2>1
    <3> QED BY <1>a, <2>5, <3>1, Zenon
  <2>7. Registering'
    BY <1>0, <1>3, <2>0, <2>5
  <2>8. Applying' BY <1>3, <2>0, Zenon
  <2> QED BY <1>3, <1>g, <2>0, <2>4, <2>6, <2>7, <2>8, Zenon
<1>8. CASE Read(t)
  <2>1. bi_queue' = <<>> /\ mem' = mem /\ last' = last /\ Done(t) /\ spc[t] = "apply"
    BY <1>8, Zenon DEF Read
  <2>2. info'.last_access_time = req[t].timestamp
    <3>1. info' = [handle_read_coherency(info, t) EXCEPT !.last_access_time = req[t].timestamp]
      BY <1>8, Zenon DEF Read
    <3> QED BY <1>0, <1>i, <3>1, ReadCoherency
  <2>3. current' BY <1>3, <1>8, Zenon DEF Read
  <2>4. Registering'
    <3> SUFFICES ASSUME NEW u \in Threads, spc'[u] = "register"
                 PROVE  req'[u].timestamp <= info'.last_access_time
      OBVIOUS
    <3>1. spc[u] = "register" /\ req'[u] = req[u] BY <1>d, <2>1, Zenon
    <3> QED BY <1>3, <2>1, <2>2, <3>1, Zenon
  <2>5. Applying'
    <3>1. \A u \in Threads : u # t => spc[u] # "apply" BY <2>1, Zenon DEF ServerInv, OneReader
    <3>2. \A u \in Threads : spc'[u] # "apply" BY <1>d, <2>1, <3>1, Zenon
    <3> QED BY <3>2, Zenon
  <2>6. Aged' BY <2>1
  <2> QED BY <1>3, <1>g, <2>1, <2>3, <2>4, <2>5, <2>6, Zenon
<1>9. CASE WriteOK(t)
  <2>0. Handles(t, "WRITE") /\ Done(t) /\ Stored(t) /\ current' = current
    BY <1>9, Zenon DEF WriteOK
  <2>1. \A i \in 1 .. Len(bi_queue') : \/ bi_queue'[i] = BiEntry(t, req[t].timestamp, req[t].size, req[t].val)
                                       \/ \E j \in 1 .. Len(bi_queue) : bi_queue'[i] = bi_queue[j]
    <3>1. bi_queue' = Registered(threads_to_invalidate(info, t),
                                BiEntry(t, req[t].timestamp, req[t].size, req[t].val))
      BY <1>9, Zenon DEF WriteOK
    <3> QED BY <1>0, <1>1, <1>i, <3>1, RegisteredQueue
  <2>2. info'.last_access_time = req[t].timestamp
    <3>1. info' = [handle_write_coherency(info, t) EXCEPT !.last_access_time = req[t].timestamp]
      BY <1>9, Zenon DEF WriteOK
    <3> QED BY <1>0, <1>i, <3>1, WriteCoherency
  <2>3. mem' = last' BY <1>3, <2>0, Zenon DEF Stored
  <2>4. MutexesFree /\ req[t].timestamp >= info.last_access_time BY <1>4, <2>0, Zenon
  <2>5. info'.last_access_time \in Int /\ info'.last_access_time >= info.last_access_time
    BY <1>0, <2>2, <2>4, Zenon
  <2>6. Aged'
    <3> SUFFICES ASSUME NEW i \in 1 .. Len(bi_queue'), bi_queue'[i].size # 0
                 PROVE  bi_queue'[i].timestamp <= info'.last_access_time
      OBVIOUS
    <3>1. CASE bi_queue'[i] = BiEntry(t, req[t].timestamp, req[t].size, req[t].val)
      <4>1. bi_queue'[i].timestamp = req[t].timestamp BY <3>1 DEF BiEntry
      <4> QED BY <2>2, <2>5, <4>1
    <3>2. CASE \E j \in 1 .. Len(bi_queue) : bi_queue'[i] = bi_queue[j]
      BY <1>a, <2>5, <3>2, Zenon
    <3> QED BY <2>1, <3>1, <3>2, Zenon
  <2> QED BY <1>3, <1>g, <1>p, <1>r, <2>0, <2>3, <2>4, <2>5, <2>6, Zenon
<1>10. CASE WriteFails(t)
  <2>0. Handles(t, "WRITE") /\ Done(t) /\ (Stored(t) \/ UNCHANGED <<mem, last>>) /\ current' = current
        /\ UNCHANGED bi_queue
    BY <1>10, Zenon DEF WriteFails
  <2>1. info'.last_access_time = info.last_access_time
    <3>1. info' = handle_write_coherency(info, t) BY <1>10, Zenon DEF WriteFails
    <3> QED BY <1>0, <1>i, <3>1, WriteCoherency
  <2>2. mem' = last' BY <1>3, <2>0, Zenon DEF Stored
  <2>3. info'.last_access_time \in Int /\ info'.last_access_time >= info.last_access_time
    BY <1>0, <2>1
  <2> QED BY <1>3, <1>4, <1>g, <1>p, <1>r, <1>s, <2>0, <2>2, <2>3, Zenon
<1>11. CASE Faa(t)
  <2>0. Handles(t, "FAA") /\ Done(t) /\ info' = Owned(t) /\ current' = current /\ UNCHANGED bi_queue
    BY <1>11, Zenon DEF Faa
  <2>1. mem' = last' BY <1>3, <1>11, Zenon DEF Faa
  <2>2. MutexesFree /\ req[t].timestamp >= info.last_access_time BY <1>4, <2>0, Zenon
  <2>3. info'.last_access_time \in Int /\ info'.last_access_time >= info.last_access_time
    BY <1>0, <2>0, <2>2, Zenon DEF Owned
  <2> QED BY <1>3, <1>g, <1>p, <1>r, <1>s, <2>0, <2>1, <2>2, <2>3, Zenon
<1>12. CASE Cas(t)
  <2>0. /\ Handles(t, "CAS") /\ Done(t) /\ current' = current /\ UNCHANGED bi_queue
        /\ \/ Stored(t) /\ info' = Owned(t)
           \/ info' = [info EXCEPT !.last_access_time = req[t].timestamp] /\ UNCHANGED <<mem, last>>
    BY <1>12, Zenon DEF Cas
  <2>1. mem' = last' BY <1>3, <2>0, Zenon DEF Stored
  <2>2. info'.last_access_time = req[t].timestamp BY <1>0, <2>0 DEF Owned, Infos
  <2>3. MutexesFree /\ req[t].timestamp >= info.last_access_time BY <1>4, <2>0, Zenon
  <2>4. info'.last_access_time \in Int /\ info'.last_access_time >= info.last_access_time
    BY <1>0, <2>2, <2>3, Zenon
  <2> QED BY <1>3, <1>g, <1>p, <1>r, <1>s, <2>0, <2>1, <2>3, <2>4, Zenon
<1>13. CASE BiInvalidate(t)
  <2>0. /\ Handles(t, "BI_INVALIDATE") /\ Done(t) /\ UNCHANGED <<mem, info, last, current>>
        /\ bi_queue' = Append(bi_queue, BiEntry(t, req[t].timestamp, 0, 0))
    BY <1>13, Zenon DEF BiInvalidate
  <2>1. BiEntry(t, req[t].timestamp, 0, 0) \in Entries
    <3>1. req[t] \in ReqTypes BY <1>0, Zenon
    <3> QED BY <3>1, ServerAssumption DEF ReqTypes, BiEntry, Entries, Values
  <2>2. /\ Len(bi_queue') = Len(bi_queue) + 1
        /\ \A i \in 1 .. Len(bi_queue) : bi_queue'[i] = bi_queue[i]
        /\ bi_queue'[Len(bi_queue) + 1] = BiEntry(t, req[t].timestamp, 0, 0)
    <3>1. bi_queue \in Seq(Entries) BY <1>0, Zenon
    <3> QED BY <2>0, <2>1, <3>1, AppendProperties, Zenon
  <2>3. bi_queue'[Len(bi_queue) + 1].size = 0 BY <2>2 DEF BiEntry
  <2>4. Aged' BY <1>0, <1>3, <2>0, <2>2, <2>3
  <2>5. Registering' BY <1>0, <1>r, <2>0
  <2>6. Applying' BY <1>4, <1>p, <2>0, Zenon
  <2> QED BY <1>3, <1>g, <2>0, <2>4, <2>5, <2>6, Zenon
<1>14. CASE BiWriteback(t)
  <2>0. /\ Handles(t, "BI_WRITEBACK") /\ Stored(t) /\ info' = Owned(t) /\ UNCHANGED <<bi_queue, req, current>>
        /\ spc' = [spc EXCEPT ![t] = "register"]
    BY <1>14, Zenon DEF BiWriteback
  <2>1. mem' = last' BY <1>3, <2>0, Zenon DEF Stored
  <2>2. MutexesFree /\ req[t].timestamp >= info.last_access_time BY <1>4, <2>0, Zenon
  <2>3. info'.last_access_time = req[t].timestamp BY <2>0, Zenon DEF Owned
  <2>4. info'.last_access_time \in Int /\ info'.last_access_time >= info.last_access_time
    BY <1>0, <2>2, <2>3, Zenon
  <2>5. /\ spc'[t] = "register" /\ \A u \in Threads : u # t => spc'[u] = spc[u]
    BY <1>0, <2>0, Zenon
  <2>6. Registering'
    <3> SUFFICES ASSUME NEW u \in Threads, spc'[u] = "register"
                 PROVE  req[u].timestamp <= info'.last_access_time
      BY <2>0, Zenon
    <3>1. CASE u = t BY <1>0, <2>3, <3>1
    <3>2. CASE u # t
      <4>1. req[u].timestamp <= info.last_access_time BY <1>3, <2>5, <3>2, Zenon
      <4> QED BY <1>0, <2>4, <4>1
    <3> QED BY <3>1, <3>2, Zenon
  <2>7. Applying'
    <3>1. \A u \in Threads : spc'[u] # "apply" BY <2>2, <2>5, Zenon DEF MutexesFree
    <3> QED BY <3>1, Zenon
  <2> QED BY <1>3, <1>g, <1>s, <2>0, <2>1, <2>4, <2>6, <2>7, Zenon
<1>15. CASE BiWritebackFails(t)
  <2>0. /\ Handles(t, "BI_WRITEBACK") /\ Done(t) /\ (Stored(t) \/ UNCHANGED <<mem, last>>)
        /\ UNCHANGED <<info, bi_queue, current>>
    BY <1>15, Zenon DEF BiWritebackFails
  <2>1. mem' = last' BY <1>3, <2>0, Zenon DEF Stored
  <2>2. info'.last_access_time \in Int /\ info'.last_access_time >= info.last_access_time
    BY <1>0, <2>0
  <2> QED BY <1>3, <1>4, <1>g, <1>p, <1>r, <1>s, <2>0, <2>1, <2>2, Zenon
<1>16. CASE BiRegister(t)
  <2> DEFINE e == BiEntry(t, req[t].timestamp, req[t].size, req[t].val)
  <2>0. /\ spc[t] = "register" /\ MutexesFree /\ Done(t) /\ UNCHANGED <<mem, info, last, current>>
        /\ bi_queue' = Append(bi_queue, e)
    BY <1>16, Zenon DEF BiRegister
  <2>1. /\ Len(bi_queue') = Len(bi_queue) + 1
        /\ \A i \in 1 .. Len(bi_queue) : bi_queue'[i] = bi_queue[i]
        /\ bi_queue'[Len(bi_queue) + 1] = e
    BY <1>0, <1>1, <2>0, AppendProperties
  <2>2. bi_queue'[Len(bi_queue) + 1].timestamp = req[t].timestamp BY <2>1 DEF BiEntry
  <2>3. req[t].timestamp <= info.last_access_time BY <1>3, <2>0, Zenon
  <2>4. Aged' BY <1>0, <1>3, <2>0, <2>1, <2>2, <2>3
  <2>5. Registering' BY <1>0, <1>r, <2>0
  <2>6. Applying' BY <1>p, <2>0, Zenon
  <2> QED BY <1>3, <1>g, <2>0, <2>4, <2>5, <2>6, Zenon
<1> QED BY <1>5, <1>6, <1>7, <1>8, <1>9, <1>10, <1>11, <1>12, <1>13, <1>14, <1>15, <1>16, Zenon DEF ServerStepOf

\* Every step of any connection keeps the invariant.
LEMMA ServerStep == ServerInv /\ [ServerNext]_serverVars => ServerInv'
<1> SUFFICES ASSUME ServerInv, [ServerNext]_serverVars PROVE ServerInv' OBVIOUS
<1>1. ASSUME NEW t \in Threads, ServerStepOf(t) PROVE ServerInv'
  BY <1>1, ServerTypesStep, ServerShapeStep, ServerHoldersStep, ServerNewerStep, Zenon DEF ServerInv
<1>2. CASE UNCHANGED serverVars
  BY <1>2, Zenon DEF serverVars, ServerInv, ServerTypes, InfoConsistent, OneReader, NothingNewer, OnlyData,
              DirectoryTracksHolders
<1> QED BY <1>1, <1>2, Zenon DEF ServerNext, ServerStepOf

\* For any number of connections and any order of their requests, the directory
\* entry and the queue of the line are well formed.
THEOREM ServerShape == ServerSpec => []DirectoryShape
<1>1. ServerInv => DirectoryShape
  <2> SUFFICES ASSUME ServerInv PROVE DirectoryShape OBVIOUS
  <2>0. bi_queue \in Seq(Entries) BY Zenon DEF ServerInv, ServerTypes
  <2>1. Range(bi_queue) \subseteq Entries BY <2>0, ElementOfSeq DEF Range
  <2> QED BY <2>1, Zenon DEF ServerInv, ServerTypes, InfoConsistent, DirectoryShape, Infos, Entries
<1> QED BY <1>1, ServerStart, ServerStep, PTL DEF ServerSpec

\* For any number of connections, a READ returns the latest words while the
\* line's requests are handled in the order of their stamps.
THEOREM ServerReads == ServerSpec => []ReadsLastWrite
<1>1. ServerInv => ReadsLastWrite BY Zenon DEF ServerInv, NothingNewer, ReadsLastWrite
<1> QED BY <1>1, ServerStart, ServerStep, PTL DEF ServerSpec

\* For any number of connections, the directory names the holders of current
\* copies until an OP_BI_INVALIDATE.
THEOREM ServerHolders == ServerSpec => []DirectoryTracksHolders
<1>1. ServerInv => DirectoryTracksHolders BY Zenon DEF ServerInv
<1> QED BY <1>1, ServerStart, ServerStep, PTL DEF ServerSpec
=============================================================================
