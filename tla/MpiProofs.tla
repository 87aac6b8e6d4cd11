----------------------------- MODULE MpiProofs ------------------------------
(***************************************************************************)
(* The windows and the collectives of the MPI shim, for any number of      *)
(* ranks, writes and calls.                                                *)
(***************************************************************************)
EXTENDS MpiWindow, MpiCollectives, TLAPS

-----------------------------------------------------------------------------
(***************************************************************************)
(* The windows. A get returns the last completed write of its target. In   *)
(* fence mode the counts of fences keep the ranks in step; in lock mode    *)
(* the locks exclude writers; in both a copy is refreshed before it can be *)
(* read.                                                                   *)
(***************************************************************************)

WinLabels == {"epoch", "fence", "left", "unlock"}
Locks == {Unlocked} \cup (WinRanks \X {"exclusive", "shared"})
Puts == [origin : WinRanks, target : WinRanks, value : Nat]

WindowTypes ==
  /\ sync_mode \in {"fence", "lock"} /\ writes \in Nat
  /\ local_base \in [WinRanks -> Nat] /\ mirror \in [WinRanks -> Nat]
  /\ outstanding \in SUBSET Puts
  /\ wpc \in [WinRanks -> WinLabels] /\ fences \in [WinRanks -> Nat]
  /\ held \in [WinRanks -> Locks] /\ used \in [WinRanks -> {"no", "read", "write"}]
  /\ current \in [WinRanks -> Nat]
  /\ writer \in [WinRanks -> {"none", "store", "put"}] /\ late \in [WinRanks -> BOOLEAN]

\* No value is from a write that was not made.
ValuesWritten ==
  /\ \A r \in WinRanks : local_base[r] <= writes /\ mirror[r] <= writes
  /\ \A p \in outstanding : p.value \in 1 .. writes

\* A program fences or locks, never both.
ModesApart ==
  \A r \in WinRanks :
     /\ sync_mode = "fence" => held[r] = Unlocked /\ wpc[r] # "unlock"
     /\ sync_mode = "lock" => wpc[r] \notin {"fence", "left"}
     /\ wpc[r] = "unlock" => held[r] # Unlocked

\* An exclusive lock on a window excludes every other lock on it.
LocksExclude ==
  \A q, r \in WinRanks :
     (q # r /\ held[q] # Unlocked /\ held[r] # Unlocked /\ held[q][1] = held[r][1])
       => held[q][2] = "shared"

\* A rank that is a fence behind is still in that fence.
FencesInStep ==
  \A q, r \in WinRanks :
     fences[q] > fences[r] => fences[q] = fences[r] + 1 /\ wpc[r] = "fence"

\* A put under way is the last write of its location, the only one under way
\* to it, in the present epoch of its target, and from a rank that is in that
\* epoch too or holds the lock.
PutsUnderWay ==
  \A p \in outstanding :
     /\ p.value = current[p.target] /\ writer[p.target] = "put"
     /\ used[p.target] = "write"
     /\ \A q \in outstanding : q.target = p.target => q = p
     /\ wpc[p.origin] # "left"
     /\ \A q \in WinRanks : fences[q] <= fences[p.origin]
     /\ sync_mode = "lock" => held[p.origin] = <<p.target, "exclusive">>

\* The buffer of a rank lacks only a put that is under way, and its mirror is
\* current unless it is marked.
CopiesCurrent ==
  \A t \in WinRanks :
     /\ (\A p \in outstanding : p.target # t) => local_base[t] = current[t]
     /\ (t \in Mirrored /\ ~late[t]) => mirror[t] = current[t]

\* A store of the owner reaches its mirror before the epoch is over.
StoresMirrored ==
  sync_mode = "fence" =>
    \A t \in WinRanks :
       (Enabled(t) /\ writer[t] = "store") =>
         mirror[t] = current[t] \/ (used[t] = "write" /\ wpc[t] = "epoch")

WindowInv ==
  /\ WindowTypes /\ ValuesWritten /\ ModesApart /\ LocksExclude /\ FencesInStep
  /\ PutsUnderWay /\ CopiesCurrent /\ StoresMirrored /\ GetIsCurrent

\* The steps that write, read, fence and lock, by rank.
WinStep(r, t) ==
  \/ PutArrives \/ WinStore(r) \/ FenceEnter(r) \/ FenceLeave(r) \/ FencePost(r)
  \/ MPI_Put(r, t) \/ MPI_Get(r, t)
  \/ MPI_Win_lock(r, t, "exclusive") \/ MPI_Win_lock(r, t, "shared")
  \/ MPI_Win_flush(r) \/ UnlockSync(r) \/ UnlockDone(r)

\* cxl_sync_mirror makes the owner's mirror its buffer, and marks it when a put
\* to it is still under way.
LEMMA SyncEffect ==
  ASSUME WindowTypes, NEW r \in WinRanks, Sync(r)
  PROVE  /\ mirror' \in [WinRanks -> Nat] /\ late' \in [WinRanks -> BOOLEAN]
         /\ \A u \in WinRanks : u # r => mirror'[u] = mirror[u] /\ late'[u] = late[u]
         /\ mirror'[r] = IF r \in Mirrored THEN local_base[r] ELSE mirror[r]
         /\ (r \in Mirrored /\ ~late'[r]) => \A p \in outstanding : p.target # r
<1>1. /\ mirror \in [WinRanks -> Nat] /\ late \in [WinRanks -> BOOLEAN]
      /\ local_base \in [WinRanks -> Nat]
  BY Zenon DEF WindowTypes
<1>2. /\ mirror' \in [WinRanks -> Nat]
      /\ \A u \in WinRanks : u # r => mirror'[u] = mirror[u]
      /\ mirror'[r] = IF r \in Mirrored THEN local_base[r] ELSE mirror[r]
  <2>1. mirror' = IF r \in Mirrored THEN [mirror EXCEPT ![r] = local_base[r]] ELSE mirror
    BY Zenon DEF Sync
  <2> QED BY <1>1, <2>1, Zenon
<1>3. late' = [late EXCEPT ![r] = r \in Mirrored /\ To(r) # {}]
  BY Zenon DEF Sync
<1>4. /\ late' \in [WinRanks -> BOOLEAN]
      /\ late'[r] <=> (r \in Mirrored /\ To(r) # {})
      /\ \A u \in WinRanks : u # r => late'[u] = late[u]
  BY <1>1, <1>3, Zenon
<1>5. To(r) = {} => \A p \in outstanding : p.target # r
  BY Zenon DEF To
<1> QED BY <1>2, <1>4, <1>5, Zenon

\* Types are kept by the steps that write and read.
LEMMA AccessTypes ==
  ASSUME WindowTypes, NEW r \in WinRanks, NEW t \in WinRanks,
         PutArrives \/ WinStore(r) \/ MPI_Put(r, t) \/ MPI_Get(r, t)
  PROVE  WindowTypes'
<1>1. CASE PutArrives
  BY <1>1, Zenon DEF PutArrives, WindowTypes, Puts
<1>2. CASE WinStore(r)
  <2>1. late' = [late EXCEPT ![r] = TRUE]
    BY <1>2, Zenon DEF WinStore
  <2>2. late' \in [WinRanks -> BOOLEAN]
    BY <2>1, Zenon DEF WindowTypes
  <2> QED BY <1>2, <2>2 DEF WinStore, WindowTypes, Written
<1>3. CASE MPI_Put(r, t)
  <2>1. late' = [late EXCEPT ![t] = ~Direct(r, t)]
    BY <1>3, Zenon DEF MPI_Put
  <2>2. late' \in [WinRanks -> BOOLEAN]
    BY <2>1, Zenon DEF WindowTypes
  <2>3. mirror' \in [WinRanks -> Nat]
    <3>1. mirror' = IF Direct(r, t) THEN [mirror EXCEPT ![t] = writes + 1] ELSE mirror
      BY <1>3, Zenon DEF MPI_Put
    <3> HIDE DEF Direct
    <3> QED BY <3>1 DEF WindowTypes
  <2>4. outstanding' \in SUBSET Puts
    BY <1>3 DEF MPI_Put, WindowTypes, Puts
  <2>5. /\ used' = [used EXCEPT ![t] = "write"] /\ writes' = writes + 1
        /\ current' = [current EXCEPT ![t] = writes + 1]
        /\ writer' = [writer EXCEPT ![t] = "put"]
        /\ UNCHANGED <<sync_mode, local_base, wpc, fences, held>>
    BY <1>3, Zenon DEF MPI_Put, Written
  <2> QED BY <2>2, <2>3, <2>4, <2>5 DEF WindowTypes
<1>4. CASE MPI_Get(r, t)
  BY <1>4, Zenon DEF MPI_Get, WindowTypes
<1> QED BY <1>1, <1>2, <1>3, <1>4, Zenon

\* Types are kept by the fence.
LEMMA FenceTypes ==
  ASSUME WindowTypes, NEW r \in WinRanks, FenceEnter(r) \/ FenceLeave(r) \/ FencePost(r)
  PROVE  WindowTypes'
<1>1. CASE FenceEnter(r) \/ FencePost(r)
  <2>1. /\ UNCHANGED <<sync_mode, local_base, outstanding, fences, held, used, writes, current, writer>>
        /\ wpc' \in [WinRanks -> WinLabels]
    BY <1>1, Zenon DEF FenceEnter, FencePost, WindowTypes, WinLabels
  <2>2. Sync(r) \/ NoSync
    BY <1>1, Zenon DEF FenceEnter, FencePost
  <2>3. mirror' \in [WinRanks -> Nat] /\ late' \in [WinRanks -> BOOLEAN]
    <3>1. CASE Sync(r)
      BY <3>1, SyncEffect, Zenon
    <3>2. CASE NoSync
      BY <3>2, Zenon DEF NoSync, WindowTypes
    <3> QED BY <2>2, <3>1, <3>2, Zenon
  <2> QED BY <2>1, <2>3, Zenon DEF WindowTypes
<1>2. CASE FenceLeave(r)
  <2>1. /\ UNCHANGED <<sync_mode, local_base, mirror, outstanding, held, writes, current, writer, late>>
        /\ wpc' = [wpc EXCEPT ![r] = "left"] /\ fences' = [fences EXCEPT ![r] = @ + 1]
        /\ used' = [u \in WinRanks |-> "no"] \/ used' = used
    BY <1>2, Zenon DEF FenceLeave
  <2>2. used' \in [WinRanks -> {"no", "read", "write"}]
    BY <2>1, Zenon DEF WindowTypes
  <2>3. wpc' \in [WinRanks -> WinLabels] /\ fences' \in [WinRanks -> Nat]
    BY <2>1 DEF WindowTypes, WinLabels
  <2> QED BY <2>1, <2>2, <2>3, Zenon DEF WindowTypes
<1> QED BY <1>1, <1>2, Zenon

\* Types are kept by the locks.
LEMMA LockTypes ==
  ASSUME WindowTypes, NEW r \in WinRanks, NEW t \in WinRanks,
         \/ MPI_Win_lock(r, t, "exclusive") \/ MPI_Win_lock(r, t, "shared")
         \/ MPI_Win_flush(r) \/ UnlockSync(r) \/ UnlockDone(r)
  PROVE  WindowTypes'
<1>1. \A o \in WinRanks : held[o] # Unlocked => held[o][1] \in WinRanks
  BY Zenon DEF WindowTypes, Locks
<1>2. ASSUME Sync(r) PROVE mirror' \in [WinRanks -> Nat] /\ late' \in [WinRanks -> BOOLEAN]
  BY <1>2, SyncEffect, Zenon
<1>3. ASSUME NEW how \in {"exclusive", "shared"}, MPI_Win_lock(r, t, how)
      PROVE  WindowTypes'
  <2>1. <<t, how>> \in Locks
    BY Zenon DEF Locks
  <2>2. /\ held' = [held EXCEPT ![r] = <<t, how>>] /\ Sync(r)
        /\ UNCHANGED <<sync_mode, local_base, outstanding, wpc, fences, used, writes, current, writer>>
    BY <1>3, Zenon DEF MPI_Win_lock
  <2>3. held' \in [WinRanks -> Locks]
    BY <2>1, <2>2, Zenon DEF WindowTypes
  <2> QED BY <1>2, <2>2, <2>3, Zenon DEF WindowTypes
<1>4. CASE MPI_Win_flush(r)
  <2>1. /\ used' = IF held[r][2] = "exclusive" THEN [used EXCEPT ![held[r][1]] = "no"] ELSE used
        /\ Sync(r)
        /\ UNCHANGED <<sync_mode, local_base, outstanding, wpc, fences, held, writes, current, writer>>
    BY <1>4, Zenon DEF MPI_Win_flush
  <2>2. used' \in [WinRanks -> {"no", "read", "write"}]
    BY <2>1, Zenon DEF WindowTypes
  <2> QED BY <1>2, <2>1, <2>2, Zenon DEF WindowTypes
<1>5. CASE UnlockSync(r)
  <2>1. /\ wpc' = [wpc EXCEPT ![r] = "unlock"] /\ Sync(r)
        /\ UNCHANGED <<sync_mode, local_base, outstanding, fences, held, used, writes, current, writer>>
    BY <1>5, Zenon DEF UnlockSync
  <2> QED BY <1>2, <2>1, Zenon DEF WindowTypes, WinLabels
<1>6. CASE UnlockDone(r)
  <2>1. /\ wpc' = [wpc EXCEPT ![r] = "epoch"] /\ held' = [held EXCEPT ![r] = Unlocked]
        /\ used' = [used EXCEPT ![held[r][1]] = "no"] \/ used' = used
        /\ UNCHANGED <<sync_mode, local_base, mirror, outstanding, fences, writes, current, writer, late>>
    BY <1>6, Zenon DEF UnlockDone
  <2>2. used' \in [WinRanks -> {"no", "read", "write"}]
    BY <2>1, Zenon DEF WindowTypes
  <2>3. held' \in [WinRanks -> Locks]
    BY <2>1, Zenon DEF WindowTypes, Locks
  <2> QED BY <2>1, <2>2, <2>3, Zenon DEF WindowTypes, WinLabels
<1> QED BY <1>3, <1>4, <1>5, <1>6, Zenon

\* Every copy still has the value of a write that was made.
LEMMA ValuesStay ==
  ASSUME WindowInv, NEW r \in WinRanks, NEW t \in WinRanks, WinStep(r, t)
  PROVE  ValuesWritten'
<1>1. WindowTypes /\ ValuesWritten
  BY Zenon DEF WindowInv
<1>2. ASSUME Sync(r) \/ NoSync, UNCHANGED <<local_base, outstanding, writes>>
      PROVE  ValuesWritten'
  <2>1. CASE Sync(r)
    <3>1. /\ \A u \in WinRanks : u # r => mirror'[u] = mirror[u]
          /\ mirror'[r] \in {local_base[r], mirror[r]}
      BY <1>1, <2>1, SyncEffect, Zenon
    <3>2. \A u \in WinRanks : mirror'[u] <= writes
      BY <1>1, <3>1, Zenon DEF ValuesWritten
    <3> QED BY <1>1, <1>2, <3>2, Zenon DEF ValuesWritten
  <2>2. CASE NoSync
    BY <1>1, <1>2, <2>2, Zenon DEF ValuesWritten, NoSync
  <2> QED BY <1>2, <2>1, <2>2, Zenon
<1>3. ASSUME UNCHANGED <<local_base, mirror, outstanding, writes>> PROVE ValuesWritten'
  BY <1>1, <1>3, Zenon DEF ValuesWritten
<1>4. CASE PutArrives
  BY <1>1, <1>4 DEF PutArrives, ValuesWritten, WindowTypes, Puts
<1>5. CASE WinStore(r)
  BY <1>1, <1>5 DEF WinStore, Written, ValuesWritten, WindowTypes, Puts
<1>6. CASE MPI_Put(r, t)
  <2>1. /\ writes' = writes + 1 /\ local_base' = local_base
        /\ mirror' = [mirror EXCEPT ![t] = writes + 1] \/ mirror' = mirror
        /\ outstanding' = outstanding \cup {[origin |-> r, target |-> t, value |-> writes + 1]}
    BY <1>6, Zenon DEF MPI_Put, Written
  <2> QED BY <1>1, <2>1 DEF ValuesWritten, WindowTypes, Puts
<1>7. CASE FenceLeave(r) \/ MPI_Get(r, t) \/ UnlockDone(r)
  BY <1>3, <1>7, Zenon DEF FenceLeave, MPI_Get, UnlockDone
<1>8. CASE \/ FenceEnter(r) \/ FencePost(r)
           \/ MPI_Win_lock(r, t, "exclusive") \/ MPI_Win_lock(r, t, "shared")
           \/ MPI_Win_flush(r) \/ UnlockSync(r)
  BY <1>2, <1>8, Zenon DEF FenceEnter, FencePost, MPI_Win_lock, MPI_Win_flush, UnlockSync
<1> QED BY <1>4, <1>5, <1>6, <1>7, <1>8, Zenon DEF WinStep

\* Fencing programs hold no lock and locking ones are in no fence; an
\* exclusive lock excludes the others; ranks are at most one fence apart.
LEMMA OrderStays ==
  ASSUME WindowInv, NEW r \in WinRanks, NEW t \in WinRanks, WinStep(r, t)
  PROVE  ModesApart' /\ LocksExclude' /\ FencesInStep'
<1>1. WindowTypes /\ ModesApart /\ LocksExclude /\ FencesInStep
  BY Zenon DEF WindowInv
<1>2. ASSUME UNCHANGED <<sync_mode, held, wpc, fences>>
      PROVE  ModesApart' /\ LocksExclude' /\ FencesInStep'
  BY <1>1, <1>2, Zenon DEF ModesApart, LocksExclude, FencesInStep
<1>3. CASE PutArrives \/ WinStore(r) \/ MPI_Put(r, t) \/ MPI_Get(r, t) \/ MPI_Win_flush(r)
  BY <1>2, <1>3, Zenon DEF PutArrives, WinStore, MPI_Put, MPI_Get, MPI_Win_flush
<1>4. CASE FenceEnter(r)
  <2>1. /\ sync_mode = "fence" /\ wpc[r] = "epoch" /\ wpc' = [wpc EXCEPT ![r] = "fence"]
        /\ UNCHANGED <<sync_mode, held, fences>>
    BY <1>4, Zenon DEF FenceEnter
  <2> QED BY <1>1, <2>1 DEF ModesApart, LocksExclude, FencesInStep, WindowTypes
<1>5. CASE FenceLeave(r)
  <2>1. /\ wpc[r] = "fence" /\ wpc' = [wpc EXCEPT ![r] = "left"]
        /\ fences' = [fences EXCEPT ![r] = @ + 1] /\ UNCHANGED <<sync_mode, held>>
        /\ \/ \A q \in WinRanks : wpc[q] = "fence" /\ fences[q] = fences[r]
           \/ \E q \in WinRanks : fences[q] > fences[r]
    BY <1>5, Zenon DEF FenceLeave
  <2>2. ModesApart' /\ LocksExclude'
    BY <1>1, <2>1, Zenon DEF ModesApart, LocksExclude, WindowTypes
  <2>3. ASSUME NEW p \in WinRanks, NEW q \in WinRanks, fences'[p] > fences'[q]
        PROVE  fences'[p] = fences'[q] + 1 /\ wpc'[q] = "fence"
    <3>1. fences \in [WinRanks -> Nat]
      BY <1>1, Zenon DEF WindowTypes
    <3>2. CASE \A u \in WinRanks : wpc[u] = "fence" /\ fences[u] = fences[r]
      BY <1>1, <2>1, <2>3, <3>1, <3>2 DEF WindowTypes
    <3>3. CASE \E u \in WinRanks : fences[u] > fences[r]
      <4>1. PICK u \in WinRanks : fences[u] > fences[r]
        BY <3>3, Zenon
      <4>2. fences[u] = fences[r] + 1
        BY <1>1, <4>1, Zenon DEF FencesInStep
      <4>3. CASE p = r
        <5>1. q # r /\ fences'[p] = fences[u] /\ fences'[q] = fences[q]
          BY <2>1, <2>3, <3>1, <4>2, <4>3
        <5>2. fences[u] = fences[q] + 1 /\ wpc[q] = "fence"
          BY <1>1, <2>3, <5>1, Zenon DEF FencesInStep
        <5> QED BY <1>1, <2>1, <5>1, <5>2, Zenon DEF WindowTypes
      <4>4. CASE p # r /\ q = r
        <5>1. fences'[p] = fences[p] /\ fences'[q] = fences[r] + 1
          BY <2>1, <3>1, <4>4, Zenon
        <5>2. fences[p] > fences[r]
          BY <2>3, <3>1, <5>1
        <5>3. fences[p] = fences[r] + 1
          BY <1>1, <5>2, Zenon DEF FencesInStep
        <5> QED BY <2>3, <3>1, <5>1, <5>3
      <4>5. CASE p # r /\ q # r
        BY <1>1, <2>1, <2>3, <3>1, <4>5 DEF FencesInStep, WindowTypes
      <4> QED BY <4>3, <4>4, <4>5, Zenon
    <3> QED BY <2>1, <3>2, <3>3, Zenon
  <2> QED BY <2>2, <2>3, Zenon DEF FencesInStep
<1>6. CASE FencePost(r)
  <2>1. /\ wpc[r] = "left" /\ wpc' = [wpc EXCEPT ![r] = "epoch"]
        /\ UNCHANGED <<sync_mode, held, fences>>
    BY <1>6, Zenon DEF FencePost
  <2> QED BY <1>1, <2>1 DEF ModesApart, LocksExclude, FencesInStep, WindowTypes
<1>7. ASSUME NEW how \in {"exclusive", "shared"}, MPI_Win_lock(r, t, how)
      PROVE  ModesApart' /\ LocksExclude' /\ FencesInStep'
  <2>1. /\ sync_mode = "lock" /\ wpc[r] = "epoch" /\ held[r] = Unlocked
        /\ held' = [held EXCEPT ![r] = <<t, how>>]
        /\ UNCHANGED <<sync_mode, wpc, fences>>
        /\ \A q \in WinRanks : ~ Excludes(how, q, t)
    BY <1>7, Zenon DEF MPI_Win_lock
  <2>2. held'[r] = <<t, how>> /\ \A q \in WinRanks : q # r => held'[q] = held[q]
    BY <1>1, <2>1, Zenon DEF WindowTypes
  <2>3. <<t, how>> # Unlocked
    BY Zenon DEF Unlocked
  <2>4. ModesApart'
    BY <1>1, <2>1, <2>2, <2>3, Zenon DEF ModesApart
  <2>5. FencesInStep'
    BY <1>1, <2>1, Zenon DEF FencesInStep
  <2>6. ASSUME NEW p \in WinRanks, NEW q \in WinRanks, p # q, held'[p] # Unlocked,
               held'[q] # Unlocked, held'[p][1] = held'[q][1]
        PROVE  held'[p][2] = "shared"
    <3>1. CASE p = r
      <4>1. held[q] # Unlocked /\ held[q][1] = t
        BY <2>2, <2>6, <3>1
      <4>2. how # "exclusive"
        BY <2>1, <4>1, Zenon DEF Excludes
      <4> QED BY <2>2, <3>1, <4>2
    <3>2. CASE q = r
      <4>1. held[p] # Unlocked /\ held[p][1] = t /\ held'[p] = held[p]
        BY <2>2, <2>6, <3>2
      <4>2. held[p][2] # "exclusive"
        BY <2>1, <4>1, Zenon DEF Excludes
      <4>3. held[p][2] \in {"exclusive", "shared"}
        BY <1>1, <4>1, Zenon DEF WindowTypes, Locks
      <4> QED BY <4>1, <4>2, <4>3, Zenon
    <3>3. CASE p # r /\ q # r
      BY <1>1, <2>2, <2>6, <3>3, Zenon DEF LocksExclude
    <3> QED BY <3>1, <3>2, <3>3, Zenon
  <2> QED BY <2>4, <2>5, <2>6, Zenon DEF LocksExclude
<1>8. CASE UnlockSync(r)
  <2>1. /\ wpc[r] = "epoch" /\ held[r] # Unlocked /\ wpc' = [wpc EXCEPT ![r] = "unlock"]
        /\ UNCHANGED <<sync_mode, held, fences>>
    BY <1>8, Zenon DEF UnlockSync
  <2> QED BY <1>1, <2>1 DEF ModesApart, LocksExclude, FencesInStep, WindowTypes
<1>9. CASE UnlockDone(r)
  <2>1. /\ wpc[r] = "unlock" /\ wpc' = [wpc EXCEPT ![r] = "epoch"]
        /\ held' = [held EXCEPT ![r] = Unlocked]
        /\ UNCHANGED <<sync_mode, fences>>
    BY <1>9, Zenon DEF UnlockDone
  <2>2. /\ held'[r] = Unlocked /\ wpc'[r] = "epoch"
        /\ \A q \in WinRanks : q # r => held'[q] = held[q] /\ wpc'[q] = wpc[q]
    BY <1>1, <2>1, Zenon DEF WindowTypes
  <2>3. ModesApart'
    BY <1>1, <2>1, <2>2, Zenon DEF ModesApart
  <2>4. LocksExclude'
    BY <1>1, <2>2 DEF LocksExclude
  <2>5. FencesInStep'
    BY <1>1, <2>1, <2>2, Zenon DEF FencesInStep
  <2> QED BY <2>3, <2>4, <2>5, Zenon
<1> QED BY <1>3, <1>4, <1>5, <1>6, <1>7, <1>8, <1>9, Zenon DEF WinStep

\* A put under way stays the last write of its location: MPI_Win_fence and the
\* locks of MPI wait for it before anyone may access the location again.
LEMMA PutsStay ==
  ASSUME WindowInv, NEW r \in WinRanks, NEW t \in WinRanks, WinStep(r, t)
  PROVE  PutsUnderWay'
<1>1. WindowTypes /\ ModesApart /\ LocksExclude /\ FencesInStep /\ PutsUnderWay
  BY Zenon DEF WindowInv
<1>2. /\ wpc \in [WinRanks -> WinLabels] /\ fences \in [WinRanks -> Nat]
      /\ held \in [WinRanks -> Locks] /\ used \in [WinRanks -> {"no", "read", "write"}]
      /\ outstanding \subseteq Puts /\ current \in [WinRanks -> Nat] /\ writes \in Nat
      /\ writer \in [WinRanks -> {"none", "store", "put"}]
  BY <1>1, Zenon DEF WindowTypes
<1>3. \A p \in outstanding : p.origin \in WinRanks /\ p.target \in WinRanks
  BY <1>2, Zenon DEF Puts
<1>4. ASSUME outstanding' \subseteq outstanding,
             UNCHANGED <<sync_mode, current, writer, used, wpc, fences, held>>
      PROVE  PutsUnderWay'
  BY <1>1, <1>4, Zenon DEF PutsUnderWay
<1>5. ASSUME used[t] # "write" PROVE \A p \in outstanding : p.target # t
  BY <1>1, <1>5, Zenon DEF PutsUnderWay
<1>6. CASE PutArrives
  BY <1>4, <1>6, Zenon DEF PutArrives
<1>7. CASE WinStore(r)
  <2>1. /\ used[r] = "no" /\ current' = [current EXCEPT ![r] = writes + 1]
        /\ writer' = [writer EXCEPT ![r] = "store"] /\ used' = [used EXCEPT ![r] = "write"]
        /\ UNCHANGED <<sync_mode, outstanding, wpc, fences, held>>
    BY <1>7, Zenon DEF WinStore, MayWrite, Written
  <2>2. \A p \in outstanding : p.target # r
    BY <1>1, <2>1, Zenon DEF PutsUnderWay
  <2>3. \A u \in WinRanks : u # r => current'[u] = current[u] /\ writer'[u] = writer[u] /\ used'[u] = used[u]
    BY <1>2, <2>1, Zenon
  <2>4. \A p \in outstanding : /\ current'[p.target] = current[p.target]
                               /\ writer'[p.target] = writer[p.target]
                               /\ used'[p.target] = used[p.target]
    BY <1>3, <2>2, <2>3, Zenon
  <2> QED BY <1>1, <2>1, <2>4 DEF PutsUnderWay
<1>8. CASE MPI_Put(r, t)
  <2> DEFINE n == [origin |-> r, target |-> t, value |-> writes + 1]
  <2>1. /\ used[t] = "no" /\ wpc[r] = "epoch"
        /\ sync_mode = "lock" => held[r] = <<t, "exclusive">>
        /\ current' = [current EXCEPT ![t] = writes + 1]
        /\ writer' = [writer EXCEPT ![t] = "put"] /\ used' = [used EXCEPT ![t] = "write"]
        /\ outstanding' = outstanding \cup {n}
        /\ UNCHANGED <<sync_mode, wpc, fences, held>>
    BY <1>8, Zenon DEF MPI_Put, MayWrite, Written
  <2>2. \A p \in outstanding : p.target # t
    BY <1>1, <2>1, Zenon DEF PutsUnderWay
  <2>3. \A u \in WinRanks : u # t => current'[u] = current[u] /\ writer'[u] = writer[u] /\ used'[u] = used[u]
    BY <1>2, <2>1, Zenon
  <2>4. \A p \in outstanding : /\ current'[p.target] = current[p.target]
                               /\ writer'[p.target] = writer[p.target]
                               /\ used'[p.target] = used[p.target]
    BY <1>3, <2>2, <2>3, Zenon
  <2>5. \A q \in WinRanks : fences[q] <= fences[r]
    BY <1>1, <1>2, <2>1 DEF FencesInStep
  <2>6. n.origin = r /\ n.target = t /\ n.value = writes + 1
    OBVIOUS
  <2>7. current'[t] = writes + 1 /\ writer'[t] = "put" /\ used'[t] = "write"
    BY <1>2, <2>1, Zenon
  <2> HIDE DEF n
  <2>8. ASSUME NEW p \in outstanding'
        PROVE  /\ p.value = current'[p.target] /\ writer'[p.target] = "put"
               /\ used'[p.target] = "write"
               /\ wpc'[p.origin] # "left"
               /\ \A q \in WinRanks : fences'[q] <= fences'[p.origin]
               /\ sync_mode' = "lock" => held'[p.origin] = <<p.target, "exclusive">>
    <3>1. CASE p = n
      BY <2>1, <2>5, <2>6, <2>7, <3>1, Zenon
    <3>2. CASE p \in outstanding
      BY <1>1, <2>1, <2>4, <3>2, Zenon DEF PutsUnderWay
    <3> QED BY <2>1, <3>1, <3>2, Zenon
  <2>9. \A p, q \in outstanding' : q.target = p.target => q = p
    BY <1>1, <2>1, <2>2, <2>6, Zenon DEF PutsUnderWay
  <2> QED BY <2>8, <2>9, Zenon DEF PutsUnderWay
<1>9. CASE MPI_Get(r, t)
  <2>1. /\ used[t] # "write" /\ used' = [used EXCEPT ![t] = "read"]
        /\ UNCHANGED <<sync_mode, current, writer, wpc, fences, held, outstanding>>
    BY <1>9, Zenon DEF MPI_Get, MayRead
  <2>2. \A p \in outstanding : used'[p.target] = used[p.target]
    BY <1>2, <1>3, <1>5, <2>1, Zenon
  <2> QED BY <1>1, <2>1, <2>2, Zenon DEF PutsUnderWay
<1>10. CASE FenceEnter(r) \/ FencePost(r)
  <2>1. /\ wpc' = [wpc EXCEPT ![r] = "fence"] \/ wpc' = [wpc EXCEPT ![r] = "epoch"]
        /\ UNCHANGED <<sync_mode, current, writer, used, fences, held, outstanding>>
    BY <1>10, Zenon DEF FenceEnter, FencePost
  <2>2. \A p \in outstanding : wpc'[p.origin] # "left"
    BY <1>1, <1>2, <1>3, <2>1, Zenon DEF PutsUnderWay
  <2> QED BY <1>1, <2>1, <2>2, Zenon DEF PutsUnderWay
<1>11. CASE FenceLeave(r)
  <2>1. /\ wpc' = [wpc EXCEPT ![r] = "left"] /\ fences' = [fences EXCEPT ![r] = @ + 1]
        /\ UNCHANGED <<sync_mode, current, writer, held, outstanding>>
        /\ \/ outstanding = {}
           \/ (\E q \in WinRanks : fences[q] > fences[r]) /\ used' = used
    BY <1>11, Zenon DEF FenceLeave
  <2>2. CASE outstanding = {}
    BY <2>1, <2>2, Zenon DEF PutsUnderWay
  <2>3. CASE (\E q \in WinRanks : fences[q] > fences[r]) /\ used' = used
    <3>1. PICK q \in WinRanks : fences[q] > fences[r]
      BY <2>3, Zenon
    <3>2. fences[q] = fences[r] + 1
      BY <1>1, <3>1, Zenon DEF FencesInStep
    <3>3. ASSUME NEW p \in outstanding
          PROVE  /\ wpc'[p.origin] # "left"
                 /\ \A u \in WinRanks : fences'[u] <= fences'[p.origin]
      <4>1. /\ wpc[p.origin] # "left" /\ p.origin \in WinRanks
            /\ \A u \in WinRanks : fences[u] <= fences[p.origin]
        BY <1>1, <1>3, Zenon DEF PutsUnderWay
      <4>2. p.origin # r
        BY <1>2, <3>1, <4>1
      <4>3. wpc'[p.origin] = wpc[p.origin] /\ fences'[p.origin] = fences[p.origin]
        BY <1>2, <2>1, <4>1, <4>2, Zenon
      <4>4. \A u \in WinRanks : fences'[u] = fences[u] \/ fences'[u] = fences[q]
        BY <1>2, <2>1, <3>2, Zenon
      <4> QED BY <4>1, <4>3, <4>4, Zenon
    <3> QED BY <1>1, <2>1, <2>3, <3>3, Zenon DEF PutsUnderWay
  <2> QED BY <2>1, <2>2, <2>3, Zenon
<1>12. ASSUME NEW how \in {"exclusive", "shared"}, MPI_Win_lock(r, t, how)
       PROVE  PutsUnderWay'
  <2>1. /\ sync_mode = "lock" /\ held[r] = Unlocked /\ held' = [held EXCEPT ![r] = <<t, how>>]
        /\ UNCHANGED <<sync_mode, current, writer, used, wpc, fences, outstanding>>
    BY <1>12, Zenon DEF MPI_Win_lock
  <2>2. ASSUME NEW p \in outstanding PROVE held'[p.origin] = held[p.origin]
    <3>1. held[p.origin] = <<p.target, "exclusive">>
      BY <1>1, <2>1, Zenon DEF PutsUnderWay
    <3>2. p.origin # r
      <4>1. <<p.target, "exclusive">> # <<>>
        OBVIOUS
      <4> QED BY <2>1, <3>1, <4>1, Zenon DEF Unlocked
    <3> QED BY <1>2, <1>3, <2>1, <3>2, Zenon
  <2> QED BY <1>1, <2>1, <2>2, Zenon DEF PutsUnderWay
<1>13. CASE MPI_Win_flush(r)
  <2>1. /\ held[r] # Unlocked /\ From(r) = {}
        /\ used' = IF held[r][2] = "exclusive" THEN [used EXCEPT ![held[r][1]] = "no"] ELSE used
        /\ UNCHANGED <<sync_mode, current, writer, wpc, fences, held, outstanding>>
    BY <1>13, Zenon DEF MPI_Win_flush
  <2>2. ASSUME NEW p \in outstanding PROVE used'[p.target] = used[p.target]
    <3>1. p.origin # r
      BY <2>1, Zenon DEF From
    <3>2. sync_mode = "lock"
      BY <1>1, <2>1, Zenon DEF ModesApart, WindowTypes
    <3>3. held[p.origin] = <<p.target, "exclusive">>
      BY <1>1, <3>2, Zenon DEF PutsUnderWay
    <3>4. held[p.origin] # Unlocked /\ held[p.origin][1] = p.target
      BY <3>3 DEF Unlocked
    <3>5. CASE held[r][2] = "exclusive"
      <4>1. held[r][1] # p.target
        BY <1>1, <1>3, <2>1, <3>1, <3>4, <3>5, Zenon DEF LocksExclude
      <4> QED BY <1>2, <1>3, <2>1, <3>5, <4>1, Zenon
    <3>6. CASE held[r][2] # "exclusive"
      BY <2>1, <3>6, Zenon
    <3> QED BY <3>5, <3>6, Zenon
  <2> QED BY <1>1, <2>1, <2>2, Zenon DEF PutsUnderWay
<1>14. CASE UnlockSync(r)
  <2>1. /\ wpc' = [wpc EXCEPT ![r] = "unlock"]
        /\ UNCHANGED <<sync_mode, current, writer, used, fences, held, outstanding>>
    BY <1>14, Zenon DEF UnlockSync
  <2>2. \A p \in outstanding : wpc'[p.origin] # "left"
    BY <1>1, <1>2, <1>3, <2>1, Zenon DEF PutsUnderWay
  <2> QED BY <1>1, <2>1, <2>2, Zenon DEF PutsUnderWay
<1>15. CASE UnlockDone(r)
  <2>1. /\ wpc[r] = "unlock" /\ From(r) = {}
        /\ wpc' = [wpc EXCEPT ![r] = "epoch"] /\ held' = [held EXCEPT ![r] = Unlocked]
        /\ used' = IF \E q \in WinRanks \ {r} : held[q] # Unlocked /\ held[q][1] = held[r][1]
                   THEN used ELSE [used EXCEPT ![held[r][1]] = "no"]
        /\ UNCHANGED <<sync_mode, current, writer, fences, outstanding>>
    BY <1>15, Zenon DEF UnlockDone
  <2>2. ASSUME NEW p \in outstanding
        PROVE  /\ used'[p.target] = used[p.target] /\ held'[p.origin] = held[p.origin]
               /\ wpc'[p.origin] # "left"
    <3>1. p.origin # r
      BY <2>1, Zenon DEF From
    <3>2. sync_mode = "lock"
      BY <1>1, <2>1, Zenon DEF ModesApart, WindowTypes
    <3>3. held[p.origin] = <<p.target, "exclusive">> /\ wpc[p.origin] # "left"
      BY <1>1, <3>2, Zenon DEF PutsUnderWay
    <3>4. held[p.origin] # Unlocked /\ held[p.origin][1] = p.target
      BY <3>3 DEF Unlocked
    <3>5. CASE held[r][1] = p.target
      <4>1. \E q \in WinRanks \ {r} : held[q] # Unlocked /\ held[q][1] = held[r][1]
        BY <1>3, <3>1, <3>4, <3>5, Zenon
      <4>2. used' = used
        BY <2>1, <4>1, Zenon
      <4> QED BY <1>2, <1>3, <2>1, <3>1, <3>3, <4>2, Zenon
    <3>6. CASE held[r][1] # p.target
      <4>1. used' = used \/ used' = [used EXCEPT ![held[r][1]] = "no"]
        BY <2>1, Zenon
      <4>2. used'[p.target] = used[p.target]
        BY <1>2, <1>3, <3>6, <4>1, Zenon
      <4> QED BY <1>2, <1>3, <2>1, <3>1, <3>3, <4>2, Zenon
    <3> QED BY <3>5, <3>6, Zenon
  <2> QED BY <1>1, <2>1, <2>2 DEF PutsUnderWay
<1> QED BY <1>6, <1>7, <1>8, <1>9, <1>10, <1>11, <1>12, <1>13, <1>14, <1>15, Zenon DEF WinStep

\* After cxl_sync_mirror, or none, the copies are as current as before, and the
\* mirror of r is current if no put to r is under way.
LEMMA SyncKeeps ==
  ASSUME WindowInv, NEW r \in WinRanks, Sync(r) \/ NoSync,
         UNCHANGED <<local_base, outstanding, current>>
  PROVE  /\ CopiesCurrent'
         /\ \A u \in WinRanks : u # r => mirror'[u] = mirror[u]
         /\ mirror[r] = current[r] /\ (\A p \in outstanding : p.target # r)
              => mirror'[r] = current[r]
         /\ Sync(r) /\ r \in Mirrored /\ (\A p \in outstanding : p.target # r)
              => mirror'[r] = current[r]
<1>1. WindowTypes /\ CopiesCurrent
  BY Zenon DEF WindowInv
<1>2. CASE Sync(r)
  <2>1. /\ \A u \in WinRanks : u # r => mirror'[u] = mirror[u] /\ late'[u] = late[u]
        /\ mirror'[r] = IF r \in Mirrored THEN local_base[r] ELSE mirror[r]
        /\ (r \in Mirrored /\ ~late'[r]) => \A p \in outstanding : p.target # r
    BY <1>1, <1>2, SyncEffect, Zenon
  <2>2. (\A p \in outstanding : p.target # r) => local_base[r] = current[r]
    BY <1>1, Zenon DEF CopiesCurrent
  <2>3. ASSUME NEW u \in WinRanks
        PROVE  /\ (\A p \in outstanding' : p.target # u) => local_base'[u] = current'[u]
               /\ (u \in Mirrored /\ ~late'[u]) => mirror'[u] = current'[u]
    <3>1. CASE u = r
      BY <2>1, <2>2, <3>1, Zenon
    <3>2. CASE u # r
      BY <1>1, <2>1, <3>2, Zenon DEF CopiesCurrent
    <3> QED BY <3>1, <3>2, Zenon
  <2>4. CopiesCurrent'
    BY <2>3, Zenon DEF CopiesCurrent
  <2> QED BY <2>1, <2>2, <2>4, Zenon
<1>3. CASE NoSync /\ ~ Sync(r)
  <2>1. UNCHANGED <<mirror, late>>
    BY <1>3, Zenon DEF NoSync
  <2> QED BY <1>1, <1>3, <2>1, Zenon DEF CopiesCurrent
<1> QED BY <1>2, <1>3, Zenon

\* The buffers lack only puts under way, and unmarked mirrors lack nothing.
LEMMA CopiesStay ==
  ASSUME WindowInv, NEW r \in WinRanks, NEW t \in WinRanks, WinStep(r, t)
  PROVE  CopiesCurrent'
<1>1. WindowTypes /\ CopiesCurrent /\ PutsUnderWay
  BY Zenon DEF WindowInv
<1>2. /\ local_base \in [WinRanks -> Nat] /\ mirror \in [WinRanks -> Nat]
      /\ current \in [WinRanks -> Nat] /\ outstanding \subseteq Puts
      /\ late \in [WinRanks -> BOOLEAN]
  BY <1>1, Zenon DEF WindowTypes
<1>3. CASE PutArrives
  <2>1. PICK p \in outstanding : /\ local_base' = [local_base EXCEPT ![p.target] = p.value]
                                 /\ outstanding' = outstanding \ {p}
    BY <1>3, Zenon DEF PutArrives
  <2>2. UNCHANGED <<mirror, late, current>>
    BY <1>3, Zenon DEF PutArrives
  <2>3. p.value = current[p.target] /\ p.target \in WinRanks
    BY <1>1, <1>2, Zenon DEF PutsUnderWay, Puts
  <2>4. ASSUME NEW u \in WinRanks, \A q \in outstanding' : q.target # u
        PROVE  local_base'[u] = current[u]
    <3>1. CASE u = p.target
      BY <1>2, <2>1, <2>3, <3>1, Zenon
    <3>2. CASE u # p.target
      <4>1. \A q \in outstanding : q.target # u
        BY <2>1, <2>4, <3>2, Zenon
      <4> QED BY <1>1, <1>2, <2>1, <3>2, <4>1, Zenon DEF CopiesCurrent
    <3> QED BY <3>1, <3>2, Zenon
  <2> QED BY <1>1, <2>2, <2>4, Zenon DEF CopiesCurrent
<1>4. CASE WinStore(r)
  <2>1. /\ local_base' = [local_base EXCEPT ![r] = writes + 1]
        /\ current' = [current EXCEPT ![r] = writes + 1]
        /\ late' = [late EXCEPT ![r] = TRUE]
        /\ UNCHANGED <<mirror, outstanding>>
    BY <1>4, Zenon DEF WinStore, Written
  <2>2. late'[r] /\ \A u \in WinRanks : u # r => late'[u] = late[u]
    BY <1>2, <2>1, Zenon
  <2>3. /\ local_base'[r] = current'[r]
        /\ \A u \in WinRanks : u # r => local_base'[u] = local_base[u] /\ current'[u] = current[u]
    BY <1>2, <2>1, Zenon
  <2>4. ASSUME NEW u \in WinRanks
        PROVE  /\ (\A p \in outstanding' : p.target # u) => local_base'[u] = current'[u]
               /\ (u \in Mirrored /\ ~late'[u]) => mirror'[u] = current'[u]
    <3>1. CASE u = r
      BY <2>2, <2>3, <3>1, Zenon
    <3>2. CASE u # r
      BY <1>1, <2>1, <2>2, <2>3, <3>2 DEF CopiesCurrent
    <3> QED BY <3>1, <3>2, Zenon
  <2> QED BY <2>4, Zenon DEF CopiesCurrent
<1>5. CASE MPI_Put(r, t)
  <2>1. /\ mirror' = IF Direct(r, t) THEN [mirror EXCEPT ![t] = writes + 1] ELSE mirror
        /\ late' = [late EXCEPT ![t] = ~Direct(r, t)]
        /\ current' = [current EXCEPT ![t] = writes + 1]
        /\ outstanding' = outstanding \cup {[origin |-> r, target |-> t, value |-> writes + 1]}
        /\ local_base' = local_base
    BY <1>5, Zenon DEF MPI_Put, Written
  <2>2. late'[t] = ~Direct(r, t) /\ \A u \in WinRanks : u # t => late'[u] = late[u]
    BY <1>2, <2>1, Zenon
  <2>3. /\ Direct(r, t) => mirror'[t] = current'[t]
        /\ \A u \in WinRanks : u # t => mirror'[u] = mirror[u] /\ current'[u] = current[u]
    BY <1>2, <2>1, Zenon
  <2>4. /\ \E p \in outstanding' : p.target = t
        /\ \A p \in outstanding : p \in outstanding'
    <3> DEFINE n == [origin |-> r, target |-> t, value |-> writes + 1]
    <3>1. n \in outstanding' /\ outstanding \subseteq outstanding'
      BY <2>1, Zenon
    <3>2. n.target = t
      OBVIOUS
    <3> HIDE DEF n
    <3> QED BY <3>1, <3>2, Zenon
  <2>5. ASSUME NEW u \in WinRanks
        PROVE  /\ (\A p \in outstanding' : p.target # u) => local_base'[u] = current'[u]
               /\ (u \in Mirrored /\ ~late'[u]) => mirror'[u] = current'[u]
    <3>1. CASE u = t
      BY <2>2, <2>3, <2>4, <3>1, Zenon
    <3>2. CASE u # t
      BY <1>1, <2>1, <2>2, <2>3, <2>4, <3>2 DEF CopiesCurrent
    <3> QED BY <3>1, <3>2, Zenon
  <2> QED BY <2>5, Zenon DEF CopiesCurrent
<1>6. CASE FenceLeave(r) \/ MPI_Get(r, t) \/ UnlockDone(r)
  <2>1. UNCHANGED <<local_base, mirror, late, current, outstanding>>
    BY <1>6, Zenon DEF FenceLeave, MPI_Get, UnlockDone
  <2> QED BY <1>1, <2>1, Zenon DEF CopiesCurrent
<1>7. CASE \/ FenceEnter(r) \/ FencePost(r)
           \/ MPI_Win_lock(r, t, "exclusive") \/ MPI_Win_lock(r, t, "shared")
           \/ MPI_Win_flush(r) \/ UnlockSync(r)
  <2>1. (Sync(r) \/ NoSync) /\ UNCHANGED <<local_base, outstanding, current>>
    BY <1>7, Zenon DEF FenceEnter, FencePost, MPI_Win_lock, MPI_Win_flush, UnlockSync
  <2> QED BY <2>1, SyncKeeps, Zenon
<1> QED BY <1>3, <1>4, <1>5, <1>6, <1>7, Zenon DEF WinStep

\* A rank that gets from a mirror shares the host with its owner, so the owner
\* refreshes the mirror at its fences.
LEMMA DirectEnabled ==
  ASSUME NEW o \in WinRanks, NEW t \in WinRanks, Direct(o, t)
  PROVE  Enabled(t) /\ t \in Mirrored
BY Zenon DEF Direct, Enabled

\* What the owner stored is in its mirror before it leaves the epoch.
LEMMA StoresStay ==
  ASSUME WindowInv, NEW r \in WinRanks, NEW t \in WinRanks, WinStep(r, t)
  PROVE  StoresMirrored'
<1>1. /\ WindowTypes /\ ModesApart /\ PutsUnderWay /\ StoresMirrored
  BY Zenon DEF WindowInv
<1>2. /\ mirror \in [WinRanks -> Nat] /\ current \in [WinRanks -> Nat]
      /\ writer \in [WinRanks -> {"none", "store", "put"}]
      /\ used \in [WinRanks -> {"no", "read", "write"}] /\ wpc \in [WinRanks -> WinLabels]
  BY <1>1, Zenon DEF WindowTypes
<1>3. sync_mode' = sync_mode
  BY Zenon DEF WinStep, PutArrives, WinStore, FenceEnter, FenceLeave, FencePost, MPI_Put, MPI_Get,
         MPI_Win_lock, MPI_Win_flush, UnlockSync, UnlockDone
<1> SUFFICES ASSUME sync_mode = "fence" PROVE StoresMirrored'
  BY <1>3, Zenon DEF StoresMirrored
<1>4. ASSUME NEW u \in WinRanks, Enabled(u), writer[u] = "store"
      PROVE  /\ mirror[u] = current[u] \/ (used[u] = "write" /\ wpc[u] = "epoch")
             /\ \A p \in outstanding : p.target # u
             /\ u \in Mirrored
  BY <1>1, <1>4, Zenon DEF StoresMirrored, PutsUnderWay, Enabled
<1>5. CASE PutArrives
  <2>1. UNCHANGED <<mirror, current, writer, used, wpc, sync_mode>>
    BY <1>5, Zenon DEF PutArrives
  <2> QED BY <1>1, <2>1, Zenon DEF StoresMirrored
<1>6. CASE WinStore(r)
  <2>1. /\ wpc[r] = "epoch" /\ used' = [used EXCEPT ![r] = "write"]
        /\ current' = [current EXCEPT ![r] = writes + 1]
        /\ writer' = [writer EXCEPT ![r] = "store"] /\ UNCHANGED <<mirror, wpc>>
    BY <1>6, Zenon DEF WinStore, Written, MayWrite
  <2> QED BY <1>1, <1>2, <2>1, Zenon DEF StoresMirrored
<1>7. CASE MPI_Put(r, t)
  <2>1. /\ mirror' = [mirror EXCEPT ![t] = writes + 1] \/ mirror' = mirror
        /\ used' = [used EXCEPT ![t] = "write"]
        /\ current' = [current EXCEPT ![t] = writes + 1]
        /\ writer' = [writer EXCEPT ![t] = "put"] /\ wpc' = wpc
    BY <1>7, Zenon DEF MPI_Put, Written
  <2>2. ASSUME NEW u \in WinRanks, Enabled(u), writer'[u] = "store"
        PROVE  mirror'[u] = current'[u] \/ (used'[u] = "write" /\ wpc'[u] = "epoch")
    <3>1. u # t
      BY <1>2, <2>1, <2>2, Zenon
    <3>2. /\ mirror'[u] = mirror[u] /\ current'[u] = current[u] /\ used'[u] = used[u]
          /\ writer'[u] = writer[u]
      BY <1>2, <2>1, <3>1, Zenon
    <3> QED BY <1>4, <2>1, <2>2, <3>2, Zenon
  <2> QED BY <2>2, Zenon DEF StoresMirrored
<1>8. CASE MPI_Get(r, t)
  <2>1. /\ used[t] # "write" /\ used' = [used EXCEPT ![t] = "read"]
        /\ UNCHANGED <<mirror, current, writer, wpc>>
    BY <1>8, Zenon DEF MPI_Get, MayRead
  <2>2. ASSUME NEW u \in WinRanks, used[u] = "write" PROVE used'[u] = "write"
    BY <1>2, <2>1, <2>2, Zenon
  <2> QED BY <1>4, <2>1, <2>2, Zenon DEF StoresMirrored
<1>9. CASE FenceEnter(r) \/ FencePost(r)
  <2>1. /\ wpc' = [wpc EXCEPT ![r] = "fence"] \/ wpc' = [wpc EXCEPT ![r] = "epoch"]
        /\ UNCHANGED <<local_base, outstanding, current, writer, used>>
        /\ IF Enabled(r) THEN Sync(r) ELSE NoSync
    BY <1>9, Zenon DEF FenceEnter, FencePost
  <2>2. /\ \A u \in WinRanks : u # r => mirror'[u] = mirror[u]
        /\ Sync(r) /\ r \in Mirrored /\ (\A p \in outstanding : p.target # r)
             => mirror'[r] = current[r]
    BY <2>1, SyncKeeps, Zenon
  <2>3. ASSUME NEW u \in WinRanks, Enabled(u), writer'[u] = "store"
        PROVE  mirror'[u] = current'[u] \/ (used'[u] = "write" /\ wpc'[u] = "epoch")
    <3>1. CASE u = r
      BY <1>4, <2>1, <2>2, <2>3, <3>1, Zenon
    <3>2. CASE u # r
      <4>1. wpc'[u] = wpc[u]
        BY <1>2, <2>1, <3>2, Zenon
      <4> QED BY <1>4, <2>1, <2>2, <2>3, <3>2, <4>1, Zenon
    <3> QED BY <3>1, <3>2, Zenon
  <2> QED BY <2>3, Zenon DEF StoresMirrored
<1>10. CASE FenceLeave(r)
  <2>1. /\ wpc[r] = "fence" /\ wpc' = [wpc EXCEPT ![r] = "left"]
        /\ UNCHANGED <<mirror, current, writer>>
        /\ used' = used \/ \A q \in WinRanks : wpc[q] = "fence"
    BY <1>10, Zenon DEF FenceLeave
  <2>2. ASSUME NEW u \in WinRanks, Enabled(u), writer'[u] = "store"
        PROVE  mirror'[u] = current'[u] \/ (used'[u] = "write" /\ wpc'[u] = "epoch")
    <3>1. CASE \A q \in WinRanks : wpc[q] = "fence"
      BY <1>4, <2>1, <2>2, <3>1, Zenon
    <3>2. CASE used' = used
      <4>1. u # r => wpc'[u] = wpc[u]
        BY <1>2, <2>1, Zenon
      <4> QED BY <1>4, <2>1, <2>2, <3>2, <4>1, Zenon
    <3> QED BY <2>1, <3>1, <3>2, Zenon
  <2> QED BY <2>2, Zenon DEF StoresMirrored
<1>11. CASE \/ MPI_Win_lock(r, t, "exclusive") \/ MPI_Win_lock(r, t, "shared")
            \/ MPI_Win_flush(r) \/ UnlockSync(r) \/ UnlockDone(r)
  <2>1. sync_mode = "lock" \/ held[r] # Unlocked \/ wpc[r] = "unlock"
    BY <1>11, Zenon DEF MPI_Win_lock, MPI_Win_flush, UnlockSync, UnlockDone
  <2> QED BY <1>1, <2>1, Zenon DEF ModesApart
<1> QED BY <1>5, <1>6, <1>7, <1>8, <1>9, <1>10, <1>11, Zenon DEF WinStep

\* A get returns the last value written, or reads a mirror that is marked.
LEMMA GetStays ==
  ASSUME WindowInv, NEW r \in WinRanks, NEW t \in WinRanks, WinStep(r, t)
  PROVE  GetIsCurrent'
<1>1. /\ WindowTypes /\ PutsUnderWay /\ CopiesCurrent /\ StoresMirrored /\ GetIsCurrent
  BY Zenon DEF WindowInv
<1>2. sync_mode' = sync_mode
  BY Zenon DEF WinStep, PutArrives, WinStore, FenceEnter, FenceLeave, FencePost, MPI_Put, MPI_Get,
         MPI_Win_lock, MPI_Win_flush, UnlockSync, UnlockDone
<1>3. CASE seen' = seen
  BY <1>1, <1>2, <1>3, Zenon DEF GetIsCurrent
<1>4. CASE MPI_Get(r, t)
  <2> DEFINE value == IF Direct(r, t) THEN mirror[t] ELSE local_base[t]
  <2>1. /\ used[t] # "write"
        /\ seen' = [right |-> value = current[t], late |-> Direct(r, t) /\ late[t],
                    writer |-> writer[t]]
    BY <1>4, Zenon DEF MPI_Get, MayRead
  <2>2. local_base[t] = current[t]
    BY <1>1, <2>1, Zenon DEF PutsUnderWay, CopiesCurrent
  <2>3. (Direct(r, t) /\ ~late[t]) => mirror[t] = current[t]
    BY <1>1, DirectEnabled, Zenon DEF CopiesCurrent
  <2>4. (Direct(r, t) /\ sync_mode = "fence" /\ writer[t] = "store") => mirror[t] = current[t]
    BY <1>1, <2>1, DirectEnabled, Zenon DEF StoresMirrored
  <2>5. ~(Direct(r, t) /\ late[t]) => value = current[t]
    BY <2>2, <2>3, Zenon
  <2>6. (sync_mode = "fence" /\ writer[t] = "store") => value = current[t]
    BY <2>2, <2>4, Zenon
  <2> HIDE DEF value
  <2>7. /\ seen'.right <=> (value = current[t])
        /\ seen'.late <=> (Direct(r, t) /\ late[t])
        /\ seen'.writer = writer[t]
    BY <2>1, Zenon
  <2> QED BY <1>2, <2>5, <2>6, <2>7, Zenon DEF GetIsCurrent
<1>5. seen' = seen \/ MPI_Get(r, t)
  BY Zenon DEF WinStep, PutArrives, WinStore, FenceEnter, FenceLeave, FencePost, MPI_Put,
         MPI_Win_lock, MPI_Win_flush, UnlockSync, UnlockDone
<1> QED BY <1>3, <1>4, <1>5, Zenon

\* A fresh window satisfies the invariant.
LEMMA WindowInit == WinInit => WindowInv
<1> SUFFICES ASSUME WinInit PROVE WindowInv
  OBVIOUS
<1>1. late \in [WinRanks -> BOOLEAN]
  BY Zenon DEF WinInit
<1>2. held \in [WinRanks -> Locks] /\ \A r \in WinRanks : held[r] = Unlocked
  BY Zenon DEF WinInit, Locks
<1>3. WindowTypes
  BY <1>1, <1>2, WindowAssumption, Zenon DEF WinInit, WindowTypes, WinLabels, Puts
<1>4. seen.right
  BY Zenon DEF WinInit
<1>5. outstanding = {} /\ \A r \in WinRanks : /\ wpc[r] = "epoch" /\ fences[r] = 0
                                              /\ local_base[r] = 0 /\ mirror[r] = 0
                                              /\ current[r] = 0 /\ writer[r] = "none"
  BY Zenon DEF WinInit
<1>6. ValuesWritten /\ ModesApart /\ LocksExclude /\ FencesInStep
  BY <1>2, <1>5 DEF ValuesWritten, ModesApart, LocksExclude, FencesInStep, WinInit
<1> QED BY <1>3, <1>4, <1>5, <1>6, Zenon
        DEF WindowInv, PutsUnderWay, CopiesCurrent, StoresMirrored, GetIsCurrent

\* The invariant is inductive.
LEMMA WindowInductive == WindowInv /\ [WinNext]_winVars => WindowInv'
<1> SUFFICES ASSUME WindowInv, [WinNext]_winVars PROVE WindowInv'
  OBVIOUS
<1>1. CASE UNCHANGED winVars
  <2>1. /\ UNCHANGED <<sync_mode, local_base, mirror, outstanding, wpc, fences, held, used, writes>>
        /\ UNCHANGED <<current, writer, late, seen>>
    BY <1>1, Zenon DEF winVars
  <2>2. WindowTypes' /\ ValuesWritten' /\ ModesApart' /\ LocksExclude'
    BY <2>1, Zenon DEF WindowInv, WindowTypes, ValuesWritten, ModesApart, LocksExclude
  <2>3. FencesInStep' /\ PutsUnderWay' /\ CopiesCurrent' /\ StoresMirrored' /\ GetIsCurrent'
    BY <2>1 DEF WindowInv, FencesInStep, PutsUnderWay, CopiesCurrent, StoresMirrored, GetIsCurrent
  <2> QED BY <2>2, <2>3, Zenon DEF WindowInv
<1>2. ASSUME NEW r \in WinRanks, NEW t \in WinRanks, WinStep(r, t) PROVE WindowInv'
  <2>1. WindowTypes'
    BY <1>2, AccessTypes, FenceTypes, LockTypes, Zenon DEF WinStep, WindowInv
  <2> QED BY <1>2, <2>1, ValuesStay, OrderStays, PutsStay, CopiesStay, StoresStay, GetStays, Zenon
          DEF WindowInv
<1>3. WinNext => \E r, t \in WinRanks : WinStep(r, t)
  <2>1. PutArrives => \E r \in WinRanks : TRUE
    BY Zenon DEF PutArrives, WindowInv, WindowTypes, Puts
  <2> QED BY <2>1, Zenon DEF WinNext, WinStep
<1> QED BY <1>1, <1>2, <1>3, Zenon

\* A get on a window returns the last value written to the location, unless it
\* reads a mirror that lacks a put MPI has accepted, and always what the owner
\* stored before the last fence: for any number of ranks, hosts, mirrors,
\* epochs and locks.
THEOREM WindowGets == WinSpec => []GetIsCurrent
BY WindowInit, WindowInductive, PTL DEF WinSpec, WindowInv

\* The values of a window are from writes that were made, ranks in a window
\* are at most one fence apart and a rank unlocks only what it holds.
THEOREM WindowTyped == WinSpec => []WinTypeOK
<1>1. WindowInv => WinTypeOK
  <2> SUFFICES ASSUME WindowInv PROVE WinTypeOK
    OBVIOUS
  <2>1. WindowTypes /\ ValuesWritten /\ ModesApart /\ FencesInStep /\ PutsUnderWay
    BY Zenon DEF WindowInv
  <2>2. \A r \in WinRanks : local_base[r] \in 0 .. writes /\ mirror[r] \in 0 .. writes
    BY <2>1 DEF WindowTypes, ValuesWritten
  <2>3. \A q, r \in WinRanks : fences[q] - fences[r] <= 1
    <3> SUFFICES ASSUME NEW q \in WinRanks, NEW r \in WinRanks
                 PROVE  fences[q] - fences[r] <= 1
      OBVIOUS
    <3>1. fences[q] \in Nat /\ fences[r] \in Nat
      BY <2>1, Zenon DEF WindowTypes
    <3>2. fences[q] > fences[r] => fences[q] = fences[r] + 1
      BY <2>1, Zenon DEF FencesInStep
    <3> QED BY <3>1, <3>2
  <2> QED BY <2>1, <2>2, <2>3, Zenon DEF WinTypeOK, ValuesWritten, PutsUnderWay, ModesApart
<1> QED BY <1>1, WindowInit, WindowInductive, PTL DEF WinSpec

-----------------------------------------------------------------------------
(***************************************************************************)
(* The collectives. The operations of MPI that the ranks enter, numbered,  *)
(* carry the whole argument: the n-th operations of all ranks belong to    *)
(* the same place of the same call, those that two ranks have left are the *)
(* same, and what a rank has registered is known from its last operation.  *)
(***************************************************************************)

\* The length, the members and the extension of a sequence.
LEMMA SeqLen ==
  ASSUME NEW S, NEW q \in Seq(S)
  PROVE  Len(q) \in Nat /\ q \in [1 .. Len(q) -> S] /\ DOMAIN q = 1 .. Len(q)
OBVIOUS

\* What is in a sequence over a set is in the set.
LEMMA SeqMember ==
  ASSUME NEW S, NEW q \in Seq(S), NEW n \in 1 .. Len(q) PROVE q[n] \in S
OBVIOUS

\* An element is appended behind those there are.
LEMMA SeqAppend ==
  ASSUME NEW S, NEW q \in Seq(S), NEW e \in S
  PROVE  /\ Append(q, e) \in Seq(S) /\ Len(Append(q, e)) = Len(q) + 1
         /\ \A m \in 1 .. Len(q) : Append(q, e)[m] = q[m]
         /\ Append(q, e)[Len(q) + 1] = e
OBVIOUS

CollLabels == {"start", "barrier1", "barrier2", "fallback"}
Contribution == {NoBuffer} \cup (CollRanks \X Nat)
MpiOp == [op : Kinds \cup {"barrier"}, call : 1 .. CollCalls, step : {1, 2}]

CollTypes ==
  /\ program \in [1 .. CollCalls -> Kinds]
  /\ coll_data_rptr \in [CollRanks -> Contribution]
  /\ cpos \in [CollRanks -> CollLabels]
  /\ ncall \in [CollRanks -> 1 .. CollCalls + 1]
  /\ \A r \in CollRanks : cpos[r] # "start" => ncall[r] <= CollCalls
  /\ entered \in [CollRanks -> Seq(MpiOp)]
  /\ collected \in [CollRanks -> SUBSET Contribution]
  /\ alloc_ok \in [1 .. CollCalls -> SUBSET CollRanks]
  /\ alloc_no \in [1 .. CollCalls -> SUBSET CollRanks]

\* The number of operations a rank has left, from where it is and what it has
\* entered.
LeftOf(at, ops) == IF at = "start" THEN Len(ops) ELSE Len(ops) - 1

\* The first barrier of a call.
Opens(e) == e.step = 1 /\ e.op = "barrier"

\* The operation after e is the second of its call when e opened the call, and
\* the first of the next call otherwise.
Follows(e, f) ==
  IF Opens(e) THEN f.call = e.call /\ f.step = 2
              ELSE f.call = e.call + 1 /\ f.step = 1

\* A rank's operations follow its program, and the last is where the rank is.
OpsInOrder ==
  \A r \in CollRanks :
     LET ops == entered[r]
         last == ops[Len(ops)]
     IN  /\ Len(ops) > 0 => ops[1].call = 1 /\ ops[1].step = 1
         /\ \A m \in 1 .. Len(ops) - 1 : Follows(ops[m], ops[m + 1])
         /\ Len(ops) = 0 => cpos[r] = "start" /\ ncall[r] = 1
         /\ (Len(ops) > 0 /\ cpos[r] = "start") => ncall[r] = last.call + 1 /\ ~Opens(last)
         /\ (Len(ops) > 0 /\ cpos[r] # "start") => last.call = ncall[r]
         /\ cpos[r] = "barrier1" => Opens(last)
         /\ cpos[r] = "barrier2" => last.op = "barrier" /\ last.step = 2
         /\ cpos[r] = "fallback" => last.op # "barrier"

\* Two ranks that have both left an operation agreed on it.
LeftAgree ==
  \A q, r \in CollRanks : \A m \in 1 .. Len(entered[q]) :
     (m <= LeftOf(cpos[q], entered[q]) /\ m <= LeftOf(cpos[r], entered[r]))
       => entered[q][m].op = entered[r][m].op

\* The n-th operations of two ranks belong to the same call and the same place
\* in it, also where they differ.
SamePlace ==
  \A q, r \in CollRanks : \A m \in 1 .. Len(entered[q]) :
     m <= Len(entered[r]) => /\ entered[q][m].call = entered[r][m].call
                             /\ entered[q][m].step = entered[r][m].step

\* A rank has left an operation only after the ranks it awaits entered it.
LeftAwaited ==
  \A q, r \in CollRanks : \A m \in 1 .. Len(entered[q]) :
     (m <= LeftOf(cpos[q], entered[q]) /\ r \in Awaits(q, entered[q][m].op))
       => m <= Len(entered[r])

\* What each operation tells of the allocation of its rank.
OpsTell ==
  \A r \in CollRanks : \A m \in 1 .. Len(entered[r]) :
     LET e == entered[r][m]
     IN  /\ (Opens(e) /\ program[e.call] \in FromAll) => r \in alloc_ok[e.call]
         /\ e.op # "barrier" => e.op = program[e.call]
         /\ (e.op # "barrier" /\ e.step = 1) => program[e.call] \in FromAll /\ r \in alloc_no[e.call]
         /\ (e.op # "barrier" /\ e.step = 2) => Uneven(e.call)

\* From the first barrier of a call to the next call the registered buffer is
\* that call's, or none; a provider has none only when it got no memory.
BufferOfCall ==
  \A r \in CollRanks :
     LET last == entered[r][Len(entered[r])]
     IN  (Len(entered[r]) > 0 /\ (Opens(last) \/ last.step = 2)) =>
           \/ coll_data_rptr[r] = <<r, last.call>>
           \/ /\ coll_data_rptr[r] = NoBuffer
              /\ r \in Providers(program[last.call]) => r \in alloc_no[last.call]

\* What a rank has read is what its call promises, or the rank is in a second
\* barrier that another rank will not enter.
ReadIsPromised ==
  \A r \in CollRanks :
     cpos[r] = "barrier2" =>
       \/ collected[r] = Promised(r, program[ncall[r]], ncall[r])
       \/ \E q \in CollRanks : /\ Len(entered[q]) >= Len(entered[r])
                               /\ entered[q][Len(entered[r])].op # "barrier"

CollInv ==
  /\ CollTypes /\ OpsInOrder /\ LeftAgree /\ SamePlace /\ LeftAwaited
  /\ OpsTell /\ BufferOfCall /\ ReadIsPromised /\ good

\* Where a rank is once it has entered e.
PlaceOf(e) == IF Opens(e) THEN "barrier1" ELSE IF e.op = "barrier" THEN "barrier2" ELSE "fallback"

\* Rank r enters operation e of MPI, having left the one before.
EnterStep(r, e) ==
  /\ e \in MpiOp /\ e.call = ncall[r]
  /\ \/ cpos[r] = "start" /\ e.step = 1
     \/ cpos[r] = "barrier1" /\ e.step = 2 /\ MayLeave(r)
  /\ entered' = [entered EXCEPT ![r] = Append(@, e)]
  /\ cpos' = [cpos EXCEPT ![r] = PlaceOf(e)]
  /\ ncall' = ncall /\ program' = program

\* Rank r leaves the last operation of its call and returns.
ReturnStep(r) ==
  /\ cpos[r] \in {"barrier2", "fallback"} /\ MayLeave(r)
  /\ cpos' = [cpos EXCEPT ![r] = "start"] /\ ncall' = [ncall EXCEPT ![r] = @ + 1]
  /\ UNCHANGED <<program, coll_data_rptr, entered, collected, alloc_ok, alloc_no>>

\* The record a rank appends when it enters an operation.
LEMMA EntersEntry ==
  ASSUME CollTypes, NEW r \in CollRanks, NEW op \in Kinds \cup {"barrier"}, Enters(r, op),
         ncall[r] <= CollCalls
  PROVE  \E e \in MpiOp : /\ e.op = op /\ e.call = ncall[r]
                          /\ e.step = IF cpos[r] = "start" THEN 1 ELSE 2
                          /\ entered' = [entered EXCEPT ![r] = Append(@, e)]
<1> DEFINE e == [op |-> op, call |-> ncall[r], step |-> IF cpos[r] = "start" THEN 1 ELSE 2]
<1>1. e \in MpiOp
  BY CollAssumption DEF CollTypes, MpiOp
<1>2. entered' = [entered EXCEPT ![r] = Append(@, e)]
  BY Zenon DEF Enters
<1>3. e.op = op /\ e.call = ncall[r] /\ e.step = IF cpos[r] = "start" THEN 1 ELSE 2
  OBVIOUS
<1> HIDE DEF e
<1> QED BY <1>1, <1>2, <1>3, Zenon

\* Registering a buffer enters the first barrier of the call.
LEMMA RegisterEnters ==
  ASSUME CollTypes, NEW r \in CollRanks, Register(r)
  PROVE  \E e \in MpiOp : EnterStep(r, e) /\ Opens(e)
<1>1. /\ ncall[r] <= CollCalls /\ cpos[r] = "start" /\ cpos' = [cpos EXCEPT ![r] = "barrier1"]
      /\ Enters(r, "barrier") /\ ncall' = ncall /\ program' = program
  BY Zenon DEF Register, CollGoto
<1>2. PICK e \in MpiOp : /\ e.op = "barrier" /\ e.call = ncall[r] /\ e.step = 1
                         /\ entered' = [entered EXCEPT ![r] = Append(@, e)]
  BY <1>1, EntersEntry
<1> QED BY <1>1, <1>2, Zenon DEF EnterStep, PlaceOf, Opens

\* A rank without memory enters the barrier in a rooted collective, and the
\* collective of MPI in the others.
LEMMA NoMemoryEnters ==
  ASSUME CollTypes, NEW r \in CollRanks, NoMemory(r)
  PROVE  \E e \in MpiOp : /\ EnterStep(r, e) /\ e.step = 1
                          /\ e.op = IF CallKind(r) \in FromRoot THEN "barrier" ELSE CallKind(r)
<1>1. /\ ncall[r] <= CollCalls /\ cpos[r] = "start" /\ ncall' = ncall /\ program' = program
      /\ \/ /\ CallKind(r) \in FromRoot /\ cpos' = [cpos EXCEPT ![r] = "barrier1"]
            /\ Enters(r, "barrier")
         \/ /\ CallKind(r) \in FromAll /\ cpos' = [cpos EXCEPT ![r] = "fallback"]
            /\ Enters(r, CallKind(r))
  BY Zenon DEF NoMemory, CollGoto
<1>2. CallKind(r) \in Kinds /\ CallKind(r) # "barrier"
  <2>1. ncall[r] \in 1 .. CollCalls
    BY <1>1, CollAssumption DEF CollTypes
  <2>2. CallKind(r) \in Kinds
    BY <2>1, Zenon DEF CollTypes, CallKind
  <2> QED BY <2>2, Zenon DEF Kinds, FromRoot, FromAll
<1>3. CASE CallKind(r) \in FromRoot
  <2>1. CallKind(r) \notin FromAll
    BY <1>3, Zenon DEF FromRoot, FromAll
  <2>2. PICK e \in MpiOp : /\ e.op = "barrier" /\ e.call = ncall[r] /\ e.step = 1
                           /\ entered' = [entered EXCEPT ![r] = Append(@, e)]
    BY <1>1, <2>1, EntersEntry
  <2> QED BY <1>1, <1>3, <2>1, <2>2, Zenon DEF EnterStep, PlaceOf, Opens
<1>4. CASE CallKind(r) \notin FromRoot
  <2>2. PICK e \in MpiOp : /\ e.op = CallKind(r) /\ e.call = ncall[r] /\ e.step = 1
                           /\ entered' = [entered EXCEPT ![r] = Append(@, e)]
    BY <1>1, <1>2, <1>4, EntersEntry
  <2> QED BY <1>1, <1>2, <1>4, <2>2, Zenon DEF EnterStep, PlaceOf, Opens
<1> QED BY <1>3, <1>4, Zenon

\* A rank that has looked at the buffers enters the second barrier, or the
\* collective of MPI when one is missing.
LEMMA LooksEnters ==
  ASSUME CollTypes, NEW r \in CollRanks, ReadBuffers(r) \/ BufferMissing(r)
  PROVE  \E e \in MpiOp : /\ EnterStep(r, e) /\ e.step = 2 /\ cpos[r] = "barrier1"
                          /\ e.op = IF ReadBuffers(r) THEN "barrier" ELSE CallKind(r)
                          /\ CallKind(r) \in Kinds /\ CallKind(r) # "barrier"
<1>1. cpos[r] = "barrier1" /\ ncall' = ncall /\ program' = program /\ MayLeave(r)
  BY Zenon DEF ReadBuffers, BufferMissing, CollGoto
<1>2. CallKind(r) \in Kinds /\ CallKind(r) # "barrier" /\ ncall[r] <= CollCalls
  <2>1. ncall[r] \in 1 .. CollCalls
    BY <1>1, CollAssumption DEF CollTypes
  <2>2. CallKind(r) \in Kinds
    BY <2>1, Zenon DEF CollTypes, CallKind
  <2> QED BY <2>1, <2>2 DEF Kinds, FromRoot, FromAll
<1>3. CASE ReadBuffers(r)
  <2>1. cpos' = [cpos EXCEPT ![r] = "barrier2"] /\ Enters(r, "barrier")
    BY <1>3, Zenon DEF ReadBuffers, CollGoto
  <2>2. PICK e \in MpiOp : /\ e.op = "barrier" /\ e.call = ncall[r] /\ e.step = 2
                           /\ entered' = [entered EXCEPT ![r] = Append(@, e)]
    BY <1>1, <1>2, <2>1, EntersEntry
  <2>3. EnterStep(r, e)
    BY <1>1, <2>1, <2>2 DEF EnterStep, PlaceOf, Opens
  <2> QED BY <1>1, <1>2, <1>3, <2>2, <2>3, Zenon
<1>4. CASE ~ ReadBuffers(r)
  <2>1. cpos' = [cpos EXCEPT ![r] = "fallback"] /\ Enters(r, CallKind(r))
    BY <1>4, Zenon DEF BufferMissing, CollGoto
  <2>2. PICK e \in MpiOp : /\ e.op = CallKind(r) /\ e.call = ncall[r] /\ e.step = 2
                           /\ entered' = [entered EXCEPT ![r] = Append(@, e)]
    BY <1>1, <1>2, <2>1, EntersEntry
  <2>3. EnterStep(r, e)
    BY <1>1, <1>2, <2>1, <2>2, Zenon DEF EnterStep, PlaceOf, Opens
  <2> QED BY <1>1, <1>2, <1>4, <2>2, <2>3, Zenon
<1> QED BY <1>3, <1>4, Zenon

\* What entering changes: one more operation for r and its place.
LEMMA EnterEffect ==
  ASSUME CollTypes, NEW r \in CollRanks, NEW e, EnterStep(r, e)
  PROVE  /\ entered' \in [CollRanks -> Seq(MpiOp)] /\ cpos' \in [CollRanks -> CollLabels]
         /\ Len(entered[r]) \in Nat /\ Len(entered'[r]) = Len(entered[r]) + 1
         /\ \A m \in 1 .. Len(entered[r]) : entered'[r][m] = entered[r][m]
         /\ entered'[r][Len(entered[r]) + 1] = e
         /\ cpos'[r] = PlaceOf(e) /\ PlaceOf(e) # "start"
         /\ \A q \in CollRanks : q # r => entered'[q] = entered[q] /\ cpos'[q] = cpos[q]
<1>1. entered \in [CollRanks -> Seq(MpiOp)] /\ cpos \in [CollRanks -> CollLabels]
  BY Zenon DEF CollTypes
<1>2. /\ e \in MpiOp /\ entered' = [entered EXCEPT ![r] = Append(@, e)]
      /\ cpos' = [cpos EXCEPT ![r] = PlaceOf(e)]
  BY Zenon DEF EnterStep
<1>3. PlaceOf(e) \in CollLabels /\ PlaceOf(e) # "start"
  BY Zenon DEF PlaceOf, CollLabels
<1>4. entered'[r] = Append(entered[r], e) /\ entered[r] \in Seq(MpiOp)
  BY <1>1, <1>2, Zenon
<1>5. /\ Append(entered[r], e) \in Seq(MpiOp) /\ Len(entered[r]) \in Nat
      /\ Len(Append(entered[r], e)) = Len(entered[r]) + 1
      /\ \A m \in 1 .. Len(entered[r]) : Append(entered[r], e)[m] = entered[r][m]
      /\ Append(entered[r], e)[Len(entered[r]) + 1] = e
  BY <1>2, <1>4, SeqAppend, SeqLen
<1>6. entered' \in [CollRanks -> Seq(MpiOp)]
  BY <1>1, <1>2, <1>4, <1>5, Zenon
<1>7. cpos' \in [CollRanks -> CollLabels] /\ cpos'[r] = PlaceOf(e)
  BY <1>1, <1>2, <1>3, Zenon
<1>8. \A q \in CollRanks : q # r => entered'[q] = entered[q] /\ cpos'[q] = cpos[q]
  BY <1>1, <1>2, Zenon
<1> QED BY <1>3, <1>4, <1>5, <1>6, <1>7, <1>8, Zenon

\* The conjuncts about the order of the operations.
OrderInv == CollTypes /\ OpsInOrder /\ LeftAgree /\ SamePlace /\ LeftAwaited

\* The operations a rank has entered, and how many it has left.
LEMMA LeftBounds ==
  ASSUME CollTypes, OpsInOrder, NEW q \in CollRanks
  PROVE  /\ Len(entered[q]) \in Nat /\ LeftOf(cpos[q], entered[q]) \in Nat
         /\ LeftOf(cpos[q], entered[q]) <= Len(entered[q])
         /\ Len(entered[q]) <= LeftOf(cpos[q], entered[q]) + 1
<1>1. Len(entered[q]) \in Nat
  BY SeqLen, Zenon DEF CollTypes
<1>2. Len(entered[q]) = 0 => cpos[q] = "start"
  BY Zenon DEF OpsInOrder
<1> QED BY <1>1, <1>2 DEF LeftOf

\* A rank that MPI lets go on has left all it entered: it agrees on each of
\* them with every rank that has left it too, and those it awaited are there.
LEMMA LeavesAll ==
  ASSUME OrderInv, NEW r \in CollRanks, cpos[r] = "start" \/ MayLeave(r),
         NEW q \in CollRanks, NEW m \in 1 .. Len(entered[r])
  PROVE  /\ m <= LeftOf(cpos[q], entered[q]) => entered[r][m].op = entered[q][m].op
         /\ q \in Awaits(r, entered[r][m].op) => m <= Len(entered[q])
<1>1. CollTypes /\ OpsInOrder /\ LeftAgree /\ LeftAwaited
  BY Zenon DEF OrderInv
<1>2. /\ Len(entered[r]) \in Nat /\ LeftOf(cpos[r], entered[r]) \in Nat
      /\ Len(entered[r]) <= LeftOf(cpos[r], entered[r]) + 1
      /\ Len(entered[q]) \in Nat /\ LeftOf(cpos[q], entered[q]) \in Nat
      /\ LeftOf(cpos[q], entered[q]) <= Len(entered[q])
  BY <1>1, LeftBounds, Zenon
<1>3. CASE m <= LeftOf(cpos[r], entered[r])
  BY <1>1, <1>3, Zenon DEF LeftAgree, LeftAwaited
<1>4. CASE ~ (m <= LeftOf(cpos[r], entered[r]))
  <2>1. m = Len(entered[r])
    BY <1>2, <1>4
  <2>2. cpos[r] # "start"
    BY <1>2, <1>4, <2>1 DEF LeftOf
  <2>3. /\ Agree(m) /\ \A u \in Awaits(r, entered[r][m].op) : Len(entered[u]) >= m
    BY <2>1, <2>2, Zenon DEF MayLeave
  <2>4. Len(entered[q]) >= m => entered[r][m].op = entered[q][m].op
    BY <1>2, <2>1, <2>3 DEF Agree
  <2> QED BY <1>2, <2>3, <2>4
<1> QED BY <1>3, <1>4, Zenon

\* Every operation is of a call of the program.
LEMMA EntryType ==
  ASSUME CollTypes, NEW q \in CollRanks, NEW m \in 1 .. Len(entered[q])
  PROVE  /\ entered[q][m] \in MpiOp /\ entered[q][m].call \in 1 .. CollCalls
         /\ entered[q][m].step \in {1, 2} /\ entered[q][m].op \in Kinds \cup {"barrier"}
<1>1. entered[q] \in Seq(MpiOp)
  BY Zenon DEF CollTypes
<1>2. entered[q][m] \in MpiOp
  BY <1>1, SeqMember, Zenon
<1> QED BY <1>2, Zenon DEF MpiOp

\* Entering the next operation keeps the operations of the ranks in order.
LEMMA EnterKeepsOrder ==
  ASSUME OrderInv, NEW r \in CollRanks, NEW e, EnterStep(r, e)
  PROVE  OpsInOrder' /\ LeftAgree' /\ SamePlace' /\ LeftAwaited'
<1> DEFINE n == Len(entered[r])
<1>1. CollTypes /\ OpsInOrder /\ LeftAgree /\ SamePlace /\ LeftAwaited
  BY Zenon DEF OrderInv
<1>2. /\ Len(entered[r]) \in Nat /\ Len(entered'[r]) = Len(entered[r]) + 1
      /\ \A m \in 1 .. Len(entered[r]) : entered'[r][m] = entered[r][m]
      /\ entered'[r][Len(entered[r]) + 1] = e
      /\ cpos'[r] = PlaceOf(e) /\ PlaceOf(e) # "start"
      /\ \A q \in CollRanks : q # r => entered'[q] = entered[q] /\ cpos'[q] = cpos[q]
  BY <1>1, EnterEffect, Zenon
<1>3. /\ e \in MpiOp /\ e.call = ncall[r] /\ ncall' = ncall
      /\ \/ cpos[r] = "start" /\ e.step = 1
         \/ cpos[r] = "barrier1" /\ e.step = 2
      /\ cpos[r] = "start" \/ MayLeave(r)
  BY Zenon DEF EnterStep
<1>4. n > 0 => Follows(entered[r][n], e)
  <2> HAVE n > 0
  <2>1. /\ cpos[r] = "start" => ncall[r] = entered[r][n].call + 1 /\ ~Opens(entered[r][n])
        /\ cpos[r] # "start" => entered[r][n].call = ncall[r]
        /\ cpos[r] = "barrier1" => Opens(entered[r][n])
    BY <1>1, Zenon DEF OpsInOrder
  <2> QED BY <1>3, <2>1, Zenon DEF Follows
<1>5. n = 0 => e.call = 1 /\ e.step = 1
  BY <1>1, <1>3 DEF OpsInOrder
<1>6. OpsInOrder'
  <2> SUFFICES ASSUME NEW q \in CollRanks
               PROVE  LET ops == entered'[q]
                          last == ops[Len(ops)]
                      IN  /\ Len(ops) > 0 => ops[1].call = 1 /\ ops[1].step = 1
                          /\ \A m \in 1 .. Len(ops) - 1 : Follows(ops[m], ops[m + 1])
                          /\ Len(ops) = 0 => cpos'[q] = "start" /\ ncall'[q] = 1
                          /\ (Len(ops) > 0 /\ cpos'[q] = "start") => ncall'[q] = last.call + 1 /\ ~Opens(last)
                          /\ (Len(ops) > 0 /\ cpos'[q] # "start") => last.call = ncall'[q]
                          /\ cpos'[q] = "barrier1" => Opens(last)
                          /\ cpos'[q] = "barrier2" => last.op = "barrier" /\ last.step = 2
                          /\ cpos'[q] = "fallback" => last.op # "barrier"
    BY Zenon DEF OpsInOrder
  <2>1. CASE q # r
    <3>1. entered'[q] = entered[q] /\ cpos'[q] = cpos[q] /\ ncall'[q] = ncall[q]
      BY <1>2, <1>3, <2>1, Zenon
    <3> QED BY <1>1, <3>1 DEF OpsInOrder
  <2>2. CASE q = r
    <3> DEFINE ops == entered'[r]
    <3>1. Len(ops) = n + 1 /\ n \in Nat /\ ops[n + 1] = e
      BY <1>2, Zenon
    <3>2. ops[1].call = 1 /\ ops[1].step = 1
      <4>1. CASE n = 0
        BY <1>5, <3>1, <4>1
      <4>2. CASE n > 0
        <5>1. ops[1] = entered[r][1]
          BY <1>2, <4>2
        <5> QED BY <1>1, <4>2, <5>1 DEF OpsInOrder
      <4> QED BY <3>1, <4>1, <4>2
    <3>3. ASSUME NEW m \in 1 .. n PROVE Follows(ops[m], ops[m + 1])
      <4>1. CASE m = n
        BY <1>2, <1>4, <3>1, <4>1
      <4>2. CASE m < n
        <5>1. ops[m] = entered[r][m] /\ ops[m + 1] = entered[r][m + 1] /\ m \in 1 .. n - 1
          BY <1>2, <3>1, <4>2
        <5> QED BY <1>1, <5>1, Zenon DEF OpsInOrder
      <4> QED BY <3>1, <4>1, <4>2
    <3>4. /\ PlaceOf(e) = "barrier1" => Opens(e)
          /\ PlaceOf(e) = "barrier2" => e.op = "barrier" /\ e.step = 2
          /\ PlaceOf(e) = "fallback" => e.op # "barrier"
      BY <1>3, Zenon DEF PlaceOf, Opens
    <3> HIDE DEF ops, n
    <3>5. Len(ops) - 1 = n /\ Len(ops) > 0
      BY <3>1
    <3> QED BY <1>2, <1>3, <2>2, <3>1, <3>2, <3>3, <3>4, <3>5 DEF ops
  <2> QED BY <2>1, <2>2, Zenon
<1>7. LeftOf(cpos'[r], entered'[r]) = n
  BY <1>2 DEF LeftOf
<1>8. ASSUME NEW q \in CollRanks, q # r
      PROVE  /\ LeftOf(cpos'[q], entered'[q]) = LeftOf(cpos[q], entered[q])
             /\ Len(entered[q]) \in Nat /\ LeftOf(cpos[q], entered[q]) \in Nat
             /\ LeftOf(cpos[q], entered[q]) <= Len(entered[q])
             /\ Len(entered[q]) <= LeftOf(cpos[q], entered[q]) + 1
  BY <1>1, <1>2, <1>8, LeftBounds, Zenon
<1>9. ASSUME NEW q \in CollRanks, NEW m \in 1 .. n
      PROVE  /\ m <= LeftOf(cpos[q], entered[q]) => entered[r][m].op = entered[q][m].op
             /\ q \in Awaits(r, entered[r][m].op) => m <= Len(entered[q])
  BY <1>3, LeavesAll, Zenon
<1>10. LeftAgree'
  <2> SUFFICES ASSUME NEW p \in CollRanks, NEW q \in CollRanks, NEW m \in 1 .. Len(entered'[p]),
                      m <= LeftOf(cpos'[p], entered'[p]), m <= LeftOf(cpos'[q], entered'[q])
               PROVE  entered'[p][m].op = entered'[q][m].op
    BY Zenon DEF LeftAgree
  <2>1. CASE p = q
    BY <2>1, Zenon
  <2>2. CASE p = r /\ q # r
    <3>1. m \in 1 .. n /\ m <= LeftOf(cpos[q], entered[q])
      BY <1>2, <1>7, <1>8, <2>2
    <3> QED BY <1>2, <1>9, <2>2, <3>1, Zenon
  <2>3. CASE p # r /\ q = r
    <3>1. m \in 1 .. n /\ m <= LeftOf(cpos[p], entered[p])
      BY <1>2, <1>7, <1>8, <2>3
    <3> QED BY <1>2, <1>9, <2>3, <3>1, Zenon
  <2>4. CASE p # r /\ q # r
    BY <1>1, <1>2, <1>8, <2>4 DEF LeftAgree
  <2> QED BY <2>1, <2>2, <2>3, <2>4, Zenon
<1>11. LeftAwaited'
  <2> SUFFICES ASSUME NEW p \in CollRanks, NEW q \in CollRanks, NEW m \in 1 .. Len(entered'[p]),
                      m <= LeftOf(cpos'[p], entered'[p]), q \in Awaits(p, entered'[p][m].op)
               PROVE  m <= Len(entered'[q])
    BY Zenon DEF LeftAwaited
  <2>1. Len(entered[q]) <= Len(entered'[q]) /\ Len(entered[q]) \in Nat /\ Len(entered'[q]) \in Nat
    BY <1>2, <1>8
  <2>2. CASE p = r
    <3>1. m \in 1 .. n /\ entered'[r][m] = entered[r][m]
      BY <1>2, <1>7, <2>2
    <3> QED BY <1>9, <2>1, <2>2, <3>1
  <2>3. CASE p # r
    <3>1. m \in 1 .. Len(entered[p]) /\ m <= LeftOf(cpos[p], entered[p]) /\ entered'[p] = entered[p]
      BY <1>2, <1>8, <2>3, Zenon
    <3>2. m <= Len(entered[q])
      BY <1>1, <3>1, Zenon DEF LeftAwaited
    <3> QED BY <2>1, <3>2
  <2> QED BY <2>2, <2>3, Zenon
<1>12. ASSUME NEW q \in CollRanks, q # r, n + 1 <= Len(entered[q])
       PROVE  entered[q][n + 1].call = e.call /\ entered[q][n + 1].step = e.step
  <2>1. CASE n = 0
    BY <1>1, <1>5, <1>8, <1>12, <2>1 DEF OpsInOrder
  <2>2. CASE n > 0
    <3>1. n \in 1 .. n /\ n <= LeftOf(cpos[q], entered[q]) /\ n \in 1 .. Len(entered[q]) - 1
      BY <1>2, <1>8, <1>12, <2>2
    <3>2. entered[q][n].op = entered[r][n].op
      BY <1>9, <3>1, Zenon
    <3>3. entered[q][n].call = entered[r][n].call /\ entered[q][n].step = entered[r][n].step
      BY <1>1, <1>2, <1>8, <1>12, <3>1 DEF SamePlace
    <3>4. Follows(entered[q][n], entered[q][n + 1])
      BY <1>1, <3>1, Zenon DEF OpsInOrder
    <3>5. Follows(entered[r][n], e)
      BY <1>4, <2>2, Zenon
    <3> QED BY <3>2, <3>3, <3>4, <3>5, Zenon DEF Follows, Opens
  <2> QED BY <1>2, <2>1, <2>2
<1>13. SamePlace'
  <2> SUFFICES ASSUME NEW p \in CollRanks, NEW q \in CollRanks, NEW m \in 1 .. Len(entered'[p]),
                      m <= Len(entered'[q])
               PROVE  /\ entered'[p][m].call = entered'[q][m].call
                      /\ entered'[p][m].step = entered'[q][m].step
    BY Zenon DEF SamePlace
  <2>1. CASE p = q
    BY <2>1, Zenon
  <2>2. CASE p = r /\ q # r
    <3>1. CASE m = n + 1
      BY <1>2, <1>12, <2>2, <3>1, Zenon
    <3>2. CASE m # n + 1
      <4>1. m \in 1 .. n /\ entered'[r][m] = entered[r][m] /\ entered'[q] = entered[q]
        BY <1>2, <2>2, <3>2
      <4> QED BY <1>1, <2>2, <4>1 DEF SamePlace
    <3> QED BY <3>1, <3>2, Zenon
  <2>3. CASE p # r /\ q = r
    <3>1. CASE m = n + 1
      <4>1. n + 1 <= Len(entered[p]) /\ entered'[p] = entered[p]
        BY <1>2, <1>8, <2>3, <3>1
      <4>2. entered[p][n + 1].call = e.call /\ entered[p][n + 1].step = e.step
        BY <1>12, <2>3, <4>1, Zenon
      <4>3. entered'[q][m] = e /\ entered'[p][m] = entered[p][n + 1]
        BY <1>2, <2>3, <3>1, <4>1, Zenon
      <4> QED BY <4>2, <4>3, Zenon
    <3>2. CASE m # n + 1
      <4>1. m \in 1 .. n /\ entered'[r][m] = entered[r][m] /\ entered'[p] = entered[p]
        BY <1>2, <2>3, <3>2
      <4> QED BY <1>1, <2>3, <4>1 DEF SamePlace
    <3> QED BY <3>1, <3>2, Zenon
  <2>4. CASE p # r /\ q # r
    BY <1>1, <1>2, <2>4 DEF SamePlace
  <2> QED BY <2>1, <2>2, <2>3, <2>4, Zenon
<1> QED BY <1>6, <1>10, <1>11, <1>13, Zenon

\* Returning from a call keeps it.
LEMMA ReturnKeepsOrder ==
  ASSUME OrderInv, NEW r \in CollRanks, ReturnStep(r)
  PROVE  OpsInOrder' /\ LeftAgree' /\ SamePlace' /\ LeftAwaited'
<1>1. CollTypes /\ OpsInOrder /\ LeftAgree /\ SamePlace /\ LeftAwaited
  BY Zenon DEF OrderInv
<1>2. /\ cpos[r] \in {"barrier2", "fallback"} /\ MayLeave(r) /\ entered' = entered
      /\ cpos' = [cpos EXCEPT ![r] = "start"] /\ ncall' = [ncall EXCEPT ![r] = @ + 1]
  BY Zenon DEF ReturnStep
<1>3. /\ cpos'[r] = "start" /\ ncall'[r] = ncall[r] + 1
      /\ \A q \in CollRanks : q # r => cpos'[q] = cpos[q] /\ ncall'[q] = ncall[q]
  BY <1>1, <1>2, Zenon DEF CollTypes
<1>4. OpsInOrder'
  <2> SUFFICES ASSUME NEW q \in CollRanks
               PROVE  LET ops == entered'[q]
                          last == ops[Len(ops)]
                      IN  /\ Len(ops) > 0 => ops[1].call = 1 /\ ops[1].step = 1
                          /\ \A m \in 1 .. Len(ops) - 1 : Follows(ops[m], ops[m + 1])
                          /\ Len(ops) = 0 => cpos'[q] = "start" /\ ncall'[q] = 1
                          /\ (Len(ops) > 0 /\ cpos'[q] = "start") => ncall'[q] = last.call + 1 /\ ~Opens(last)
                          /\ (Len(ops) > 0 /\ cpos'[q] # "start") => last.call = ncall'[q]
                          /\ cpos'[q] = "barrier1" => Opens(last)
                          /\ cpos'[q] = "barrier2" => last.op = "barrier" /\ last.step = 2
                          /\ cpos'[q] = "fallback" => last.op # "barrier"
    BY Zenon DEF OpsInOrder
  <2>1. CASE q # r
    <3>1. entered'[q] = entered[q] /\ cpos'[q] = cpos[q] /\ ncall'[q] = ncall[q]
      BY <1>2, <1>3, <2>1, Zenon
    <3> QED BY <1>1, <3>1 DEF OpsInOrder
  <2>2. CASE q = r
    <3> DEFINE last == entered[r][Len(entered[r])]
    <3>1. Len(entered[r]) # 0 /\ Len(entered[r]) \in Nat
      BY <1>1, <1>2, LeftBounds, Zenon DEF OpsInOrder
    <3>2. last.call = ncall[r] /\ ~Opens(last)
      BY <1>1, <1>2, <3>1 DEF OpsInOrder, Opens
    <3>3. /\ entered[r][1].call = 1 /\ entered[r][1].step = 1
          /\ \A m \in 1 .. Len(entered[r]) - 1 : Follows(entered[r][m], entered[r][m + 1])
      <4>1. Len(entered[r]) > 0
        BY <3>1
      <4> QED BY <1>1, <4>1, Zenon DEF OpsInOrder
    <3> QED BY <1>2, <1>3, <2>2, <3>1, <3>2, <3>3, Zenon
  <2> QED BY <2>1, <2>2, Zenon
<1>5. LeftOf(cpos'[r], entered'[r]) = Len(entered[r])
  BY <1>2, <1>3, Zenon DEF LeftOf
<1>6. ASSUME NEW q \in CollRanks
      PROVE  /\ q # r => LeftOf(cpos'[q], entered'[q]) = LeftOf(cpos[q], entered[q])
             /\ Len(entered[q]) \in Nat /\ LeftOf(cpos[q], entered[q]) \in Nat
             /\ LeftOf(cpos[q], entered[q]) <= Len(entered[q])
  BY <1>1, <1>2, <1>3, LeftBounds, Zenon
<1>7. ASSUME NEW q \in CollRanks, NEW m \in 1 .. Len(entered[r])
      PROVE  /\ m <= LeftOf(cpos[q], entered[q]) => entered[r][m].op = entered[q][m].op
             /\ q \in Awaits(r, entered[r][m].op) => m <= Len(entered[q])
  BY <1>2, LeavesAll, Zenon
<1>8. LeftAgree'
  <2> SUFFICES ASSUME NEW p \in CollRanks, NEW q \in CollRanks, NEW m \in 1 .. Len(entered[p]),
                      m <= LeftOf(cpos'[p], entered'[p]), m <= LeftOf(cpos'[q], entered'[q])
               PROVE  entered[p][m].op = entered[q][m].op
    BY <1>2, Zenon DEF LeftAgree
  <2>1. CASE p = r /\ q # r
    BY <1>6, <1>7, <2>1, Zenon
  <2>2. CASE p # r /\ q = r
    <3>1. m \in 1 .. Len(entered[r]) /\ m <= LeftOf(cpos[p], entered[p])
      BY <1>5, <1>6, <2>2
    <3> QED BY <1>7, <2>2, <3>1, Zenon
  <2>3. CASE p # r /\ q # r
    BY <1>1, <1>6, <2>3, Zenon DEF LeftAgree
  <2> QED BY <2>1, <2>2, <2>3, Zenon
<1>9. LeftAwaited'
  <2> SUFFICES ASSUME NEW p \in CollRanks, NEW q \in CollRanks, NEW m \in 1 .. Len(entered[p]),
                      m <= LeftOf(cpos'[p], entered'[p]), q \in Awaits(p, entered[p][m].op)
               PROVE  m <= Len(entered[q])
    BY <1>2, Zenon DEF LeftAwaited
  <2>1. CASE p = r
    BY <1>7, <2>1, Zenon
  <2>2. CASE p # r
    BY <1>1, <1>6, <2>2, Zenon DEF LeftAwaited
  <2> QED BY <2>1, <2>2, Zenon
<1>10. SamePlace'
  BY <1>1, <1>2, Zenon DEF SamePlace
<1> QED BY <1>4, <1>8, <1>9, <1>10, Zenon

\* The providers of a call, and what it promises, are ranks and contributions
\* of ranks.
LEMMA PromisedType ==
  ASSUME NEW r \in CollRanks, NEW k \in Kinds, NEW n \in Nat
  PROVE  Providers(k) \subseteq CollRanks /\ Promised(r, k, n) \in SUBSET Contribution
BY CollAssumption DEF Providers, Promised, Contribution

\* Reading the buffers of this very call yields what the call promises.
LEMMA BuffersArePromised ==
  ASSUME NEW r \in CollRanks, NEW k \in Kinds, NEW n \in Nat, Reads(r, k),
         NEW b, \A q \in Providers(k) : b[q] = <<q, n>>
  PROVE  {b[q] : q \in Providers(k)} = Promised(r, k, n)
<1>1. CASE k \in FromRoot
  <2>1. Providers(k) = {CollRoot} /\ Promised(r, k, n) = {<<CollRoot, n>>}
    BY <1>1, Zenon DEF Providers, Promised, FromRoot
  <2> QED BY <2>1, Zenon
<1>2. CASE k \notin FromRoot
  <2>1. Providers(k) = CollRanks
    BY <1>2, Zenon DEF Providers
  <2>2. k \notin {"bcast", "scatter"} /\ (k = "gather" => r = CollRoot)
    BY <1>2, Zenon DEF FromRoot, Reads
  <2>3. Promised(r, k, n) = {<<q, n>> : q \in CollRanks}
    BY <2>2, Zenon DEF Promised
  <2> QED BY <2>1, <2>3, Zenon
<1> QED BY <1>1, <1>2, Zenon

\* The call a rank is in is one of its program.
LEMMA CallInProgram ==
  ASSUME CollTypes, NEW r \in CollRanks, ncall[r] <= CollCalls
  PROVE  ncall[r] \in 1 .. CollCalls /\ CallKind(r) = program[ncall[r]] /\ CallKind(r) \in Kinds
<1>1. ncall[r] \in 1 .. CollCalls
  BY CollAssumption DEF CollTypes
<1> QED BY <1>1, Zenon DEF CollTypes, CallKind

\* The types are kept.
LEMMA CollTypesStay ==
  ASSUME CollTypes, NEW r \in CollRanks, CollStep(r)
  PROVE  CollTypes'
<1>1. /\ program \in [1 .. CollCalls -> Kinds] /\ coll_data_rptr \in [CollRanks -> Contribution]
      /\ cpos \in [CollRanks -> CollLabels] /\ ncall \in [CollRanks -> 1 .. CollCalls + 1]
      /\ \A q \in CollRanks : cpos[q] # "start" => ncall[q] <= CollCalls
      /\ collected \in [CollRanks -> SUBSET Contribution]
      /\ alloc_ok \in [1 .. CollCalls -> SUBSET CollRanks]
      /\ alloc_no \in [1 .. CollCalls -> SUBSET CollRanks] /\ CollCalls \in Nat
  BY CollAssumption, Zenon DEF CollTypes
<1>2. CASE Register(r)
  <2>1. PICK e \in MpiOp : EnterStep(r, e)
    BY <1>2, RegisterEnters, Zenon
  <2>2. /\ entered' \in [CollRanks -> Seq(MpiOp)] /\ cpos' \in [CollRanks -> CollLabels]
        /\ \A q \in CollRanks : q # r => cpos'[q] = cpos[q]
    BY <2>1, EnterEffect, Zenon
  <2>3. /\ ncall[r] <= CollCalls /\ UNCHANGED <<program, ncall, collected, alloc_no>>
        /\ coll_data_rptr' = [coll_data_rptr EXCEPT ![r] =
             IF r \in Providers(CallKind(r)) THEN <<r, ncall[r]>> ELSE NoBuffer]
        /\ alloc_ok' = [alloc_ok EXCEPT ![ncall[r]] = @ \cup (Providers(CallKind(r)) \cap {r})]
    BY <1>2, Zenon DEF Register
  <2>4. <<r, ncall[r]>> \in Contribution /\ NoBuffer \in Contribution /\ ncall[r] \in 1 .. CollCalls
    BY <1>1, <2>3, CallInProgram DEF Contribution
  <2>5. coll_data_rptr' \in [CollRanks -> Contribution]
    BY <1>1, <2>3, <2>4, Zenon
  <2>6. alloc_ok' \in [1 .. CollCalls -> SUBSET CollRanks]
    BY <1>1, <2>3, <2>4, Zenon
  <2> QED BY <1>1, <2>2, <2>3, <2>5, <2>6, Zenon DEF CollTypes
<1>3. CASE NoMemory(r)
  <2>1. PICK e \in MpiOp : EnterStep(r, e)
    BY <1>3, NoMemoryEnters, Zenon
  <2>2. /\ entered' \in [CollRanks -> Seq(MpiOp)] /\ cpos' \in [CollRanks -> CollLabels]
        /\ \A q \in CollRanks : q # r => cpos'[q] = cpos[q]
    BY <2>1, EnterEffect, Zenon
  <2>3. /\ ncall[r] <= CollCalls /\ UNCHANGED <<program, ncall, collected, alloc_ok>>
        /\ coll_data_rptr' = [coll_data_rptr EXCEPT ![r] = NoBuffer] \/ coll_data_rptr' = coll_data_rptr
        /\ alloc_no' = [alloc_no EXCEPT ![ncall[r]] = @ \cup {r}]
    BY <1>3, Zenon DEF NoMemory
  <2>4. NoBuffer \in Contribution /\ ncall[r] \in 1 .. CollCalls
    BY <1>1, <2>3, CallInProgram, Zenon DEF Contribution
  <2>5. coll_data_rptr' \in [CollRanks -> Contribution]
    BY <1>1, <2>3, <2>4, Zenon
  <2>6. alloc_no' \in [1 .. CollCalls -> SUBSET CollRanks]
    BY <1>1, <2>3, <2>4, Zenon
  <2> QED BY <1>1, <2>2, <2>3, <2>5, <2>6, Zenon DEF CollTypes
<1>4. CASE ReadBuffers(r) \/ BufferMissing(r)
  <2>1. PICK e \in MpiOp : EnterStep(r, e) /\ cpos[r] = "barrier1"
    BY <1>4, LooksEnters, Zenon
  <2>2. /\ entered' \in [CollRanks -> Seq(MpiOp)] /\ cpos' \in [CollRanks -> CollLabels]
        /\ \A q \in CollRanks : q # r => cpos'[q] = cpos[q]
    BY <2>1, EnterEffect, Zenon
  <2>3. UNCHANGED <<program, coll_data_rptr, ncall, alloc_ok, alloc_no>>
    BY <1>4, Zenon DEF ReadBuffers, BufferMissing
  <2>4. ncall[r] <= CollCalls
    BY <1>1, <2>1, Zenon
  <2>5. collected' \in [CollRanks -> SUBSET Contribution]
    <3>1. CASE ReadBuffers(r)
      <4> DEFINE v == IF Reads(r, CallKind(r)) THEN {coll_data_rptr[q] : q \in Providers(CallKind(r))}
                      ELSE Promised(r, CallKind(r), ncall[r])
      <4>1. collected' = [collected EXCEPT ![r] = v]
        BY <3>1, Zenon DEF ReadBuffers
      <4>2. CallKind(r) \in Kinds /\ ncall[r] \in Nat
        BY <1>1, <2>4, CallInProgram
      <4>3. Providers(CallKind(r)) \subseteq CollRanks
        BY <4>2, PromisedType, Zenon
      <4>4. {coll_data_rptr[q] : q \in Providers(CallKind(r))} \in SUBSET Contribution
        BY <1>1, <4>3, Zenon
      <4>5. v \in SUBSET Contribution
        BY <4>2, <4>4, PromisedType, Zenon
      <4> HIDE DEF v
      <4> QED BY <1>1, <4>1, <4>5, Zenon
    <3>2. CASE BufferMissing(r)
      BY <1>1, <3>2, Zenon DEF BufferMissing
    <3> QED BY <1>4, <3>1, <3>2, Zenon
  <2> QED BY <1>1, <2>2, <2>3, <2>4, <2>5, Zenon DEF CollTypes
<1>5. CASE Complete(r) \/ CompleteFallback(r)
  <2>1. /\ cpos[r] # "start" /\ cpos' = [cpos EXCEPT ![r] = "start"]
        /\ ncall' = [ncall EXCEPT ![r] = @ + 1]
        /\ UNCHANGED <<program, coll_data_rptr, entered, collected, alloc_ok, alloc_no>>
    BY <1>5, Zenon DEF Complete, CompleteFallback, Returns
  <2>2. ncall[r] <= CollCalls
    BY <1>1, <2>1, Zenon
  <2>3. ncall' \in [CollRanks -> 1 .. CollCalls + 1]
    BY <1>1, <2>1, <2>2
  <2>4. cpos' \in [CollRanks -> CollLabels]
    BY <1>1, <2>1, Zenon DEF CollLabels
  <2>5. \A q \in CollRanks : cpos'[q] # "start" => ncall'[q] <= CollCalls
    BY <1>1, <2>1, Zenon
  <2> QED BY <1>1, <2>1, <2>3, <2>4, <2>5, Zenon DEF CollTypes
<1> QED BY <1>2, <1>3, <1>4, <1>5, Zenon DEF CollStep

\* A rank about to look at the buffers meets every rank in the first barrier of
\* its call, and each of them still has the buffer of that call registered, or
\* none, or has gone on without the second barrier.
LEMMA BuffersAtBarrier ==
  ASSUME CollInv, NEW r \in CollRanks, cpos[r] = "barrier1", MayLeave(r), NEW q \in CollRanks
  PROVE  LET n == Len(entered[r])
             c == ncall[r]
         IN  /\ n \in Nat /\ n > 0 /\ Len(entered[q]) \in Nat /\ Len(entered[q]) >= n
             /\ Opens(entered[q][n]) /\ entered[q][n].call = c
             /\ \/ coll_data_rptr[q] = <<q, c>>
                \/ /\ coll_data_rptr[q] = NoBuffer
                   /\ q \in Providers(program[c]) => q \in alloc_no[c]
                \/ /\ Len(entered[q]) >= n + 2 /\ entered[q][n + 1].op # "barrier"
                   /\ entered[q][n + 1].call = c /\ entered[q][n + 1].step = 2
<1> DEFINE n == Len(entered[r])
           c == ncall[r]
<1>1. /\ CollTypes /\ OpsInOrder /\ LeftAgree /\ SamePlace /\ LeftAwaited
      /\ OpsTell /\ BufferOfCall
  BY Zenon DEF CollInv
<1>2. /\ n \in Nat /\ Len(entered[q]) \in Nat
      /\ LeftOf(cpos[q], entered[q]) \in Nat /\ Len(entered[q]) <= LeftOf(cpos[q], entered[q]) + 1
  BY <1>1, LeftBounds, Zenon
<1>3. n > 0 /\ Opens(entered[r][n]) /\ entered[r][n].call = c
  <2>1. n # 0
    BY <1>1, Zenon DEF OpsInOrder
  <2>2. n > 0
    BY <1>2, <2>1
  <2> QED BY <1>1, <2>2, Zenon DEF OpsInOrder
<1>4. \A u \in CollRanks : Awaits(u, "barrier") = CollRanks
  BY Zenon DEF Awaits, FromRoot
<1>5. Len(entered[q]) >= n /\ entered[q][n].op = "barrier"
  <2>1. entered[r][n].op = "barrier"
    BY <1>3, Zenon DEF Opens
  <2>2. Agree(n) /\ \A u \in CollRanks : Len(entered[u]) >= n
    BY <1>4, <2>1, Zenon DEF MayLeave
  <2> QED BY <1>2, <2>1, <2>2, Zenon DEF Agree
<1>6. Opens(entered[q][n]) /\ entered[q][n].call = c
  <2>1. n \in 1 .. Len(entered[r]) /\ n <= Len(entered[q])
    BY <1>2, <1>3, <1>5
  <2>2. entered[r][n].call = entered[q][n].call /\ entered[r][n].step = entered[q][n].step
    BY <1>1, <2>1, Zenon DEF SamePlace
  <2> QED BY <1>3, <1>5, <2>2, Zenon DEF Opens
<1>7. Len(entered[q]) >= n + 1 => entered[q][n + 1].call = c /\ entered[q][n + 1].step = 2
  <2> HAVE Len(entered[q]) >= n + 1
  <2>1. n \in 1 .. Len(entered[q]) - 1
    BY <1>2, <1>3
  <2>2. Follows(entered[q][n], entered[q][n + 1])
    BY <1>1, <2>1, Zenon DEF OpsInOrder
  <2> QED BY <1>6, <2>2, Zenon DEF Follows
<1>8. CASE Len(entered[q]) = n
  BY <1>1, <1>2, <1>3, <1>5, <1>6, <1>8, Zenon DEF BufferOfCall
<1>9. CASE Len(entered[q]) = n + 1
  BY <1>1, <1>2, <1>3, <1>5, <1>6, <1>7, <1>9 DEF BufferOfCall
<1>10. CASE Len(entered[q]) >= n + 2
  <2>1. n + 1 \in 1 .. Len(entered[q]) /\ n + 1 <= LeftOf(cpos[q], entered[q])
    BY <1>2, <1>3, <1>10
  <2>2. ~ (n + 1 <= Len(entered[r]))
    BY <1>2
  <2>3. r \notin Awaits(q, entered[q][n + 1].op)
    BY <1>1, <2>1, <2>2, Zenon DEF LeftAwaited
  <2>4. entered[q][n + 1].op # "barrier"
    BY <1>4, <2>3, Zenon
  <2> QED BY <1>2, <1>3, <1>5, <1>6, <1>7, <1>10, <2>4
<1>11. Len(entered[q]) = n \/ Len(entered[q]) = n + 1 \/ Len(entered[q]) >= n + 2
  BY <1>2, <1>5
<1> QED BY <1>8, <1>9, <1>10, <1>11, Zenon

\* What an operation tells of its rank's allocation, on entering it.
Tells(r, e) ==
  /\ (Opens(e) /\ program[e.call] \in FromAll) => r \in alloc_ok'[e.call]
  /\ e.op # "barrier" => e.op = program[e.call]
  /\ (e.op # "barrier" /\ e.step = 1) => program[e.call] \in FromAll /\ r \in alloc_no'[e.call]
  /\ (e.op # "barrier" /\ e.step = 2) =>
       alloc_no'[e.call] # {} /\ (program[e.call] \in FromRoot \/ alloc_ok'[e.call] # {})

\* The allocations of a call are only added to, so earlier operations tell the
\* truth as long as the new one does.
LEMMA TellsStay ==
  ASSUME CollTypes, OpsTell, NEW r \in CollRanks, NEW e, EnterStep(r, e), Tells(r, e),
         \A c \in 1 .. CollCalls : alloc_ok[c] \subseteq alloc_ok'[c] /\ alloc_no[c] \subseteq alloc_no'[c]
  PROVE  OpsTell'
<1>1. /\ Len(entered[r]) \in Nat /\ Len(entered'[r]) = Len(entered[r]) + 1
      /\ \A m \in 1 .. Len(entered[r]) : entered'[r][m] = entered[r][m]
      /\ entered'[r][Len(entered[r]) + 1] = e
      /\ \A q \in CollRanks : q # r => entered'[q] = entered[q]
  BY EnterEffect, Zenon
<1>2. program' = program
  BY Zenon DEF EnterStep
<1> SUFFICES ASSUME NEW q \in CollRanks, NEW m \in 1 .. Len(entered'[q])
             PROVE  LET f == entered'[q][m]
                    IN  /\ (Opens(f) /\ program'[f.call] \in FromAll) => q \in alloc_ok'[f.call]
                        /\ f.op # "barrier" => f.op = program'[f.call]
                        /\ (f.op # "barrier" /\ f.step = 1) =>
                             program'[f.call] \in FromAll /\ q \in alloc_no'[f.call]
                        /\ (f.op # "barrier" /\ f.step = 2) =>
                             alloc_no'[f.call] # {} /\ (program'[f.call] \in FromRoot \/ alloc_ok'[f.call] # {})
  BY Zenon DEF OpsTell, Uneven
<1>3. CASE q = r /\ m = Len(entered[r]) + 1
  BY <1>1, <1>2, <1>3, Zenon DEF Tells
<1>4. CASE ~ (q = r /\ m = Len(entered[r]) + 1)
  <2>1. m \in 1 .. Len(entered[q]) /\ entered'[q][m] = entered[q][m]
    BY <1>1, <1>4
  <2> DEFINE f == entered[q][m]
  <2>2. f.call \in 1 .. CollCalls
    BY <2>1, EntryType, Zenon
  <2>3. /\ (Opens(f) /\ program[f.call] \in FromAll) => q \in alloc_ok[f.call]
        /\ f.op # "barrier" => f.op = program[f.call]
        /\ (f.op # "barrier" /\ f.step = 1) => program[f.call] \in FromAll /\ q \in alloc_no[f.call]
        /\ (f.op # "barrier" /\ f.step = 2) =>
             alloc_no[f.call] # {} /\ (program[f.call] \in FromRoot \/ alloc_ok[f.call] # {})
    BY <2>1, Zenon DEF OpsTell, Uneven
  <2>4. alloc_ok[f.call] \subseteq alloc_ok'[f.call] /\ alloc_no[f.call] \subseteq alloc_no'[f.call]
    BY <2>2, Zenon
  <2> HIDE DEF f
  <2>5. entered'[q][m] = f
    BY <2>1, Zenon DEF f
  <2> QED BY <1>2, <2>3, <2>4, <2>5, Zenon
<1> QED BY <1>3, <1>4, Zenon

\* Entering keeps the registered buffers those of the present calls when the
\* one of r is, and a call's reads what it promises when those of r are.
LEMMA BuffersStay ==
  ASSUME CollTypes, BufferOfCall, NEW r \in CollRanks, NEW e, EnterStep(r, e),
         \A q \in CollRanks : q # r => coll_data_rptr'[q] = coll_data_rptr[q],
         \A c \in 1 .. CollCalls : alloc_no[c] \subseteq alloc_no'[c],
         (Opens(e) \/ e.step = 2) =>
           \/ coll_data_rptr'[r] = <<r, e.call>>
           \/ /\ coll_data_rptr'[r] = NoBuffer
              /\ r \in Providers(program[e.call]) => r \in alloc_no'[e.call]
  PROVE  BufferOfCall'
<1>1. /\ Len(entered[r]) \in Nat /\ Len(entered'[r]) = Len(entered[r]) + 1
      /\ entered'[r][Len(entered[r]) + 1] = e
      /\ \A q \in CollRanks : q # r => entered'[q] = entered[q]
  BY EnterEffect, Zenon
<1>2. program' = program
  BY Zenon DEF EnterStep
<1> SUFFICES ASSUME NEW q \in CollRanks,
                    Len(entered'[q]) > 0,
                    \/ Opens(entered'[q][Len(entered'[q])])
                    \/ entered'[q][Len(entered'[q])].step = 2
             PROVE  LET last == entered'[q][Len(entered'[q])]
                    IN  \/ coll_data_rptr'[q] = <<q, last.call>>
                        \/ /\ coll_data_rptr'[q] = NoBuffer
                           /\ q \in Providers(program'[last.call]) => q \in alloc_no'[last.call]
  BY Zenon DEF BufferOfCall
<1>3. CASE q = r
  <2>1. entered'[q][Len(entered'[q])] = e
    BY <1>1, <1>3, Zenon
  <2> QED BY <1>2, <1>3, <2>1, Zenon
<1>4. CASE q # r
  <2>1. entered'[q] = entered[q] /\ coll_data_rptr'[q] = coll_data_rptr[q]
    BY <1>1, <1>4, Zenon
  <2> DEFINE last == entered[q][Len(entered[q])]
  <2>2. \/ coll_data_rptr[q] = <<q, last.call>>
        \/ /\ coll_data_rptr[q] = NoBuffer
           /\ q \in Providers(program[last.call]) => q \in alloc_no[last.call]
    BY <2>1, Zenon DEF BufferOfCall
  <2>3. last.call \in 1 .. CollCalls
    <3>1. Len(entered[q]) \in 1 .. Len(entered[q])
      BY <2>1, SeqLen DEF CollTypes
    <3> QED BY <3>1, EntryType, Zenon
  <2> QED BY <1>2, <2>1, <2>2, <2>3, Zenon
<1> QED BY <1>3, <1>4, Zenon

\* What the other ranks have read stays promised when r enters an operation.
LEMMA ReadsStay ==
  ASSUME CollTypes, OpsInOrder, ReadIsPromised, NEW r \in CollRanks, NEW e, EnterStep(r, e),
         \A q \in CollRanks : q # r => collected'[q] = collected[q],
         (e.op = "barrier" /\ e.step = 2) =>
           \/ collected'[r] = Promised(r, program[ncall[r]], ncall[r])
           \/ \E q \in CollRanks : /\ Len(entered'[q]) >= Len(entered'[r])
                                   /\ entered'[q][Len(entered'[r])].op # "barrier"
  PROVE  ReadIsPromised'
<1>1. /\ Len(entered[r]) \in Nat /\ Len(entered'[r]) = Len(entered[r]) + 1
      /\ \A m \in 1 .. Len(entered[r]) : entered'[r][m] = entered[r][m]
      /\ cpos'[r] = PlaceOf(e)
      /\ \A q \in CollRanks : q # r => entered'[q] = entered[q] /\ cpos'[q] = cpos[q]
  BY EnterEffect, Zenon
<1>2. program' = program /\ ncall' = ncall /\ e \in MpiOp
  BY Zenon DEF EnterStep
<1> SUFFICES ASSUME NEW q \in CollRanks, cpos'[q] = "barrier2"
             PROVE  \/ collected'[q] = Promised(q, program'[ncall'[q]], ncall'[q])
                    \/ \E u \in CollRanks : /\ Len(entered'[u]) >= Len(entered'[q])
                                            /\ entered'[u][Len(entered'[q])].op # "barrier"
  BY Zenon DEF ReadIsPromised
<1>3. CASE q = r
  <2>1. e.op = "barrier" /\ e.step = 2
    BY <1>1, <1>2, <1>3, Zenon DEF PlaceOf, Opens, MpiOp
  <2> QED BY <1>2, <1>3, <2>1, Zenon
<1>4. CASE q # r
  <2>1. cpos[q] = "barrier2" /\ entered'[q] = entered[q] /\ collected'[q] = collected[q]
    BY <1>1, <1>4, Zenon
  <2>2. CASE collected[q] = Promised(q, program[ncall[q]], ncall[q])
    BY <1>2, <2>1, <2>2, Zenon
  <2>3. CASE \E u \in CollRanks : /\ Len(entered[u]) >= Len(entered[q])
                                  /\ entered[u][Len(entered[q])].op # "barrier"
    <3>1. PICK u \in CollRanks : /\ Len(entered[u]) >= Len(entered[q])
                                 /\ entered[u][Len(entered[q])].op # "barrier"
      BY <2>3, Zenon
    <3>2. CASE u # r
      BY <1>1, <2>1, <3>1, <3>2, Zenon
    <3>3. CASE u = r
      <4>1. Len(entered[q]) \in Nat
        BY SeqLen, Zenon DEF CollTypes
      <4>2. CASE Len(entered[q]) = 0
        BY <2>1, <4>2, Zenon DEF OpsInOrder
      <4>3. CASE Len(entered[q]) > 0
        <5>1. Len(entered[q]) \in 1 .. Len(entered[r])
          BY <1>1, <3>1, <3>3, <4>1, <4>3
        <5> QED BY <1>1, <2>1, <3>1, <3>3, <5>1
      <4> QED BY <4>1, <4>2, <4>3
    <3> QED BY <3>2, <3>3, Zenon
  <2> QED BY <2>1, <2>2, <2>3, Zenon DEF ReadIsPromised
<1> QED BY <1>3, <1>4, Zenon

\* Each way into an operation keeps the invariant.
LEMMA EnterKeeps ==
  ASSUME CollInv, NEW r \in CollRanks, NEW e, EnterStep(r, e), CollTypes', good' = good,
         OpsTell', BufferOfCall', ReadIsPromised'
  PROVE  CollInv'
<1>1. OpsInOrder' /\ LeftAgree' /\ SamePlace' /\ LeftAwaited'
  BY EnterKeepsOrder, Zenon DEF CollInv, OrderInv
<1> QED BY <1>1, Zenon DEF CollInv

\* cxl_collective_register_buffer and the first barrier keep the invariant.
LEMMA RegisterKeeps ==
  ASSUME CollInv, NEW r \in CollRanks, Register(r) PROVE CollInv'
<1>1. /\ CollTypes /\ OpsInOrder /\ OpsTell /\ BufferOfCall /\ ReadIsPromised
  BY Zenon DEF CollInv
<1>2. PICK e \in MpiOp : EnterStep(r, e) /\ Opens(e)
  BY <1>1, RegisterEnters, Zenon
<1>3. CollTypes'
  BY <1>1, CollTypesStay, Zenon DEF CollStep
<1>4. /\ ncall[r] <= CollCalls /\ UNCHANGED <<collected, alloc_no, good>>
      /\ coll_data_rptr' = [coll_data_rptr EXCEPT ![r] =
           IF r \in Providers(CallKind(r)) THEN <<r, ncall[r]>> ELSE NoBuffer]
      /\ alloc_ok' = [alloc_ok EXCEPT ![ncall[r]] = @ \cup (Providers(CallKind(r)) \cap {r})]
  BY Zenon DEF Register
<1>5. ncall[r] \in 1 .. CollCalls /\ CallKind(r) = program[ncall[r]] /\ e.call = ncall[r]
      /\ CallKind(r) \in Kinds
  BY <1>1, <1>2, <1>4, CallInProgram, Zenon DEF EnterStep
<1>6. \A c \in 1 .. CollCalls : alloc_ok[c] \subseteq alloc_ok'[c] /\ alloc_no[c] \subseteq alloc_no'[c]
  BY <1>1, <1>4, Zenon DEF CollTypes
<1>7. e.op = "barrier" /\ e.step = 1
  BY <1>2, Zenon DEF Opens
<1>8. Tells(r, e)
  <2>1. program[e.call] \in FromAll => r \in alloc_ok'[e.call]
    <3> HAVE program[e.call] \in FromAll
    <3>1. Providers(CallKind(r)) = CollRanks
      BY <1>5, Zenon DEF Providers, FromRoot, FromAll
    <3> QED BY <1>1, <1>4, <1>5, <3>1, Zenon DEF CollTypes
  <2> QED BY <1>7, <2>1, Zenon DEF Tells
<1>9. OpsTell'
  BY <1>1, <1>2, <1>6, <1>8, TellsStay, Zenon
<1>10. /\ coll_data_rptr'[r] = IF r \in Providers(CallKind(r)) THEN <<r, ncall[r]>> ELSE NoBuffer
       /\ \A q \in CollRanks : q # r => coll_data_rptr'[q] = coll_data_rptr[q]
  BY <1>1, <1>4, Zenon DEF CollTypes
<1>11. BufferOfCall'
  BY <1>1, <1>2, <1>5, <1>6, <1>10, BuffersStay, Zenon
<1>12. ReadIsPromised'
  BY <1>1, <1>2, <1>4, <1>7, ReadsStay
<1> QED BY <1>2, <1>3, <1>4, <1>9, <1>11, <1>12, EnterKeeps, Zenon

\* So does an allocate_cxl_memory that fails: NULL is registered, or the rank
\* leaves for MPI and says so in alloc_no.
LEMMA NoMemoryKeeps ==
  ASSUME CollInv, NEW r \in CollRanks, NoMemory(r) PROVE CollInv'
<1>1. /\ CollTypes /\ OpsInOrder /\ OpsTell /\ BufferOfCall /\ ReadIsPromised
  BY Zenon DEF CollInv
<1>2. PICK e \in MpiOp : /\ EnterStep(r, e) /\ e.step = 1
                         /\ e.op = IF CallKind(r) \in FromRoot THEN "barrier" ELSE CallKind(r)
  BY <1>1, NoMemoryEnters, Zenon
<1>3. CollTypes'
  BY <1>1, CollTypesStay, Zenon DEF CollStep
<1>4. /\ ncall[r] <= CollCalls /\ UNCHANGED <<collected, alloc_ok, good>>
      /\ \/ CallKind(r) \in FromRoot /\ coll_data_rptr' = [coll_data_rptr EXCEPT ![r] = NoBuffer]
         \/ CallKind(r) \in FromAll /\ coll_data_rptr' = coll_data_rptr
      /\ alloc_no' = [alloc_no EXCEPT ![ncall[r]] = @ \cup {r}]
  BY Zenon DEF NoMemory
<1>5. ncall[r] \in 1 .. CollCalls /\ CallKind(r) = program[ncall[r]] /\ e.call = ncall[r]
      /\ CallKind(r) \in Kinds
  BY <1>1, <1>2, <1>4, CallInProgram, Zenon DEF EnterStep
<1>6. \A c \in 1 .. CollCalls : alloc_ok[c] \subseteq alloc_ok'[c] /\ alloc_no[c] \subseteq alloc_no'[c]
  BY <1>1, <1>4, Zenon DEF CollTypes
<1>7. r \in alloc_no'[e.call]
  BY <1>1, <1>4, <1>5, Zenon DEF CollTypes
<1>8. Tells(r, e)
  <2>1. CASE CallKind(r) \in FromRoot
    BY <1>2, <1>5, <2>1, Zenon DEF Tells, FromRoot, FromAll
  <2>2. CASE CallKind(r) \notin FromRoot
    BY <1>2, <1>4, <1>5, <1>7, <2>2 DEF Tells, Opens, FromAll
  <2> QED BY <2>1, <2>2, Zenon
<1>9. OpsTell'
  BY <1>1, <1>2, <1>6, <1>8, TellsStay, Zenon
<1>10. \A q \in CollRanks : q # r => coll_data_rptr'[q] = coll_data_rptr[q]
  BY <1>1, <1>4, Zenon DEF CollTypes
<1>11. Opens(e) => coll_data_rptr'[r] = NoBuffer
  <2> HAVE Opens(e)
  <2>1. CallKind(r) \in FromRoot /\ CallKind(r) \notin FromAll
    BY <1>2, <1>5, Zenon DEF Opens, Kinds, FromRoot, FromAll
  <2> QED BY <1>1, <1>4, <2>1, Zenon DEF CollTypes
<1>12. BufferOfCall'
  BY <1>1, <1>2, <1>6, <1>7, <1>10, <1>11, BuffersStay
<1>13. ReadIsPromised'
  BY <1>1, <1>2, <1>4, ReadsStay
<1> QED BY <1>2, <1>3, <1>4, <1>9, <1>12, <1>13, EnterKeeps, Zenon

\* Looking at the buffers leaves the registered ones alone; the call of r goes
\* on with the buffer it had.
LEMMA LookKeepsBuffers ==
  ASSUME CollInv, NEW r \in CollRanks, NEW e, EnterStep(r, e), e.step = 2,
         UNCHANGED <<coll_data_rptr, alloc_no>>
  PROVE  BufferOfCall'
<1>1. CollTypes /\ OpsInOrder /\ BufferOfCall
  BY Zenon DEF CollInv
<1>2. cpos[r] = "barrier1" /\ e.call = ncall[r]
  BY DEF EnterStep
<1>3. Len(entered[r]) > 0
  <2>1. Len(entered[r]) \in Nat /\ Len(entered[r]) # 0
    BY <1>1, <1>2, SeqLen, Zenon DEF OpsInOrder, CollTypes
  <2> QED BY <2>1
<1>4. LET last == entered[r][Len(entered[r])] IN Opens(last) /\ last.call = e.call
  BY <1>1, <1>2, <1>3, Zenon DEF OpsInOrder
<1>5. \/ coll_data_rptr[r] = <<r, e.call>>
      \/ /\ coll_data_rptr[r] = NoBuffer
         /\ r \in Providers(program[e.call]) => r \in alloc_no[e.call]
  BY <1>1, <1>3, <1>4, Zenon DEF BufferOfCall
<1> QED BY <1>1, <1>5, BuffersStay, Zenon

\* A rank reads buffers of its own call, unless a provider has gone on, and
\* then that provider did not enter the second barrier.
LEMMA ReadBuffersKeeps ==
  ASSUME CollInv, NEW r \in CollRanks, ReadBuffers(r) PROVE CollInv'
<1>1. /\ CollTypes /\ OpsInOrder /\ OpsTell /\ BufferOfCall /\ ReadIsPromised
  BY Zenon DEF CollInv
<1>2. PICK e \in MpiOp : EnterStep(r, e) /\ e.step = 2 /\ e.op = "barrier"
  BY <1>1, LooksEnters, Zenon
<1>3. CollTypes'
  BY <1>1, CollTypesStay, Zenon DEF CollStep
<1> DEFINE n == Len(entered[r])
           c == ncall[r]
           k == CallKind(r)
<1>4. /\ cpos[r] = "barrier1" /\ MayLeave(r)
      /\ UNCHANGED <<coll_data_rptr, alloc_ok, alloc_no, good>>
      /\ Reads(r, k) => \A q \in Providers(k) : coll_data_rptr[q] # NoBuffer
      /\ collected' = [collected EXCEPT ![r] =
           IF Reads(r, k) THEN {coll_data_rptr[q] : q \in Providers(k)} ELSE Promised(r, k, c)]
  BY Zenon DEF ReadBuffers, CollGoto
<1>5. ncall[r] <= CollCalls
  BY <1>1, <1>4, Zenon DEF CollTypes
<1>6. c \in 1 .. CollCalls /\ k = program[c] /\ k \in Kinds
  BY <1>1, <1>5, CallInProgram, Zenon
<1>7. OpsTell'
  <2>1. Tells(r, e)
    BY <1>2 DEF Tells, Opens
  <2> QED BY <1>1, <1>2, <1>4, <2>1, TellsStay, Zenon
<1>8. BufferOfCall'
  BY <1>2, <1>4, LookKeepsBuffers, Zenon
<1>9. /\ collected'[r] = IF Reads(r, k) THEN {coll_data_rptr[q] : q \in Providers(k)} ELSE Promised(r, k, c)
      /\ \A q \in CollRanks : q # r => collected'[q] = collected[q]
  BY <1>1, <1>4, Zenon DEF CollTypes
<1>10. \/ collected'[r] = Promised(r, program[c], c)
       \/ \E q \in CollRanks : /\ Len(entered'[q]) >= Len(entered'[r])
                               /\ entered'[q][Len(entered'[r])].op # "barrier"
  <2>1. CASE ~ Reads(r, k)
    BY <1>6, <1>9, <2>1, Zenon
  <2>2. CASE Reads(r, k) /\ \A q \in Providers(k) : coll_data_rptr[q] = <<q, c>>
    <3>1. {coll_data_rptr[q] : q \in Providers(k)} = Promised(r, k, c)
      BY <1>6, <2>2, BuffersArePromised
    <3> QED BY <1>6, <1>9, <2>2, <3>1, Zenon
  <2>3. CASE Reads(r, k) /\ \E q \in Providers(k) : coll_data_rptr[q] # <<q, c>>
    <3>1. PICK q \in Providers(k) : coll_data_rptr[q] # <<q, c>>
      BY <2>3, Zenon
    <3>2. q \in CollRanks
      BY <1>6, PromisedType, Zenon
    <3>3. coll_data_rptr[q] # NoBuffer
      BY <1>4, <2>3, Zenon
    <3>4. /\ n \in Nat /\ Len(entered[q]) \in Nat
          /\ Len(entered[q]) >= n + 2 /\ entered[q][n + 1].op # "barrier"
      BY <1>4, <3>1, <3>2, <3>3, BuffersAtBarrier, Zenon
    <3>5. q # r
      BY <3>4
    <3>6. Len(entered'[r]) = n + 1 /\ entered'[q] = entered[q]
      BY <1>1, <1>2, <3>2, <3>5, EnterEffect, Zenon
    <3>7. Len(entered'[q]) >= n + 1
      BY <3>4, <3>6
    <3> HIDE DEF n
    <3> QED BY <3>2, <3>4, <3>6, <3>7, Zenon
  <2> QED BY <2>1, <2>2, <2>3, Zenon
<1>11. ReadIsPromised'
  BY <1>1, <1>2, <1>9, <1>10, ReadsStay, Zenon
<1> QED BY <1>2, <1>3, <1>4, <1>7, <1>8, <1>11, EnterKeeps, Zenon

\* A buffer is missing only in a call that is uneven.
LEMMA BufferMissingKeeps ==
  ASSUME CollInv, NEW r \in CollRanks, BufferMissing(r) PROVE CollInv'
<1>1. /\ CollTypes /\ OpsInOrder /\ OpsTell /\ BufferOfCall /\ ReadIsPromised
  BY Zenon DEF CollInv
<1>2. ~ ReadBuffers(r)
  BY Zenon DEF ReadBuffers, BufferMissing
<1>3. PICK e \in MpiOp : EnterStep(r, e) /\ e.step = 2 /\ e.op = CallKind(r) /\ e.op # "barrier"
  BY <1>1, <1>2, LooksEnters
<1>4. CollTypes'
  BY <1>1, CollTypesStay, Zenon DEF CollStep
<1> DEFINE n == Len(entered[r])
           c == ncall[r]
           k == CallKind(r)
<1>5. /\ cpos[r] = "barrier1" /\ MayLeave(r)
      /\ UNCHANGED <<coll_data_rptr, alloc_ok, alloc_no, collected, good>>
      /\ \E q \in Providers(k) : coll_data_rptr[q] = NoBuffer
  BY Zenon DEF BufferMissing, CollGoto
<1>6. ncall[r] <= CollCalls
  BY <1>1, <1>5, Zenon DEF CollTypes
<1>7. c \in 1 .. CollCalls /\ k = program[c] /\ k \in Kinds /\ e.call = c
  BY <1>1, <1>3, <1>6, CallInProgram, Zenon DEF EnterStep
<1>8. alloc_no[c] # {} /\ (program[c] \in FromRoot \/ alloc_ok[c] # {})
  <2>1. PICK q \in Providers(k) : coll_data_rptr[q] = NoBuffer
    BY <1>5, Zenon
  <2>2. q \in CollRanks
    BY <1>7, PromisedType, Zenon
  <2>3. coll_data_rptr[q] # <<q, c>>
    BY <2>1 DEF NoBuffer
  <2>4. /\ n \in Nat /\ n > 0 /\ Len(entered[q]) \in Nat /\ Len(entered[q]) >= n
        /\ Opens(entered[q][n]) /\ entered[q][n].call = c
        /\ \/ q \in Providers(program[c]) => q \in alloc_no[c]
           \/ /\ Len(entered[q]) >= n + 2 /\ entered[q][n + 1].op # "barrier"
              /\ entered[q][n + 1].call = c /\ entered[q][n + 1].step = 2
    BY <1>5, <2>2, <2>3, BuffersAtBarrier, Zenon
  <2>5. CASE q \in alloc_no[c]
    <3>1. n \in 1 .. Len(entered[q])
      BY <2>4
    <3>2. program[c] \in FromAll => q \in alloc_ok[c]
      BY <1>1, <2>2, <2>4, <3>1, Zenon DEF OpsTell
    <3> QED BY <1>7, <2>5, <3>2, Zenon DEF Kinds
  <2>6. CASE /\ Len(entered[q]) >= n + 2 /\ entered[q][n + 1].op # "barrier"
             /\ entered[q][n + 1].call = c /\ entered[q][n + 1].step = 2
    <3>1. n + 1 \in 1 .. Len(entered[q])
      BY <2>4, <2>6
    <3>2. Uneven(entered[q][n + 1].call)
      BY <1>1, <2>2, <2>6, <3>1, Zenon DEF OpsTell
    <3> QED BY <2>6, <3>2, Zenon DEF Uneven
  <2> QED BY <1>7, <2>1, <2>4, <2>5, <2>6, Zenon
<1>9. OpsTell'
  <2>1. Tells(r, e)
    BY <1>3, <1>5, <1>7, <1>8 DEF Tells, Opens
  <2> QED BY <1>1, <1>3, <1>5, <2>1, TellsStay, Zenon
<1>10. BufferOfCall'
  BY <1>3, <1>5, LookKeepsBuffers, Zenon
<1>11. ReadIsPromised'
  BY <1>1, <1>3, <1>5, ReadsStay, Zenon
<1> QED BY <1>3, <1>4, <1>5, <1>9, <1>10, <1>11, EnterKeeps, Zenon

\* A call returns what it promises: the second barrier is entered by all, so
\* what the rank read came from this call; the collective of MPI is MPI's.
LEMMA ReturnKeeps ==
  ASSUME CollInv, NEW r \in CollRanks, Complete(r) \/ CompleteFallback(r) PROVE CollInv'
<1>1. /\ CollTypes /\ OpsInOrder /\ OpsTell /\ BufferOfCall /\ ReadIsPromised /\ good
  BY Zenon DEF CollInv
<1>2. ReturnStep(r)
  BY Zenon DEF Complete, CompleteFallback, Returns, ReturnStep
<1>3. OpsInOrder' /\ LeftAgree' /\ SamePlace' /\ LeftAwaited'
  BY <1>2, ReturnKeepsOrder, Zenon DEF CollInv, OrderInv
<1>4. CollTypes'
  BY <1>1, CollTypesStay, Zenon DEF CollStep
<1>5. /\ UNCHANGED <<program, coll_data_rptr, entered, collected, alloc_ok, alloc_no>>
      /\ cpos' = [cpos EXCEPT ![r] = "start"] /\ ncall' = [ncall EXCEPT ![r] = @ + 1]
  BY <1>2, Zenon DEF ReturnStep
<1>6. OpsTell' /\ BufferOfCall'
  BY <1>1, <1>5 DEF OpsTell, BufferOfCall, Uneven
<1>7. ReadIsPromised'
  <2>1. \A q \in CollRanks : cpos'[q] = "barrier2" =>
          cpos[q] = "barrier2" /\ ncall'[q] = ncall[q]
    BY <1>1, <1>5, Zenon DEF CollTypes
  <2> QED BY <1>1, <1>5, <2>1 DEF ReadIsPromised
<1>8. good'
  <2>1. CASE CompleteFallback(r)
    BY <1>1, <2>1, Zenon DEF CompleteFallback, Returns
  <2>2. CASE Complete(r)
    <3>1. /\ cpos[r] = "barrier2" /\ MayLeave(r)
          /\ good' = (good /\ collected[r] = Promised(r, CallKind(r), ncall[r]))
      BY <2>2, Zenon DEF Complete, Returns
    <3>2. /\ Len(entered[r]) > 0 /\ entered[r][Len(entered[r])].op = "barrier"
      <4>1. Len(entered[r]) \in Nat /\ Len(entered[r]) # 0
        BY <1>1, <3>1, SeqLen, Zenon DEF OpsInOrder, CollTypes
      <4> QED BY <1>1, <3>1, <4>1 DEF OpsInOrder
    <3>3. \A q \in CollRanks : Len(entered[q]) >= Len(entered[r])
                                 => entered[q][Len(entered[r])].op = "barrier"
      <4>1. Agree(Len(entered[r])) /\ Len(entered[r]) \in Nat
        BY <1>1, <3>1, SeqLen, Zenon DEF MayLeave, CollTypes
      <4> QED BY <3>2, <4>1 DEF Agree
    <3>4. collected[r] = Promised(r, program[ncall[r]], ncall[r])
      BY <1>1, <3>1, <3>3, Zenon DEF ReadIsPromised
    <3> QED BY <1>1, <3>1, <3>4, Zenon DEF CallKind
  <2> QED BY <2>1, <2>2, Zenon
<1> QED BY <1>3, <1>4, <1>6, <1>7, <1>8, Zenon DEF CollInv

\* Before the first call no rank has entered anything.
LEMMA CollInitInv == CollInit => CollInv
<1> SUFFICES ASSUME CollInit PROVE CollInv
  OBVIOUS
<1>1. \A r \in CollRanks : /\ entered[r] = <<>> /\ Len(entered[r]) = 0
                           /\ cpos[r] = "start" /\ ncall[r] = 1
  BY Zenon DEF CollInit
<1>2. CollTypes
  <2>1. <<>> \in Seq(MpiOp) /\ NoBuffer \in Contribution /\ 1 \in 1 .. CollCalls + 1
    BY CollAssumption DEF Contribution
  <2> QED BY <1>1, <2>1, Zenon DEF CollInit, CollTypes, CollLabels
<1>3. OpsInOrder
  BY <1>1 DEF OpsInOrder
<1>4. LeftAgree /\ SamePlace /\ LeftAwaited /\ OpsTell
  BY <1>1 DEF LeftAgree, SamePlace, LeftAwaited, OpsTell
<1>5. BufferOfCall /\ ReadIsPromised /\ good
  BY <1>1 DEF BufferOfCall, ReadIsPromised, CollInit
<1> QED BY <1>2, <1>3, <1>4, <1>5, Zenon DEF CollInv

\* The invariant is inductive.
LEMMA CollInductive == CollInv /\ [CollNext]_collVars => CollInv'
<1> SUFFICES ASSUME CollInv, [CollNext]_collVars PROVE CollInv'
  OBVIOUS
<1>1. CASE UNCHANGED collVars
  <2>1. UNCHANGED <<program, coll_data_rptr, cpos, ncall, entered, collected, alloc_ok, alloc_no, good>>
    BY <1>1, Zenon DEF collVars
  <2>2. CollTypes' /\ OpsInOrder' /\ LeftAgree' /\ SamePlace' /\ LeftAwaited'
    BY <2>1 DEF CollInv, CollTypes, OpsInOrder, LeftAgree, SamePlace, LeftAwaited
  <2>3. OpsTell' /\ BufferOfCall' /\ ReadIsPromised' /\ good'
    BY <2>1 DEF CollInv, OpsTell, BufferOfCall, ReadIsPromised, Uneven
  <2> QED BY <2>2, <2>3, Zenon DEF CollInv
<1>2. ASSUME NEW r \in CollRanks, CollStep(r) PROVE CollInv'
  BY <1>2, RegisterKeeps, NoMemoryKeeps, ReadBuffersKeeps, BufferMissingKeeps, ReturnKeeps, Zenon
     DEF CollStep
<1> QED BY <1>1, <1>2, Zenon DEF CollNext

\* Every collective of the shim returns the contributions to this very call,
\* for any number of ranks and calls, any mix of collectives, and whichever
\* ranks run out of memory.
THEOREM CollResults == CollSpec => []CollectiveResults
<1>1. CollInv => CollectiveResults
  BY Zenon DEF CollInv, CollectiveResults
<1> QED BY <1>1, CollInitInv, CollInductive, PTL DEF CollSpec

\* The ranks meet in the same operations of MPI as long as no call was uneven.
THEOREM CollMatch == CollSpec => []CollectivesMatch
<1>1. CollInv => CollectivesMatch
  <2> SUFFICES ASSUME CollInv, ~SomeUneven, NEW r \in CollRanks, NEW n \in 1 .. Len(entered[r]),
                      NEW p \in CollRanks, NEW q \in CollRanks,
                      Len(entered[p]) >= n, Len(entered[q]) >= n
               PROVE  entered[p][n].op = entered[q][n].op
    BY Zenon DEF CollectivesMatch, Agree
  <2>1. CollTypes /\ SamePlace /\ OpsTell
    BY Zenon DEF CollInv
  <2>2. n \in 1 .. Len(entered[p]) /\ n \in 1 .. Len(entered[q])
    BY <2>1, SeqLen DEF CollTypes
  <2> DEFINE e == entered[p][n]
             f == entered[q][n]
  <2>3. e.call = f.call /\ e.step = f.step
    BY <2>1, <2>2, Zenon DEF SamePlace
  <2>4. e.call \in 1 .. CollCalls /\ e.step \in {1, 2}
    BY <2>1, <2>2, EntryType, Zenon
  <2>5. alloc_no[e.call] = {} \/ ~ (program[e.call] \in FromRoot \/ alloc_ok[e.call] # {})
    BY <2>4, Zenon DEF SomeUneven, Uneven
  <2>6. \A u \in {p, q} : LET g == entered[u][n]
          IN  /\ (Opens(g) /\ program[g.call] \in FromAll) => u \in alloc_ok[g.call]
              /\ g.op # "barrier" => g.op = program[g.call]
              /\ (g.op # "barrier" /\ g.step = 1) =>
                   program[g.call] \in FromAll /\ u \in alloc_no[g.call]
              /\ (g.op # "barrier" /\ g.step = 2) =>
                   alloc_no[g.call] # {} /\ (program[g.call] \in FromRoot \/ alloc_ok[g.call] # {})
    BY <2>1, <2>2, Zenon DEF OpsTell, Uneven
  <2>7. CASE e.step = 2
    BY <2>3, <2>5, <2>6, <2>7, Zenon
  <2>8. CASE e.step = 1
    BY <2>3, <2>5, <2>6, <2>8, Zenon DEF Opens
  <2> QED BY <2>4, <2>7, <2>8, Zenon
<1> QED BY <1>1, CollInitInv, CollInductive, PTL DEF CollSpec
=============================================================================
