----------------------------- MODULE MpiWindow -----------------------------
(***************************************************************************)
(* The one-sided windows of the MPI shim (mpi_cxl_shim.c).  Every rank has *)
(* a buffer that MPI owns (local_base) and, when allocate_cxl_memory had   *)
(* room, a mirror of it in CXL memory (cxl_base).  Ranks of one VM put to  *)
(* and get from the mirror directly; a put goes to MPI as well, and the    *)
(* owner copies its buffer over its mirror at its synchronisation calls.   *)
(* MPI itself is external: a put reaches the buffer some time before the   *)
(* call that completes it returns.  Programs are correct MPI programs: a   *)
(* location that is written in an epoch has no second access in it.  A     *)
(* window has one location per rank; the value of a write is its number.   *)
(***************************************************************************)
EXTENDS Integers, FiniteSets

CONSTANTS
  WinRanks,         \* the ranks of the window's communicator
  VmOf,             \* VmOf[r]: the host of rank r
  Mirrored,         \* the ranks whose cxl_base is not NULL
  SyncModes,        \* how the program synchronises: "fence", "lock"
  MaxWrites,        \* bound of the model on writes
  MaxFences         \* bound of the model on fences

ASSUME WindowAssumption ==
  /\ Mirrored \subseteq WinRanks /\ SyncModes \subseteq {"fence", "lock"}
  /\ MaxWrites \in Nat /\ MaxFences \in Nat

VARIABLES
  sync_mode,        \* the one of SyncModes this program uses
  local_base,       \* local_base[r]: the value in the buffer of rank r
  mirror,           \* mirror[r]: the value in its mirror
  outstanding,      \* puts that MPI has not applied yet
  wpc,              \* wpc[r]: "epoch", "fence" (in MPI_Win_fence), "left", "unlock"
  fences,           \* fences[r]: the fences rank r has left
  held,             \* held[r]: the rank whose window r has locked, and how
  used,             \* used[t]: how the location of t is accessed in this epoch
  writes,
  \* history, not in the code:
  current,          \* current[t]: the last value written to t
  writer,           \* writer[t]: how it was written
  late,             \* late[t]: the mirror of t may lack a write MPI has accepted
  seen              \* the last get: whether it returned current, how that was written

winVars == <<sync_mode, local_base, mirror, outstanding, wpc, fences, held, used, writes,
             current, writer, late, seen>>

Unlocked == <<>>
\* cxl_enabled: a mirror of its own and a peer on the same host.
Enabled(r) == r \in Mirrored /\ \E p \in WinRanks \ {r} : VmOf[p] = VmOf[r]
\* The guard of the direct path of MPI_Put and MPI_Get.
Direct(o, t) == Enabled(o) /\ VmOf[o] = VmOf[t] /\ t \in Mirrored
To(t) == {p \in outstanding : p.target = t}
From(o) == {p \in outstanding : p.origin = o}

WinInit ==
  /\ sync_mode \in SyncModes
  /\ local_base = [r \in WinRanks |-> 0] /\ mirror = [r \in WinRanks |-> 0]
  /\ outstanding = {} /\ wpc = [r \in WinRanks |-> "epoch"]
  /\ fences = [r \in WinRanks |-> 0] /\ held = [r \in WinRanks |-> Unlocked]
  /\ used = [r \in WinRanks |-> "no"] /\ writes = 0
  /\ current = [r \in WinRanks |-> 0] /\ writer = [r \in WinRanks |-> "none"]
  /\ late = [r \in WinRanks |-> FALSE]
  /\ seen = [right |-> TRUE, late |-> FALSE, writer |-> "none"]
-----------------------------------------------------------------------------
(* cxl_sync_mirror: the owner's buffer over the owner's mirror             *)

Sync_Bug(r) ==
  /\ UNCHANGED mirror
  /\ late' = [late EXCEPT ![r] = r \in Mirrored /\ To(r) # {}]

\* It loses a direct put that MPI has not applied to the buffer yet.
Sync(r) ==
  /\ mirror' = IF r \in Mirrored THEN [mirror EXCEPT ![r] = local_base[r]] ELSE mirror
  /\ late' = [late EXCEPT ![r] = r \in Mirrored /\ To(r) # {}]

NoSync == UNCHANGED <<mirror, late>>
-----------------------------------------------------------------------------
(* The accesses a correct program makes                                    *)

MayWrite(o, t) ==
  /\ wpc[o] = "epoch" /\ writes < MaxWrites /\ used[t] = "no"
  /\ sync_mode = "lock" => held[o] = <<t, "exclusive">>
MayRead(o, t) ==
  /\ wpc[o] = "epoch" /\ used[t] # "write"
  /\ sync_mode = "lock" => held[o] # Unlocked /\ held[o][1] = t

Written(t, how) ==
  /\ used' = [used EXCEPT ![t] = "write"] /\ writes' = writes + 1
  /\ current' = [current EXCEPT ![t] = writes + 1]
  /\ writer' = [writer EXCEPT ![t] = how]

\* A store of the owner through the pointer MPI_Win_allocate returned.
WinStore(r) ==
  /\ MayWrite(r, r) /\ Written(r, "store")
  /\ local_base' = [local_base EXCEPT ![r] = writes + 1]
  /\ late' = [late EXCEPT ![r] = TRUE]
  /\ UNCHANGED <<sync_mode, mirror, outstanding, wpc, fences, held, seen>>

\* MPI_Put: to the mirror of a rank on this host, and always to MPI.
MPI_Put(o, t) ==
  /\ MayWrite(o, t) /\ Written(t, "put")
  /\ mirror' = IF Direct(o, t) THEN [mirror EXCEPT ![t] = writes + 1] ELSE mirror
  /\ late' = [late EXCEPT ![t] = ~Direct(o, t)]
  /\ outstanding' = outstanding \cup {[origin |-> o, target |-> t, value |-> writes + 1]}
  /\ UNCHANGED <<sync_mode, local_base, wpc, fences, held, seen>>

\* MPI applies a put to the target's buffer.
PutArrives ==
  /\ \E p \in outstanding :
       /\ local_base' = [local_base EXCEPT ![p.target] = p.value]
       /\ outstanding' = outstanding \ {p}
  /\ UNCHANGED <<sync_mode, mirror, wpc, fences, held, used, writes, current, writer, late, seen>>

\* MPI_Get: from the mirror of a rank on this host, otherwise through MPI.
MPI_Get(o, t) ==
  /\ MayRead(o, t) /\ used' = [used EXCEPT ![t] = "read"]
  /\ LET value == IF Direct(o, t) THEN mirror[t] ELSE local_base[t]
     IN seen' = [right |-> value = current[t], late |-> Direct(o, t) /\ late[t],
                 writer |-> writer[t]]
  /\ UNCHANGED <<sync_mode, local_base, mirror, outstanding, wpc, fences, held, writes,
                 current, writer, late>>
-----------------------------------------------------------------------------
(* MPI_Win_fence                                                           *)

\* The mirror is refreshed before the fence of MPI is entered.
FenceEnter(r) ==
  /\ sync_mode = "fence" /\ wpc[r] = "epoch" /\ fences[r] < MaxFences
  /\ wpc' = [wpc EXCEPT ![r] = "fence"]
  /\ IF Enabled(r) THEN Sync(r) ELSE NoSync
  /\ UNCHANGED <<sync_mode, local_base, outstanding, fences, held, used, writes, current, writer, seen>>

\* The fence of MPI: every rank has entered and every put is applied.  The
\* first rank to leave begins the next epoch.
FenceLeave(r) ==
  /\ wpc[r] = "fence"
  /\ \/ /\ \A q \in WinRanks : wpc[q] = "fence" /\ fences[q] = fences[r]
        /\ outstanding = {} /\ used' = [t \in WinRanks |-> "no"]
     \/ /\ \E q \in WinRanks : fences[q] > fences[r]
        /\ UNCHANGED used
  /\ wpc' = [wpc EXCEPT ![r] = "left"] /\ fences' = [fences EXCEPT ![r] = @ + 1]
  /\ UNCHANGED <<sync_mode, local_base, mirror, outstanding, held, writes, current, writer, late, seen>>

\* The mirror is refreshed again after it.
FencePost(r) ==
  /\ wpc[r] = "left" /\ wpc' = [wpc EXCEPT ![r] = "epoch"]
  /\ IF Enabled(r) THEN Sync(r) ELSE NoSync
  /\ UNCHANGED <<sync_mode, local_base, outstanding, fences, held, used, writes, current, writer, seen>>
-----------------------------------------------------------------------------
(* MPI_Win_lock, MPI_Win_unlock, MPI_Win_flush                             *)

Excludes(how, q, t) ==
  held[q] # Unlocked /\ held[q][1] = t /\ "exclusive" \in {how, held[q][2]}

\* The lock words of the shim are in the heap of each process, so only the
\* lock of MPI makes a rank wait; then the caller refreshes its own mirror.
MPI_Win_lock(o, t, how) ==
  /\ sync_mode = "lock" /\ wpc[o] = "epoch" /\ held[o] = Unlocked
  /\ ~\E q \in WinRanks : Excludes(how, q, t)
  /\ held' = [held EXCEPT ![o] = <<t, how>>] /\ Sync(o)
  /\ UNCHANGED <<sync_mode, local_base, outstanding, wpc, fences, used, writes, current, writer, seen>>

\* MPI completes the caller's puts, then the caller refreshes its own mirror.
MPI_Win_flush(o) ==
  /\ wpc[o] = "epoch" /\ held[o] # Unlocked /\ From(o) = {}
  /\ used' = IF held[o][2] = "exclusive" THEN [used EXCEPT ![held[o][1]] = "no"] ELSE used
  /\ Sync(o)
  /\ UNCHANGED <<sync_mode, local_base, outstanding, wpc, fences, held, writes, current, writer, seen>>

\* The caller refreshes its own mirror before MPI is asked to unlock.
UnlockSync(o) ==
  /\ wpc[o] = "epoch" /\ held[o] # Unlocked
  /\ wpc' = [wpc EXCEPT ![o] = "unlock"] /\ Sync(o)
  /\ UNCHANGED <<sync_mode, local_base, outstanding, fences, held, used, writes, current, writer, seen>>

\* MPI completes the caller's puts and releases the lock.
UnlockDone(o) ==
  /\ wpc[o] = "unlock" /\ From(o) = {}
  /\ wpc' = [wpc EXCEPT ![o] = "epoch"] /\ held' = [held EXCEPT ![o] = Unlocked]
  /\ used' = IF \E q \in WinRanks \ {o} : held[q] # Unlocked /\ held[q][1] = held[o][1]
             THEN used ELSE [used EXCEPT ![held[o][1]] = "no"]
  /\ UNCHANGED <<sync_mode, local_base, mirror, outstanding, fences, writes, current, writer, late, seen>>

WinNext ==
  \/ PutArrives
  \/ \E r \in WinRanks : WinStore(r) \/ FenceEnter(r) \/ FenceLeave(r) \/ FencePost(r)
  \/ \E o, t \in WinRanks : MPI_Put(o, t) \/ MPI_Get(o, t)
  \/ \E o, t \in WinRanks, how \in {"exclusive", "shared"} : MPI_Win_lock(o, t, how)
  \/ \E o \in WinRanks : MPI_Win_flush(o) \/ UnlockSync(o) \/ UnlockDone(o)

WinSpec == WinInit /\ [][WinNext]_winVars
-----------------------------------------------------------------------------
(* Properties                                                              *)

\* Values are those of writes that were made, and a rank waits in MPI only
\* for what it has asked for (MPI_Put, MPI_Win_fence, MPI_Win_unlock).
WinTypeOK ==
  /\ \A r \in WinRanks : local_base[r] \in 0 .. writes /\ mirror[r] \in 0 .. writes
  /\ \A p \in outstanding : p.value \in 1 .. writes /\ wpc[p.origin] # "left"
  /\ \A r \in WinRanks : wpc[r] = "unlock" => held[r] # Unlocked
  /\ \A q, r \in WinRanks : fences[q] - fences[r] <= 1

\* A get returns the last value written, unless it reads a mirror that lacks
\* it: because the put did not go to the mirror, or because the owner's
\* cxl_sync_mirror ran while the put was on its way, and the owner has not
\* refreshed the mirror since.  What the owner itself stored is always "visible
\* to same-VM peers after the fence completes" (MPI_Win_fence, refresh before
\* the fence).
GetIsCurrent ==
  /\ ~seen.late => seen.right
  /\ (sync_mode = "fence" /\ seen.writer = "store") => seen.right

\* A mirror is "refreshed after potential remote Puts" (cxl_sync_mirror): a
\* get after the fence returns what was put before it.
PutVisibleAfterFence == sync_mode = "fence" => seen.right
=============================================================================
