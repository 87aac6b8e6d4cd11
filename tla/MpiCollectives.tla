--------------------------- MODULE MpiCollectives ---------------------------
(***************************************************************************)
(* The collectives of the MPI shim (mpi_cxl_shim.c).  A rank copies its    *)
(* contribution into a buffer of the shared pool, registers the buffer,    *)
(* meets the others in a barrier of MPI, reads what it needs from their    *)
(* buffers and meets them again; without a buffer it falls back to the     *)
(* collective of MPI.  MPI itself is external: ranks must enter the same   *)
(* operation each time, and a rank waits for the ranks whose data it       *)
(* needs.  Buffers are never reused, so a registered pointer is modelled   *)
(* by the contribution behind it: the rank and the number of the call.     *)
(***************************************************************************)
EXTENDS Integers, Sequences, FiniteSets

CONSTANTS
  CollRanks,        \* the ranks of MPI_COMM_WORLD, all on one host
  CollRoot,         \* the root of the rooted collectives
  CollCalls         \* bound of the model on the collectives of the program

ASSUME CollAssumption == CollRoot \in CollRanks /\ CollCalls \in Nat

VARIABLES
  program,          \* the collectives every rank calls, in order
  coll_data_rptr,   \* coll_data_rptr[r]: the buffer rank r registered last
  cpos,             \* cpos[r]: where rank r is in its call
  ncall,            \* ncall[r]: the number of its call
  entered,          \* entered[r]: the operations of MPI it has entered; for the
                    \* record, of which call, and whether as its first or second
  collected,        \* collected[r]: what its last completed call returned
  \* history, not in the code:
  alloc_ok, alloc_no, \* the ranks with and without a buffer, by call
  good              \* every call returned what its collective promises

collVars == <<program, coll_data_rptr, cpos, ncall, entered, collected, alloc_ok, alloc_no, good>>

\* Rooted ones in which the root provides, and those in which all provide.
FromRoot == {"bcast", "scatter"}
FromAll == {"allreduce", "allgather", "alltoall", "gather"}
Kinds == FromRoot \cup FromAll
NoBuffer == <<>>
CallKind(r) == program[ncall[r]]
Providers(k) == IF k \in FromRoot THEN {CollRoot} ELSE CollRanks
\* The ranks that look at the others' buffers.
Reads(r, k) ==
  CASE k = "bcast" -> r # CollRoot [] k = "gather" -> r = CollRoot [] OTHER -> TRUE

\* What the collective promises rank r in its n-th call.
Promised(r, k, n) ==
  CASE k = "bcast" \/ k = "scatter" -> {<<CollRoot, n>>}
    [] k = "gather" /\ r # CollRoot -> {}
    [] OTHER -> {<<q, n>> : q \in CollRanks}

CollInit ==
  /\ program \in [1 .. CollCalls -> Kinds]
  /\ coll_data_rptr = [r \in CollRanks |-> NoBuffer]
  /\ cpos = [r \in CollRanks |-> "start"] /\ ncall = [r \in CollRanks |-> 1]
  /\ entered = [r \in CollRanks |-> <<>>] /\ collected = [r \in CollRanks |-> {}]
  /\ alloc_ok = [n \in 1 .. CollCalls |-> {}] /\ alloc_no = [n \in 1 .. CollCalls |-> {}]
  /\ good = TRUE

Enters(r, op) ==
  entered' = [entered EXCEPT ![r] =
    Append(@, [op |-> op, call |-> ncall[r], step |-> IF cpos[r] = "start" THEN 1 ELSE 2])]
CollGoto(r, here, there) == cpos[r] = here /\ cpos' = [cpos EXCEPT ![r] = there]
-----------------------------------------------------------------------------
(* allocate_cxl_memory, cxl_collective_register_buffer and the first barrier *)

Register_Forgets(r) ==
  /\ ncall[r] <= CollCalls /\ CollGoto(r, "start", "barrier1")
  /\ alloc_ok' = [alloc_ok EXCEPT ![ncall[r]] = @ \cup (Providers(CallKind(r)) \cap {r})]
  /\ Enters(r, "barrier")
  /\ UNCHANGED <<program, coll_data_rptr, ncall, collected, alloc_no, good>>

\* A provider gets a buffer and registers it; in a rooted call the others
\* register NULL.  All of them enter the barrier.
Register(r) ==
  /\ ncall[r] <= CollCalls /\ CollGoto(r, "start", "barrier1")
  /\ coll_data_rptr' = [coll_data_rptr EXCEPT ![r] =
                          IF r \in Providers(CallKind(r)) THEN <<r, ncall[r]>> ELSE NoBuffer]
  /\ alloc_ok' = [alloc_ok EXCEPT ![ncall[r]] = @ \cup (Providers(CallKind(r)) \cap {r})]
  /\ Enters(r, "barrier")
  /\ UNCHANGED <<program, ncall, collected, alloc_no, good>>

\* The pool is exhausted.  In MPI_Bcast and MPI_Scatter the root registers
\* NULL and goes on; in the others the rank turns to the collective of MPI.
NoMemory(r) ==
  /\ ncall[r] <= CollCalls /\ r \in Providers(CallKind(r))
  /\ alloc_no' = [alloc_no EXCEPT ![ncall[r]] = @ \cup {r}]
  /\ \/ /\ CallKind(r) \in FromRoot /\ CollGoto(r, "start", "barrier1")
        /\ coll_data_rptr' = [coll_data_rptr EXCEPT ![r] = NoBuffer]
        /\ Enters(r, "barrier")
     \/ /\ CallKind(r) \in FromAll /\ CollGoto(r, "start", "fallback")
        /\ Enters(r, CallKind(r)) /\ UNCHANGED coll_data_rptr
  /\ UNCHANGED <<program, ncall, collected, alloc_ok, good>>
-----------------------------------------------------------------------------
(* The operations of MPI                                                   *)

\* The n-th operation of every rank that has entered it is the same.
Agree(n) ==
  \A q, r \in CollRanks :
    (Len(entered[q]) >= n /\ Len(entered[r]) >= n) => entered[q][n].op = entered[r][n].op

\* The ranks that must have entered operation op before r may leave it.
Awaits(r, op) ==
  CASE op \in FromRoot -> {CollRoot}
    [] op = "gather" /\ r # CollRoot -> {}
    [] OTHER -> CollRanks

MayLeave(r) ==
  LET n == Len(entered[r])
  IN Agree(n) /\ \A q \in Awaits(r, entered[r][n].op) : Len(entered[q]) >= n
-----------------------------------------------------------------------------
(* Between the barriers, and after them                                    *)

\* The buffers the rank needs are there: it reads them and enters the second
\* barrier.
ReadBuffers(r) ==
  /\ CollGoto(r, "barrier1", "barrier2") /\ MayLeave(r)
  /\ Reads(r, CallKind(r)) => \A q \in Providers(CallKind(r)) : coll_data_rptr[q] # NoBuffer
  /\ collected' = [collected EXCEPT ![r] =
                  IF Reads(r, CallKind(r)) THEN {coll_data_rptr[q] : q \in Providers(CallKind(r))}
                  ELSE Promised(r, CallKind(r), ncall[r])]
  /\ Enters(r, "barrier")
  /\ UNCHANGED <<program, coll_data_rptr, ncall, alloc_ok, alloc_no, good>>

\* A buffer is missing: it falls back to the collective of MPI.
BufferMissing(r) ==
  /\ CollGoto(r, "barrier1", "fallback") /\ MayLeave(r) /\ Reads(r, CallKind(r))
  /\ \E q \in Providers(CallKind(r)) : coll_data_rptr[q] = NoBuffer
  /\ Enters(r, CallKind(r))
  /\ UNCHANGED <<program, coll_data_rptr, ncall, collected, alloc_ok, alloc_no, good>>

Returns(r, value) ==
  /\ cpos' = [cpos EXCEPT ![r] = "start"] /\ ncall' = [ncall EXCEPT ![r] = @ + 1]
  /\ good' = (good /\ value = Promised(r, CallKind(r), ncall[r]))

Complete_Bug(r) ==
  /\ cpos[r] = "barrier2" /\ Returns(r, collected[r])
  /\ UNCHANGED <<program, coll_data_rptr, entered, collected, alloc_ok, alloc_no>>

\* The second barrier is over and the call returns.
Complete(r) ==
  /\ cpos[r] = "barrier2" /\ MayLeave(r) /\ Returns(r, collected[r])
  /\ UNCHANGED <<program, coll_data_rptr, entered, collected, alloc_ok, alloc_no>>

\* The collective of MPI returns.
CompleteFallback(r) ==
  /\ cpos[r] = "fallback" /\ MayLeave(r) /\ Returns(r, Promised(r, CallKind(r), ncall[r]))
  /\ UNCHANGED <<program, coll_data_rptr, entered, collected, alloc_ok, alloc_no>>

CollStep(r) ==
  \/ Register(r) \/ NoMemory(r) \/ ReadBuffers(r) \/ BufferMissing(r)
  \/ Complete(r) \/ CompleteFallback(r)

CollNext == \E r \in CollRanks : CollStep(r)

\* A rank is a process of its own and MPI makes progress.
CollFairness == \A r \in CollRanks : WF_collVars(CollStep(r))

CollSpec == CollInit /\ [][CollNext]_collVars /\ CollFairness
-----------------------------------------------------------------------------
(* Properties                                                              *)

\* A call in which ranks may take different paths: some of the providers had
\* memory and some had not, or the root had none.  Without a buffer the root of
\* MPI_Bcast goes on to the second barrier, and the root of MPI_Scatter can be
\* in its next call, with a buffer, before the others look for this one.
Uneven(n) == alloc_no[n] # {} /\ (program[n] \in FromRoot \/ alloc_ok[n] # {})

SomeUneven == \E n \in 1 .. CollCalls : Uneven(n)

\* A collective returns the contributions to this very call: no buffer of an
\* earlier or of a later call is read, whichever ranks run ahead.
CollectiveResults == good

\* All ranks take the same path, shared memory or MPI, through every call, so
\* they always meet in the same operation of MPI, unless a call was uneven.
CollectivesMatch ==
  ~SomeUneven => \A r \in CollRanks : \A n \in 1 .. Len(entered[r]) : Agree(n)

\* Once a rank has begun, every rank gets through its program, unless a call was
\* uneven.
CollectivesFinish ==
  (\E r \in CollRanks : cpos[r] # "start") ~> (SomeUneven \/ \A r \in CollRanks : ncall[r] = CollCalls + 1)
=============================================================================
