---------------------------- MODULE MC_Backends -----------------------------
(* The page cache and the three ways requests reach a server or a device.    *)
(* They share no state: Init picks the part that runs.                       *)
EXTENDS SsdCache, PgasSlots, ShmRing, GpuTransport

VARIABLE part

backendsVars == <<part, ssdVars, pgasVars, ringVars, gpuVars>>

\* Threads a and b are of one process, c is of another.
MCProcesses == [t \in GpuThreads |-> IF t = "c" THEN "q" ELSE "p"]

\* What a client asks of the server, and of which line.
MCRequests == {<<"READ", 0>>, <<"WRITE", 0>>, <<"FAA", 1>>, <<"CAS", 0>>, <<"CAPACITY", 2>>}

BackendsInit ==
  /\ part \in {"ssd", "pgas", "ring", "gpu"}
  /\ SsdInit
  /\ PgasInit
  /\ RingInit
  /\ GpuInit /\ (part # "gpu" => ~trapped /\ desc.completion_sub = 0)

\* The clients' calls are bounded.
Stopped == part \in {"pgas", "ring", "gpu"} /\ UNCHANGED backendsVars

BackendsNext ==
  \/ part = "ssd" /\ SsdNext /\ UNCHANGED <<part, pgasVars, ringVars, gpuVars>>
  \/ part = "pgas" /\ PgasNext /\ UNCHANGED <<part, ssdVars, ringVars, gpuVars>>
  \/ part = "ring" /\ RingNext /\ UNCHANGED <<part, ssdVars, pgasVars, gpuVars>>
  \/ part = "gpu" /\ GpuNext /\ UNCHANGED <<part, ssdVars, pgasVars, ringVars>>
  \/ Stopped

BackendsSpec == BackendsInit /\ [][BackendsNext]_backendsVars

\* Pages, slots, ring indices, submission numbers and program counters keep
\* their ranges in all four backends, the page cache its bound.
BackendsTypeOK == SsdTypeOK /\ PgasTypeOK /\ RingTypeOK /\ GpuTypeOK
=============================================================================
