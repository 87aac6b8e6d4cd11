---------------------------- MODULE MC_Progress -----------------------------
(* What must eventually happen, for six components that share no state:      *)
(* Init picks the part that runs, and the fairness each of them assumes is   *)
(* that of its own part only.                                                *)
EXTENDS SsdCache, PgasSlots, ShmRing, GpuTransport, SwitchBench, MpiCollectives

VARIABLE part

progressVars == <<part, ssdVars, pgasVars, ringVars, gpuVars, benchVars, collVars>>

\* Threads a and b are of one process, c is of another.
MCProcesses == [t \in GpuThreads |-> IF t = "c" THEN "q" ELSE "p"]

\* What a client asks of the server, and of which line.
MCRequests == {<<"READ", 0>>, <<"FAA", 0>>, <<"FENCE", 0>>, <<"META", 0>>, <<"CAPACITY", 2>>}

MCTests == <<"bakery", "cas", "ownership">>

ProgressInit ==
  /\ part \in {"ssd", "pgas", "ring", "gpu", "bench", "coll"}
  /\ SsdInit
  /\ PgasInit
  /\ RingInit
  /\ GpuInit /\ (part # "gpu" => ~trapped /\ desc.completion_sub = 0)
  /\ BenchInit /\ (part # "bench" => ~magic /\ seq = 0 /\ \A h \in Hosts : ~ready[h])
  /\ CollInit /\ (part # "coll" => \A n \in 1 .. CollCalls : program[n] = "bcast")

\* The programs that end: their calls or tests are bounded.
Stopped == part \in {"pgas", "ring", "gpu", "bench", "coll"} /\ UNCHANGED progressVars

ProgressNext ==
  \/ /\ part = "ssd" /\ SsdNext
     /\ UNCHANGED <<part, pgasVars, ringVars, gpuVars, benchVars, collVars>>
  \/ /\ part = "pgas" /\ PgasNext
     /\ UNCHANGED <<part, ssdVars, ringVars, gpuVars, benchVars, collVars>>
  \/ /\ part = "ring" /\ RingNext
     /\ UNCHANGED <<part, ssdVars, pgasVars, gpuVars, benchVars, collVars>>
  \/ /\ part = "gpu" /\ GpuNext
     /\ UNCHANGED <<part, ssdVars, pgasVars, ringVars, benchVars, collVars>>
  \/ /\ part = "bench" /\ BenchNext
     /\ UNCHANGED <<part, ssdVars, pgasVars, ringVars, gpuVars, collVars>>
  \/ /\ part = "coll" /\ CollNext
     /\ UNCHANGED <<part, ssdVars, pgasVars, ringVars, gpuVars, benchVars>>
  \/ Stopped

\* SsdFairness, RingFairness, PgasFairness, GpuFairness, BenchFairness and
\* CollFairness, each for the part that runs.
ProgressFairness ==
  /\ \A t \in All : SF_ssdVars(part = "ssd" /\ Step(t))
  /\ WF_ringVars(part = "ring" /\ RingCall)
  /\ \A w \in RingWorkers : WF_ringVars(part = "ring" /\ RingWorker(w))
  /\ \A c \in Clients :
       /\ WF_pgasVars(part = "pgas" /\ \E w \in Workers : Claim(w, c))
       /\ WF_pgasVars(part = "pgas" /\ (Post(c) \/ Take(c) \/ ResetResp(c) \/ ResetReq(c)))
  /\ \A w \in Workers : WF_pgasVars(part = "pgas" /\ (Fetch(w) \/ Refuse(w) \/ Serve(w) \/ Finish(w)))
  /\ \A t \in GpuThreads :
       WF_gpuVars(part = "gpu" /\ CommandStep(t)) /\ SF_gpuVars(part = "gpu" /\ PollTimeout(t))
  /\ WF_benchVars(part = "bench" /\ StepA) /\ WF_benchVars(part = "bench" /\ StepB)
  /\ \A r \in CollRanks : WF_collVars(part = "coll" /\ CollStep(r))

ProgressSpec == ProgressInit /\ [][ProgressNext]_progressVars /\ ProgressFairness
=============================================================================
