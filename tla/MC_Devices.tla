----------------------------- MODULE MC_Devices -----------------------------
(* Seven components that share no state, checked in one run: Init picks the  *)
(* part that runs, the others stay in one of their initial states.           *)
EXTENDS Dcd, CoherencyEngine, HdmDecoder, GpuContext, MsgQueue, SwitchBench, MpiCollectives

VARIABLE part

devicesVars == <<part, dcdVars, cohVars, hdmVars, ctxVars, queueVars, benchVars, collVars>>

\* base, size, node: ranges that nest, touch, are empty, and end where the
\* address space wraps.
MCRanges == {<<0, 3, 0>>, <<3, 8, 0>>, <<3, 5, 1>>, <<8, 0, 1>>, <<8, 7, 1>>, <<13, 3, 2>>, <<13, 2, 2>>}

\* granularity, targets, base, size
MCInterleavings == {<<1, <<0, 1>>, 0, 8>>, <<2, <<0, 1, 2>>, 3, 12>>, <<4, <<1, 0>>, 8, 8>>}

MCTests == <<"bakery", "cas", "ownership">>

DevicesInit ==
  /\ part \in {"dcd", "coherency", "hdm", "context", "queue", "bench", "coll"}
  /\ DcdInit /\ (part # "dcd" => extents = {})
  /\ CohInit
  /\ HdmInit /\ (part # "hdm" => hdm_mode = "HYBRID")
  /\ ContextInit
  /\ QueueInit
  /\ BenchInit /\ (part # "bench" => ~magic /\ seq = 0 /\ \A h \in Hosts : ~ready[h])
  /\ CollInit /\ (part # "coll" => \A n \in 1 .. CollCalls : program[n] = "bcast")

\* The programs that end: their ranges, calls or tests are bounded.
Stopped == part \in {"hdm", "context", "bench", "coll"} /\ UNCHANGED devicesVars

DevicesNext ==
  \/ /\ part = "dcd" /\ DcdNext
     /\ UNCHANGED <<part, cohVars, hdmVars, ctxVars, queueVars, benchVars, collVars>>
  \/ /\ part = "coherency" /\ CohNext
     /\ UNCHANGED <<part, dcdVars, hdmVars, ctxVars, queueVars, benchVars, collVars>>
  \/ /\ part = "hdm" /\ HdmNext
     /\ UNCHANGED <<part, dcdVars, cohVars, ctxVars, queueVars, benchVars, collVars>>
  \/ /\ part = "context" /\ ContextNext
     /\ UNCHANGED <<part, dcdVars, cohVars, hdmVars, queueVars, benchVars, collVars>>
  \/ /\ part = "queue" /\ QueueNext
     /\ UNCHANGED <<part, dcdVars, cohVars, hdmVars, ctxVars, benchVars, collVars>>
  \/ /\ part = "bench" /\ BenchNext
     /\ UNCHANGED <<part, dcdVars, cohVars, hdmVars, ctxVars, queueVars, collVars>>
  \/ /\ part = "coll" /\ CollNext
     /\ UNCHANGED <<part, dcdVars, cohVars, hdmVars, ctxVars, queueVars, benchVars>>
  \/ Stopped

DevicesSpec == DevicesInit /\ [][DevicesNext]_devicesVars
=============================================================================
