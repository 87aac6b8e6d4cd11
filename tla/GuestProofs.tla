---------------------------- MODULE GuestProofs -----------------------------
(***************************************************************************)
(* What runs in a guest: the contexts and commands of the GPU shim, the    *)
(* client end of the request ring and the request slots of PGAS, for any   *)
(* number of threads, processes, clients, workers and ring entries.        *)
(***************************************************************************)
EXTENDS GpuContext, GpuTransport, ShmRing, PgasSlots, TLAPS

-----------------------------------------------------------------------------
(***************************************************************************)
(* The command transport. The threads of a process are serialized by its   *)
(* lock and the processes by the file lock, so the descriptor belongs to   *)
(* one command from its parameters to its results.                         *)
(***************************************************************************)

\* The empty set has no element.
LEMMA CardinalityNone == Cardinality({}) = 0
<1> DEFINE F(g) == [T \in SUBSET {} |-> IF T = {} THEN 0 ELSE 1 + g[T \ {CHOOSE x : x \in T}]]
           cs == CHOOSE g : g = F(g)
           w == [T \in SUBSET {} |-> 0]
<1>1. Cardinality({}) = cs[{}] BY Zenon DEF Cardinality
<1>2. w = F(w) BY Zenon
<1>3. cs = F(cs)
  <2>1. \E g : g = F(g) BY <1>2, Zenon
  <2> HIDE DEF F
  <2> QED BY <2>1, Zenon
<1> HIDE DEF cs
<1>4. cs[{}] = 0 BY <1>3, Zenon
<1> QED BY <1>1, <1>4, Zenon

\* A set of one element has one.
LEMMA CardinalityOne ==
  ASSUME NEW e PROVE Cardinality({e}) = 1
<1> DEFINE F(g) == [T \in SUBSET {e} |-> IF T = {} THEN 0 ELSE 1 + g[T \ {CHOOSE x : x \in T}]]
           cs == CHOOSE g : g = F(g)
           w == [T \in SUBSET {e} |-> IF T = {} THEN 0 ELSE 1]
<1>1. Cardinality({e}) = cs[{e}] BY Zenon DEF Cardinality
<1>2. \A T \in SUBSET {e} : T # {} => T \ {CHOOSE x : x \in T} = {}
  <2> SUFFICES ASSUME NEW T \in SUBSET {e}, T # {} PROVE T \ {CHOOSE x : x \in T} = {} OBVIOUS
  <2>1. T = {e} BY Zenon
  <2>2. (CHOOSE x : x \in T) \in T BY Zenon
  <2> QED BY <2>1, <2>2, Zenon
<1>3. w = F(w)
  <2>1. \A T \in SUBSET {e} : T # {} => 1 = 1 + w[T \ {CHOOSE x : x \in T}]
    <3>1. w[{}] = 0 BY Zenon
    <3>2. 1 = 1 + 0 OBVIOUS
    <3> HIDE DEF w
    <3> QED BY <1>2, <3>1, <3>2, Zenon
  <2>2. \A T \in SUBSET {e} : (IF T = {} THEN 0 ELSE 1) = (IF T = {} THEN 0 ELSE 1 + w[T \ {CHOOSE x : x \in T}])
    <3> HIDE DEF w
    <3> QED BY <2>1, Zenon
  <2>3. F(w) = [T \in SUBSET {e} |-> IF T = {} THEN 0 ELSE 1 + w[T \ {CHOOSE x : x \in T}]] BY Zenon
  <2> HIDE DEF F
  <2> QED BY <2>2, <2>3, Zenon
<1>4. cs = F(cs)
  <2>1. \E g : g = F(g) BY <1>3, Zenon
  <2> HIDE DEF F
  <2> QED BY <2>1, Zenon
<1> HIDE DEF cs
<1>5. cs[{}] = 0 BY <1>4, Zenon
<1>6. cs[{e}] = 1 + cs[{}]
  <2>1. {e} \in SUBSET {e} /\ {e} # {} BY Zenon
  <2>2. cs[{e}] = 1 + cs[{e} \ {CHOOSE x : x \in {e}}] BY <1>4, <2>1, Zenon
  <2>3. {e} \ {CHOOSE x : x \in {e}} = {} BY <1>2, <2>1, Zenon
  <2> QED BY <2>2, <2>3, Zenon
<1>7. cs[{e}] = 1 BY <1>5, <1>6
<1> QED BY <1>1, <1>7, Zenon

GpuLabels == {"idle", "lock", "params", "execute", "request", "ring", "poll", "match", "unlock"}
Submitted == {"request", "ring", "poll", "match"}
Submissions == 0 .. MaxSubmission

\* The types of all variables; the name of a command in progress is a command.
TransportTypes ==
  /\ trapped \in BOOLEAN /\ doorbell \in BOOLEAN /\ mixed \in BOOLEAN
  /\ flock \in Processes \cup {NoProcess}
  /\ desc \in [params : Commands \cup {None}, request : Commands \cup {None},
               request_sub : Submissions, completion_sub : Submissions,
               results : Commands \cup {None, Error}, status : {"EMPTY", "COMPLETE", "ERROR"}]
  /\ device \in [at : {"idle", "sub", "results", "status"}, cmd : Commands \cup {None, Error},
                 sub : Submissions]
  /\ unusable \in [Processes -> BOOLEAN] /\ abandoned \subseteq Processes
  /\ gpc \in [GpuThreads -> GpuLabels]
  /\ begun \in 0 .. MaxCommands /\ nth \in [GpuThreads -> 0 .. MaxCommands]
  /\ sub \in [GpuThreads -> Submissions]
  /\ seen \in [GpuThreads -> {"EMPTY", "COMPLETE", "ERROR"}]
  /\ result \in [GpuThreads -> Commands \cup {None, Error}]
  /\ \A t \in GpuThreads : gpc[t] # "idle" => nth[t] # 0

\* As long as no process ran two threads through the lock, at most one thread
\* is inside and its process holds the lock; a thread past its checks found the
\* transport usable and nobody else could make it unusable since.
LockHolds ==
  /\ \A p \in abandoned : unusable[p]
  /\ ~mixed =>
       /\ \A t, u \in GpuThreads : t \in Inside /\ u \in Inside => t = u
       /\ \A t \in GpuThreads : t \in Inside => flock = ProcessOf[t]
       /\ \A t \in GpuThreads : gpc[t] \in Submitted => ~unusable[ProcessOf[t]]

Quiet == ~doorbell /\ device.at = "idle"
Prepared(t) == desc.params = Me(t)
Posted(t) == Prepared(t) /\ desc.request = Me(t) /\ desc.request_sub = sub[t]
Awaited(t) == sub[t] = desc.completion_sub + 1

\* Where the descriptor and the device are while a thread is at a label.
DeviceFollows(t) ==
  /\ gpc[t] \in {"params", "execute", "request", "ring", "unlock"} => Quiet
  /\ gpc[t] = "execute" => unusable[ProcessOf[t]] \/ Prepared(t)
  /\ gpc[t] = "request" => Prepared(t) /\ Awaited(t)
  /\ gpc[t] = "ring" => Posted(t) /\ Awaited(t)
  /\ gpc[t] \in {"poll", "match"} =>
       /\ Posted(t)
       /\ \/ doorbell /\ device.at = "idle" /\ Awaited(t)
          \/ ~doorbell /\ device.at = "sub" /\ device.sub = sub[t] /\ device.cmd = Me(t) /\ Awaited(t)
          \/ Quiet /\ desc.completion_sub = sub[t] /\ desc.results = Me(t)

\* On a device that completes in one step, with the lock respected and no
\* command abandoned, the descriptor belongs to the thread inside.
DescriptorIsOwn ==
  /\ trapped => device.at \in {"idle", "sub"}
  /\ trapped /\ ~mixed /\ abandoned = {} =>
       /\ Inside = {} => Quiet
       /\ \A t \in GpuThreads : DeviceFollows(t)
       /\ OwnResults

TransportInv == TransportTypes /\ LockHolds /\ DescriptorIsOwn

USE DEF GpuLabels, Submitted, Submissions

\* The fresh descriptor and the idle threads satisfy the invariant.
LEMMA TransportStart == GpuInit => TransportInv
<1> SUFFICES ASSUME GpuInit PROVE TransportInv OBVIOUS
<1> USE GpuAssumption DEF GpuInit
<1>1. TransportTypes
  <2>1. PICK first \in FirstSubmissions :
       desc = [params |-> None, request |-> None, request_sub |-> first,
               completion_sub |-> first, results |-> None,
               status |-> IF first = 0 THEN "EMPTY" ELSE "COMPLETE"] OBVIOUS
  <2>2. first \in Submissions OBVIOUS
  <2>3. trapped \in BOOLEAN /\ doorbell \in BOOLEAN /\ mixed \in BOOLEAN
      /\ unusable \in [Processes -> BOOLEAN] BY Zenon
  <2>4. desc \in [params : Commands \cup {None}, request : Commands \cup {None},
               request_sub : Submissions, completion_sub : Submissions,
               results : Commands \cup {None, Error}, status : {"EMPTY", "COMPLETE", "ERROR"}]
    BY <2>1, <2>2, Zenon
  <2>5. device \in [at : {"idle", "sub", "results", "status"}, cmd : Commands \cup {None, Error},
                 sub : Submissions] BY DEF Resting
  <2>6. gpc \in [GpuThreads -> GpuLabels] /\ \A t \in GpuThreads : gpc[t] = "idle" OBVIOUS
  <2>7. /\ begun \in 0 .. MaxCommands /\ nth \in [GpuThreads -> 0 .. MaxCommands]
        /\ sub \in [GpuThreads -> Submissions] OBVIOUS
  <2>8. /\ seen \in [GpuThreads -> {"EMPTY", "COMPLETE", "ERROR"}]
        /\ result \in [GpuThreads -> Commands \cup {None, Error}]
        /\ flock \in Processes \cup {NoProcess} /\ abandoned \subseteq Processes OBVIOUS
  <2> QED BY <2>3, <2>4, <2>5, <2>6, <2>7, <2>8, Zenon DEF TransportTypes
<1>2. LockHolds BY Zenon DEF LockHolds, Inside
<1>3. DescriptorIsOwn BY Zenon DEF DescriptorIsOwn, Inside, DeviceFollows, Quiet, OwnResults, Resting
<1> QED BY <1>1, <1>2, <1>3, Zenon DEF TransportInv

\* The name of a command in progress is a command, none of the marks.
LEMMA MyCommand ==
  ASSUME TransportTypes, NEW t \in GpuThreads, gpc[t] # "idle"
  PROVE  Me(t) \in Commands /\ Me(t) # None /\ Me(t) # Error
BY GpuAssumption DEF TransportTypes, Me, Commands, None, Error

\* A step of a thread keeps the types.
LEMMA CommandTypes ==
  ASSUME TransportTypes, NEW t \in GpuThreads, Begin(t) \/ CommandStep(t)
  PROVE  TransportTypes'
<1> USE GpuAssumption DEF TransportTypes, GpuGoto
<1>0. ProcessOf[t] \in Processes BY Zenon DEF Processes
<1>1. CASE Begin(t)
  <2>1. begun' \in 0 .. MaxCommands /\ begun' # 0 BY <1>1 DEF Begin
  <2> QED BY <1>1, <2>1 DEF Begin
<1>2. CASE CmdLock(t) BY <1>0, <1>2 DEF CmdLock
<1>3. CASE WriteParams(t)
  <2>1. Me(t) \in Commands BY <1>3, MyCommand, Zenon DEF WriteParams
  <2> QED BY <1>3, <2>1 DEF WriteParams
<1>4. CASE Execute(t)
  <2>1. unusable' \in [Processes -> BOOLEAN] BY <1>0, <1>4, Zenon DEF Execute
  <2>2. desc.completion_sub # MaxSubmission => desc.completion_sub + 1 \in Submissions OBVIOUS
  <2>3. sub' \in [GpuThreads -> Submissions] BY <1>4, <2>2 DEF Execute
  <2>4. result' \in [GpuThreads -> Commands \cup {None, Error}] /\ gpc' \in [GpuThreads -> GpuLabels]
    BY <1>4 DEF Execute
  <2>5. \A u \in GpuThreads : gpc'[u] # "idle" => nth'[u] # 0 BY <1>4, Zenon DEF Execute
  <2> QED BY <1>4, <2>1, <2>3, <2>4, <2>5 DEF Execute
<1>5. CASE Request(t)
  <2>1. Me(t) \in Commands BY <1>5, MyCommand, Zenon DEF Request
  <2> QED BY <1>5, <2>1 DEF Request
<1>6. CASE Ring(t) BY <1>6 DEF Ring
<1>7. CASE Poll(t) BY <1>7 DEF Poll
<1>8. CASE PollMatch(t) BY <1>0, <1>8 DEF PollMatch
<1>9. CASE PollAgain(t) BY <1>9 DEF PollAgain
<1>10. CASE PollTimeout(t) BY <1>0, <1>10 DEF PollTimeout
<1>11. CASE CmdUnlock(t) BY <1>11 DEF CmdUnlock
<1> QED BY <1>1, <1>2, <1>3, <1>4, <1>5, <1>6, <1>7, <1>8, <1>9, <1>10, <1>11, Zenon DEF CommandStep

\* So does a step of the device.
LEMMA DeviceTypes ==
  ASSUME TransportTypes, DeviceTake \/ DeviceComplete \/ DeviceStore
  PROVE  TransportTypes'
<1> USE GpuAssumption DEF TransportTypes, Resting
<1>1. CASE DeviceTake BY <1>1 DEF DeviceTake
<1>2. CASE DeviceComplete
  <2>1. PICK status \in {"COMPLETE", "ERROR"} :
      desc' = [desc EXCEPT !.completion_sub = device.sub, !.status = status, !.results = device.cmd]
    BY <1>2, Zenon DEF DeviceComplete
  <2>2. desc' \in [params : Commands \cup {None}, request : Commands \cup {None},
               request_sub : Submissions, completion_sub : Submissions,
               results : Commands \cup {None, Error}, status : {"EMPTY", "COMPLETE", "ERROR"}]
    BY <2>1, Zenon
  <2>3. device' \in [at : {"idle", "sub", "results", "status"}, cmd : Commands \cup {None, Error},
                 sub : Submissions] BY <1>2 DEF DeviceComplete
  <2> QED BY <1>2, <2>2, <2>3, Zenon DEF DeviceComplete
<1>3. CASE DeviceStore
  <2>1. CASE device.at = "sub" BY <1>3, <2>1 DEF DeviceStore
  <2>2. CASE device.at = "results" BY <1>3, <2>2 DEF DeviceStore
  <2>3. CASE device.at = "status"
    <3>1. PICK status \in {"COMPLETE", "ERROR"} : desc' = [desc EXCEPT !.status = status]
      BY <1>3, <2>3, Zenon DEF DeviceStore
    <3> QED BY <1>3, <2>3, <3>1 DEF DeviceStore
  <2> QED BY <1>3, <2>1, <2>2, <2>3, Zenon DEF DeviceStore
<1> QED BY <1>1, <1>2, <1>3, Zenon

\* The lock keeps other processes out, and a process whose transport failed
\* or timed out does not submit again.
LEMMA LockStep ==
  ASSUME TransportTypes, LockHolds, NEW t \in GpuThreads, Begin(t) \/ CommandStep(t)
  PROVE  LockHolds'
<1> USE GpuAssumption DEF TransportTypes, LockHolds, Inside, GpuGoto
<1>0. ProcessOf[t] \in Processes /\ \A u \in GpuThreads : ProcessOf[u] # NoProcess BY DEF Processes
<1>1. CASE Begin(t) BY <1>1 DEF Begin
<1>2. CASE CmdLock(t)
  <2>1. \A p \in abandoned' : unusable'[p] BY <1>2, Zenon DEF CmdLock
  <2>2. ASSUME ~mixed' PROVE Inside = {} /\ ~mixed
    <3>1. ~mixed /\ ~ \E u \in Inside : ProcessOf[u] = ProcessOf[t] BY <1>2, <2>2, Zenon DEF CmdLock
    <3> QED BY <1>0, <1>2, <3>1 DEF CmdLock
  <2>3. ASSUME ~mixed' PROVE \A u \in GpuThreads : gpc'[u] \in {"idle", "lock"} \/ u = t
    BY <1>2, <2>2, <2>3 DEF CmdLock
  <2>4. ASSUME ~mixed' PROVE flock' = ProcessOf[t] /\ \A u \in GpuThreads : gpc'[u] \notin Submitted
    BY <1>2, <2>3, <2>4 DEF CmdLock
  <2> QED BY <2>1, <2>3, <2>4, Zenon
<1>3. CASE WriteParams(t) BY <1>3 DEF WriteParams
<1>4. CASE Execute(t) BY <1>0, <1>4 DEF Execute
<1>5. CASE Request(t) BY <1>5 DEF Request
<1>6. CASE Ring(t) BY <1>6 DEF Ring
<1>7. CASE Poll(t) BY <1>7 DEF Poll
<1>8. CASE PollMatch(t) BY <1>0, <1>8 DEF PollMatch
<1>9. CASE PollAgain(t) BY <1>9 DEF PollAgain
<1>10. CASE PollTimeout(t) BY <1>0, <1>10 DEF PollTimeout
<1>11. CASE CmdUnlock(t) BY <1>0, <1>11 DEF CmdUnlock
<1> QED BY <1>1, <1>2, <1>3, <1>4, <1>5, <1>6, <1>7, <1>8, <1>9, <1>10, <1>11, Zenon DEF CommandStep

\* A thread's step keeps the descriptor with the thread inside.
LEMMA DescriptorStep ==
  ASSUME TransportInv, TransportTypes', LockHolds', NEW t \in GpuThreads, Begin(t) \/ CommandStep(t)
  PROVE  DescriptorIsOwn'
<1> USE GpuAssumption DEF TransportInv
<1>0. trapped' = trapped /\ device' = device
  BY Zenon DEF CommandStep, Begin, CmdLock, WriteParams, Execute, Request, Ring, Poll, PollMatch, PollAgain,
         PollTimeout, CmdUnlock
<1>1. (trapped => device.at \in {"idle", "sub"})' BY <1>0, Zenon DEF DescriptorIsOwn
<1> SUFFICES ASSUME trapped', ~mixed', abandoned' = {}
             PROVE  /\ (Inside = {} => Quiet)'
                    /\ \A u \in GpuThreads : DeviceFollows(u)'
                    /\ OwnResults'
  BY <1>1, Zenon DEF DescriptorIsOwn
<1>2. ~mixed /\ abandoned = {}
  BY Zenon DEF CommandStep, Begin, CmdLock, WriteParams, Execute, Request, Ring, Poll, PollMatch, PollAgain,
         PollTimeout, CmdUnlock, TransportTypes
<1>3. /\ Inside = {} => Quiet
      /\ \A u \in GpuThreads : DeviceFollows(u)
      /\ OwnResults
  BY <1>0, <1>2, Zenon DEF DescriptorIsOwn
<1>4. \A u \in GpuThreads : u \in Inside /\ t \in Inside => u = t BY <1>2, Zenon DEF LockHolds
<1>5. \A u \in GpuThreads : u \in Inside' /\ t \in Inside' => u = t BY Zenon DEF LockHolds
<1>6. gpc[t] # "idle" => Me(t) \in Commands /\ Me(t) # None /\ Me(t) # Error BY MyCommand, Zenon
<1> USE <1>0, <1>2, <1>3, <1>4, <1>5
    DEF GpuGoto, Inside, DeviceFollows, Quiet, Prepared, Posted, Awaited, Me, OwnResults
<1>7. CASE Begin(t) BY <1>7, SMTT(30) DEF Begin, TransportTypes
<1>8. CASE CmdLock(t) BY <1>8, SMTT(30) DEF CmdLock, TransportTypes
<1>9. CASE WriteParams(t) BY <1>9 DEF WriteParams, TransportTypes
<1>10. CASE Execute(t)
  <2>1. gpc[t] = "execute" /\ UNCHANGED <<desc, doorbell, device, nth>> BY <1>10, Zenon DEF Execute
  <2>2. \A u \in GpuThreads : u # t => u \notin Inside' BY <1>5, <1>10, SMTT(30) DEF Execute, TransportTypes
  <2>3. CASE gpc'[t] = "unlock"
    <3>1. unusable' = [unusable EXCEPT ![ProcessOf[t]] = TRUE] /\ result' = [result EXCEPT ![t] = Error]
      BY <1>10, <2>3, SMTT(30) DEF Execute, TransportTypes
    <3>2. ProcessOf[t] \in Processes BY Zenon DEF Processes
    <3> QED BY <1>10, <2>1, <2>2, <2>3, <3>1, <3>2, SMTT(30) DEF Execute, TransportTypes
  <2>4. CASE gpc'[t] = "request"
    <3>1. UNCHANGED <<unusable, result>> /\ sub' = [sub EXCEPT ![t] = desc.completion_sub + 1]
          /\ ~unusable[ProcessOf[t]]
      BY <1>10, <2>4, SMTT(30) DEF Execute, TransportTypes
    <3> QED BY <1>10, <2>1, <2>2, <2>4, <3>1, SMTT(30) DEF Execute, TransportTypes
  <2>5. gpc' = [gpc EXCEPT ![t] = "unlock"] \/ gpc' = [gpc EXCEPT ![t] = "request"] BY <1>10, Zenon DEF Execute
  <2>6. gpc'[t] \in {"unlock", "request"} BY <2>5 DEF TransportTypes
  <2> HIDE <1>0, <1>2, <1>3, <1>4, <1>5
           DEF GpuGoto, Inside, DeviceFollows, Quiet, Prepared, Posted, Awaited, Me, OwnResults
  <2> QED BY <2>3, <2>4, <2>6
<1>11. CASE Request(t) BY <1>11 DEF Request, TransportTypes
<1>12. CASE Ring(t) BY <1>12, SMTT(30) DEF Ring, TransportTypes
<1>13. CASE Poll(t) BY <1>13, SMTT(30) DEF Poll, TransportTypes
<1>14. CASE PollMatch(t) BY <1>6, <1>14, SMTT(30) DEF PollMatch, Completed, TransportTypes
<1>15. CASE PollAgain(t) BY <1>15, SMTT(30) DEF PollAgain, TransportTypes
<1>16. CASE PollTimeout(t) BY <1>16, Zenon DEF PollTimeout
<1>17. CASE CmdUnlock(t) BY <1>17, SMTT(30) DEF CmdUnlock, TransportTypes
<1> QED BY <1>7, <1>8, <1>9, <1>10, <1>11, <1>12, <1>13, <1>14, <1>15, <1>16, <1>17, Zenon DEF CommandStep

\* A device that completes in one step serves the thread that waits for it.
LEMMA DeviceStep ==
  ASSUME TransportInv, TransportTypes', DeviceTake \/ DeviceComplete \/ DeviceStore
  PROVE  LockHolds' /\ DescriptorIsOwn'
<1> USE GpuAssumption DEF TransportInv
<1>1. UNCHANGED <<trapped, flock, unusable, gpc, begun, nth, sub, seen, result, mixed, abandoned>>
  BY Zenon DEF DeviceTake, DeviceComplete, DeviceStore
<1>2. LockHolds' BY <1>1, Zenon DEF LockHolds, Inside
<1>3. CASE ~trapped BY <1>1, <1>2, <1>3, Zenon DEF DescriptorIsOwn
<1>4. CASE trapped /\ ~(~mixed /\ abandoned = {})
  BY <1>1, <1>2, <1>4 DEF DescriptorIsOwn, DeviceTake, DeviceComplete, DeviceStore, Resting, TransportTypes
<1>5. CASE trapped /\ ~mixed /\ abandoned = {}
  <2>1. /\ Inside = {} => Quiet
        /\ \A u \in GpuThreads : DeviceFollows(u)
        /\ OwnResults
    BY <1>5, Zenon DEF DescriptorIsOwn
  <2>2. PICK t \in GpuThreads : gpc[t] \in {"poll", "match"}
    <3>1. ~Quiet BY <1>5, Zenon DEF Quiet, DeviceTake, DeviceComplete, DeviceStore, TransportTypes
    <3>2. PICK t \in GpuThreads : t \in Inside BY <2>1, <3>1, Zenon DEF Inside
    <3>3. gpc[t] \in {"poll", "match"} BY <2>1, <3>1, <3>2 DEF DeviceFollows, Inside, TransportTypes
    <3> QED BY <3>3, Zenon
  <2>3. \A u \in GpuThreads : u # t => u \notin Inside BY <1>5, <2>2, Zenon DEF LockHolds, Inside
  <2>4. OwnResults' BY <1>1, <2>1, Zenon DEF OwnResults, Me
  <2>5. Inside' # {} BY <1>1, <2>2, Zenon DEF Inside
  <2>6. \A u \in GpuThreads : u # t => DeviceFollows(u)' BY <1>1, <2>3, Zenon DEF DeviceFollows, Inside, TransportTypes
  <2>7. DeviceFollows(t) BY <2>1, Zenon
  <2>8. CASE DeviceTake
    <3>1. device' = [at |-> "sub", sub |-> sub[t], cmd |-> Me(t)] /\ ~doorbell' /\ desc' = desc
      BY <1>5, <2>2, <2>7, <2>8, Zenon DEF DeviceTake, DeviceFollows, Posted, Prepared, Quiet
    <3>2. Awaited(t)
      BY <1>5, <2>2, <2>7, <2>8, Zenon DEF DeviceTake, DeviceFollows, Quiet
    <3>3. DeviceFollows(t)'
      BY <1>1, <2>2, <2>7, <3>1, <3>2, Zenon DEF DeviceFollows, Posted, Prepared, Awaited, Me, TransportTypes
    <3>4. \A u \in GpuThreads : DeviceFollows(u)' BY <2>6, <3>3, Zenon
    <3>5. device'.at \in {"idle", "sub"} BY <3>1, Zenon
    <3> QED BY <1>2, <2>4, <2>5, <3>4, <3>5, Zenon DEF DescriptorIsOwn
  <2>9. CASE DeviceComplete
    <3>1. device.sub = sub[t] /\ device.cmd = Me(t) /\ ~doorbell
      BY <1>5, <2>2, <2>7, <2>9, Zenon DEF DeviceComplete, DeviceFollows, Quiet
    <3>2. /\ device'.at = "idle" /\ ~doorbell'
          /\ desc'.completion_sub = sub[t] /\ desc'.results = Me(t)
          /\ desc'.params = desc.params /\ desc'.request = desc.request /\ desc'.request_sub = desc.request_sub
      BY <2>9, <3>1 DEF DeviceComplete, Resting, TransportTypes
    <3>3. DeviceFollows(t)'
      BY <1>1, <2>2, <2>7, <3>2 DEF DeviceFollows, Posted, Prepared, Quiet, Me, TransportTypes
    <3>4. \A u \in GpuThreads : DeviceFollows(u)' BY <2>6, <3>3, Zenon
    <3>5. device'.at \in {"idle", "sub"} BY <3>2, Zenon
    <3> QED BY <1>2, <2>4, <2>5, <3>4, <3>5, Zenon DEF DescriptorIsOwn
  <2> QED BY <1>5, <2>8, <2>9, Zenon DEF DeviceStore
<1> QED BY <1>2, <1>3, <1>4, <1>5, Zenon

\* Every step keeps the invariant.
LEMMA TransportStep == TransportInv /\ [GpuNext]_gpuVars => TransportInv'
<1> SUFFICES ASSUME TransportInv, [GpuNext]_gpuVars PROVE TransportInv' OBVIOUS
<1>1. ASSUME NEW t \in GpuThreads, Begin(t) \/ CommandStep(t) PROVE TransportInv'
  BY <1>1, CommandTypes, LockStep, DescriptorStep, Zenon DEF TransportInv
<1>2. CASE DeviceTake \/ DeviceComplete \/ DeviceStore
  BY <1>2, DeviceTypes, DeviceStep, Zenon DEF TransportInv
<1>3. CASE UNCHANGED gpuVars
  BY <1>3, SMTT(30) DEF gpuVars, TransportInv, TransportTypes, LockHolds, Inside, DescriptorIsOwn, DeviceFollows,
              Quiet, Prepared, Posted, Awaited, Me, OwnResults
<1> QED BY <1>1, <1>2, <1>3, Zenon DEF GpuNext

\* The commands of different processes never overlap, and a process never
\* submits after a timeout, for any number of processes and threads.
THEOREM GpuSerialized == GpuSpec => []CommandsSerialized
<1>1. TransportInv => CommandsSerialized
  <2> SUFFICES ASSUME TransportInv, ~mixed
               PROVE  /\ Cardinality(Inside) <= 1
                      /\ \A t \in GpuThreads : gpc[t] \in Submitted => ProcessOf[t] \notin abandoned
    BY Zenon DEF CommandsSerialized
  <2>1. \A t, u \in Inside : t = u BY Zenon DEF TransportInv, LockHolds, Inside
  <2>2. CASE Inside = {} BY <2>2, CardinalityNone DEF TransportInv, LockHolds
  <2>3. CASE Inside # {}
    <3>1. PICK t : Inside = {t} BY <2>1, <2>3
    <3>2. Cardinality(Inside) = 1 BY <3>1, CardinalityOne, Zenon
    <3> QED BY <3>2 DEF TransportInv, LockHolds
  <2> QED BY <2>2, <2>3, Zenon
<1> QED BY <1>1, TransportStart, TransportStep, PTL DEF GpuSpec

\* The result a command takes is its own, on a device that completes in one
\* step, for any number of processes and threads.
THEOREM GpuResults == GpuSpec => []ResultIsOwn
<1>1. TransportInv => ResultIsOwn BY Zenon DEF TransportInv, DescriptorIsOwn, ResultIsOwn
<1> QED BY <1>1, TransportStart, TransportStep, PTL DEF GpuSpec

-----------------------------------------------------------------------------
(***************************************************************************)
(* The ring. A client has at most one request under way, so as long as no  *)
(* two workers take one entry and no call was given up, the ring is in one *)
(* of the few shapes OneRequest lists.                                     *)
(***************************************************************************)

HIDE DEF GpuLabels, Submitted, Submissions

RingLabels == {"off", "init", "idle", "publish", "count", "wait", "got"}
TakerLabels == {"look", "clear", "advance", "count", "handle", "respond"}
EntryTypes == [ready : BOOLEAN, answered : BOOLEAN, request : Calls \cup {0}, response : Calls \cup {0}]
TakerTypes == [at : TakerLabels, tail : RingSlots, k : Calls \cup {0}]

RingTypes ==
  /\ connected \in BOOLEAN /\ raced \in BOOLEAN /\ stale \in BOOLEAN
  /\ rhead \in RingSlots /\ rtail \in RingSlots /\ pending \in Int
  /\ entry \in [RingSlots -> EntryTypes] /\ ringpc \in RingLabels
  /\ call \in Calls \cup {0}
  /\ wkr \in [RingWorkers -> TakerTypes] /\ handled \in [Calls -> Nat]

\* The index after i.
After(i) == (i + 1) % RingSize

AllLook == \A w \in RingWorkers : wkr[w].at = "look"
NoneReady == \A i \in RingSlots : ~entry[i].ready
NoneAnswered == \A i \in RingSlots : ~entry[i].answered

\* The request of the call is the only one in the ring, in the entry at tail.
AtTail ==
  /\ entry[rtail].ready /\ entry[rtail].request = call
  /\ \A i \in RingSlots : i # rtail => ~entry[i].ready

\* Worker w alone has taken a request, that of the call.
TakenBy(w) ==
  /\ wkr[w].k = call /\ \A v \in RingWorkers : v # w => wkr[v].at = "look"
  /\ NoneAnswered
  /\ \/ /\ wkr[w].at = "clear" /\ wkr[w].tail = rtail /\ rhead = After(rtail)
        /\ AtTail /\ handled[call] = 0
     \/ /\ wkr[w].at = "advance" /\ wkr[w].tail = rtail /\ rhead = After(rtail)
        /\ NoneReady /\ handled[call] = 0
     \/ /\ wkr[w].at \in {"count", "handle"} /\ rhead = rtail /\ NoneReady /\ handled[call] = 0
     \/ /\ wkr[w].at = "respond" /\ rhead = rtail /\ NoneReady /\ handled[call] = 1

\* The response to the call is the only one in the ring.
ResponseThere ==
  /\ AllLook /\ rhead = rtail /\ NoneReady /\ handled[call] = 1
  /\ \E i \in RingSlots : /\ entry[i].answered /\ entry[i].response = call
                          /\ \A j \in RingSlots : j # i => ~entry[j].answered

\* Between its steps the client's only request is at one place of the ring.
OneRequest ==
  /\ \A k \in Calls : k > call => handled[k] = 0
  /\ ringpc \in {"publish", "count", "wait", "got"} => call \in Calls
  /\ ringpc \in {"off", "init", "idle", "got"} =>
       AllLook /\ NoneReady /\ NoneAnswered /\ rhead = rtail
  /\ ringpc = "got" => got = call /\ handled[call] = 1
  /\ ringpc = "publish" =>
       AllLook /\ AtTail /\ NoneAnswered /\ rhead = rtail /\ handled[call] = 0
  /\ ringpc \in {"count", "wait"} =>
       \/ AllLook /\ AtTail /\ NoneAnswered /\ rhead = After(rtail) /\ handled[call] = 0
       \/ \E w \in RingWorkers : TakenBy(w)
       \/ ResponseThere

RingInv == RingTypes /\ (~raced /\ ~stale => OneRequest)

\* The indices stay in the ring, and no index follows itself.
LEMMA AfterInRing ==
  ASSUME NEW i \in RingSlots PROVE After(i) \in RingSlots /\ After(i) # i
<1>1. RingSize \in Nat /\ RingSize > 1 /\ i \in Nat /\ i < RingSize
  BY RingAssumption DEF RingSlots
<1>2. CASE i + 1 < RingSize
  <2>1. (i + 1) % RingSize = i + 1
    BY <1>1, <1>2
  <2> QED BY <1>1, <1>2, <2>1 DEF After, RingSlots
<1>3. CASE i + 1 = RingSize
  <2>1. RingSize % RingSize = 0
    BY <1>1
  <2> QED BY <1>1, <1>3, <2>1 DEF After, RingSlots
<1> QED BY <1>1, <1>2, <1>3

\* Every step keeps the types, and timeouts and races are remembered.
LEMMA RingTypesStay ==
  ASSUME RingTypes, [RingNext]_ringVars
  PROVE  RingTypes' /\ (raced => raced') /\ (stale => stale')
<1>0. /\ rhead \in RingSlots /\ rtail \in RingSlots /\ entry \in [RingSlots -> EntryTypes]
      /\ wkr \in [RingWorkers -> TakerTypes] /\ handled \in [Calls -> Nat]
      /\ call \in Calls \cup {0} /\ pending \in Int
      /\ connected \in BOOLEAN /\ raced \in BOOLEAN /\ stale \in BOOLEAN
      /\ ringpc \in RingLabels
  BY Zenon DEF RingTypes
<1>1. 0 \in RingSlots /\ \A i \in RingSlots : (i + 1) % RingSize \in RingSlots
  BY AfterInRing, RingAssumption DEF After, RingSlots
<1>2. /\ rhead' \in RingSlots /\ rtail' \in RingSlots /\ pending' \in Int
  <2>1. CASE InitRing
    <3>1. rhead' = 0 /\ rtail' = 0 /\ pending' = 0
      BY <2>1, Zenon DEF InitRing
    <3> QED BY <1>1, <3>1
  <2>2. CASE SendHead
    BY <1>0, <1>1, <2>2, Zenon DEF SendHead
  <2>3. CASE SendCount
    BY <1>0, <2>3 DEF SendCount
  <2>4. ASSUME NEW w \in RingWorkers, RingWorker(w) PROVE rhead' \in RingSlots /\ rtail' \in RingSlots /\ pending' \in Int
    <3>1. wkr[w].tail \in RingSlots
      BY <1>0, Zenon DEF TakerTypes
    <3> QED BY <1>0, <1>1, <2>4, <3>1
          DEF RingWorker, Look, ClearReady, Advance, CountDown, Handle, SendResponse
  <2>5. CASE Connect \/ SendEntry \/ WaitResponse \/ Return \/ WaitTimeout \/ Disconnect \/ UNCHANGED ringVars
    BY <1>0, <2>5, Zenon DEF Connect, SendEntry, WaitResponse, Return, WaitTimeout, Disconnect, ringVars
  <2> QED BY <2>1, <2>2, <2>3, <2>4, <2>5, Zenon DEF RingNext, RingCall
<1>3. entry' \in [RingSlots -> EntryTypes]
  <2>1. CASE InitRing
    <3>1. entry' = [i \in RingSlots |-> [entry[i] EXCEPT !.ready = FALSE, !.answered = FALSE]]
      BY <2>1, Zenon DEF InitRing
    <3>2. \A i \in RingSlots : [entry[i] EXCEPT !.ready = FALSE, !.answered = FALSE] \in EntryTypes
      BY <1>0, Zenon DEF EntryTypes
    <3> QED BY <3>1, <3>2, Zenon
  <2>2. ASSUME NEW i, NEW e \in EntryTypes, entry' = [entry EXCEPT ![i] = e]
        PROVE  entry' \in [RingSlots -> EntryTypes]
    BY <1>0, <2>2, Zenon
  <2>3. CASE SendEntry
    <3>1. call + 1 \in Calls /\ entry[rhead] \in EntryTypes
      BY <1>0, <2>3, RingAssumption DEF SendEntry, Calls
    <3>2. [entry[rhead] EXCEPT !.ready = TRUE, !.answered = FALSE, !.request = call + 1] \in EntryTypes
      BY <3>1, Zenon DEF EntryTypes
    <3>3. entry' = [entry EXCEPT ![rhead] = [entry[rhead] EXCEPT !.ready = TRUE, !.answered = FALSE,
                                                              !.request = call + 1]]
      BY <2>3, Zenon DEF SendEntry
    <3> QED BY <2>2, <3>2, <3>3, Zenon
  <2>4. CASE WaitResponse
    <3>1. PICK i : entry' = [entry EXCEPT ![i] = [entry[i] EXCEPT !.answered = FALSE]]
      BY <2>4, Zenon DEF WaitResponse
    <3>2. CASE i \in RingSlots
      <4>1. entry[i] \in EntryTypes
        BY <1>0, <3>2, Zenon
      <4>2. [entry[i] EXCEPT !.answered = FALSE] \in EntryTypes
        BY <4>1, Zenon DEF EntryTypes
      <4> QED BY <2>2, <3>1, <4>2, Zenon
    <3>3. CASE i \notin RingSlots
      BY <1>0, <3>1, <3>3, Zenon
    <3> QED BY <3>2, <3>3, Zenon
  <2>5. ASSUME NEW w \in RingWorkers, RingWorker(w) PROVE entry' \in [RingSlots -> EntryTypes]
    <3>1. CASE ClearReady(w)
      <4>1. wkr[w].tail \in RingSlots
        BY <1>0, Zenon DEF TakerTypes
      <4>2. entry[wkr[w].tail] \in EntryTypes
        BY <1>0, <4>1, Zenon
      <4>3. [entry[wkr[w].tail] EXCEPT !.ready = FALSE] \in EntryTypes
        BY <4>2, Zenon DEF EntryTypes
      <4>4. entry' = [entry EXCEPT ![wkr[w].tail] = [entry[wkr[w].tail] EXCEPT !.ready = FALSE]]
        BY <3>1, Zenon DEF ClearReady
      <4> QED BY <2>2, <4>3, <4>4, Zenon
    <3>2. CASE SendResponse(w)
      <4>0. wkr[w].k \in Calls \cup {0}
        BY <1>0, Zenon DEF TakerTypes
      <4>1. entry' = entry \/ \E i : entry' = [entry EXCEPT ![i] = [entry[i] EXCEPT !.answered = TRUE, !.response = wkr[w].k]]
        BY <3>2, Zenon DEF SendResponse
      <4>2. ASSUME NEW i, entry' = [entry EXCEPT ![i] = [entry[i] EXCEPT !.answered = TRUE, !.response = wkr[w].k]]
            PROVE  entry' \in [RingSlots -> EntryTypes]
        <5>1. CASE i \in RingSlots
          <6>1. entry[i] \in EntryTypes
            BY <1>0, <5>1, Zenon
          <6>2. [entry[i] EXCEPT !.answered = TRUE, !.response = wkr[w].k] \in EntryTypes
            BY <4>0, <6>1, Zenon DEF EntryTypes
          <6> QED BY <2>2, <4>2, <6>2, Zenon
        <5>2. CASE i \notin RingSlots
          BY <1>0, <4>2, <5>2, Zenon
        <5> QED BY <5>1, <5>2, Zenon
      <4> QED BY <1>0, <4>1, <4>2, Zenon
    <3>3. CASE Look(w) \/ Advance(w) \/ CountDown(w) \/ Handle(w)
      BY <1>0, <3>3, Zenon DEF Look, Advance, CountDown, Handle
    <3> QED BY <2>5, <3>1, <3>2, <3>3, Zenon DEF RingWorker
  <2>6. CASE Connect \/ SendHead \/ SendCount \/ Return \/ WaitTimeout \/ Disconnect \/ UNCHANGED ringVars
    BY <1>0, <2>6, Zenon DEF Connect, SendHead, SendCount, Return, WaitTimeout, Disconnect, ringVars
  <2> QED BY <2>1, <2>3, <2>4, <2>5, <2>6, Zenon DEF RingNext, RingCall
<1>4. wkr' \in [RingWorkers -> TakerTypes] /\ handled' \in [Calls -> Nat]
  <2>1. ASSUME NEW w \in RingWorkers, RingWorker(w) PROVE wkr' \in [RingWorkers -> TakerTypes] /\ handled' \in [Calls -> Nat]
    <3>0. wkr[w] \in TakerTypes /\ entry[rtail] \in EntryTypes
      BY <1>0, Zenon
    <3>1. \E t \in TakerTypes : wkr' = [wkr EXCEPT ![w] = t]
      <4>1. CASE Look(w)
        <5>1. [at |-> "clear", tail |-> rtail, k |-> entry[rtail].request] \in TakerTypes
          BY <1>0, <3>0, Zenon DEF TakerTypes, EntryTypes, TakerLabels
        <5> QED BY <4>1, <5>1, Zenon DEF Look
      <4>2. CASE ClearReady(w)
        <5>1. [wkr[w] EXCEPT !.at = "advance"] \in TakerTypes
          BY <3>0, Zenon DEF TakerTypes, TakerLabels
        <5> QED BY <4>2, <5>1, Zenon DEF ClearReady
      <4>3. CASE Advance(w)
        <5>1. [wkr[w] EXCEPT !.at = "count"] \in TakerTypes
          BY <3>0, Zenon DEF TakerTypes, TakerLabels
        <5> QED BY <4>3, <5>1, Zenon DEF Advance
      <4>4. CASE CountDown(w)
        <5>1. [wkr[w] EXCEPT !.at = "handle"] \in TakerTypes
          BY <3>0, Zenon DEF TakerTypes, TakerLabels
        <5> QED BY <4>4, <5>1, Zenon DEF CountDown
      <4>5. CASE Handle(w)
        <5>1. [wkr[w] EXCEPT !.at = "respond"] \in TakerTypes
          BY <3>0, Zenon DEF TakerTypes, TakerLabels
        <5> QED BY <4>5, <5>1, Zenon DEF Handle
      <4>6. CASE SendResponse(w)
        <5>1. Looking \in TakerTypes
          BY <1>1, Zenon DEF TakerTypes, TakerLabels, Looking
        <5> QED BY <4>6, <5>1, Zenon DEF SendResponse
      <4> QED BY <2>1, <4>1, <4>2, <4>3, <4>4, <4>5, <4>6, Zenon DEF RingWorker
    <3>2. handled' \in [Calls -> Nat]
      BY <1>0, <2>1 DEF RingWorker, Look, ClearReady, Advance, CountDown, Handle, SendResponse
    <3> QED BY <1>0, <3>1, <3>2, Zenon
  <2>2. CASE \/ Connect \/ InitRing \/ SendEntry \/ RingCall \/ WaitTimeout \/ Disconnect \/ UNCHANGED ringVars
    BY <1>0, <2>2, Zenon DEF Connect, InitRing, SendEntry, RingCall, SendHead, SendCount, WaitResponse, Return,
       WaitTimeout, Disconnect, ringVars
  <2> QED BY <2>1, <2>2, Zenon DEF RingNext
<1>5. call' \in Calls \cup {0}
  <2>1. CASE SendEntry
    BY <1>0, <2>1, RingAssumption DEF SendEntry, Calls
  <2>2. CASE ~SendEntry
    BY <1>0, <2>2, Zenon DEF RingNext, Connect, InitRing, RingCall, SendHead, SendCount, WaitResponse, Return,
       WaitTimeout, Disconnect, RingWorker, Look, ClearReady, Advance, CountDown, Handle, SendResponse, ringVars
  <2> QED BY <2>1, <2>2, Zenon
<1>6. ringpc' \in RingLabels /\ connected' \in BOOLEAN
  BY <1>0 DEF RingNext, Connect, InitRing, SendEntry, RingCall, SendHead, SendCount, WaitResponse, Return,
     WaitTimeout, Disconnect, RingWorker, Look, ClearReady, Advance, CountDown, Handle, SendResponse,
     ringVars, RingLabels
<1>7. /\ raced' \in BOOLEAN /\ stale' \in BOOLEAN /\ (raced => raced') /\ (stale => stale')
  BY <1>0, Zenon DEF RingNext, Connect, InitRing, SendEntry, RingCall, SendHead, SendCount, WaitResponse, Return,
     WaitTimeout, Disconnect, RingWorker, Look, ClearReady, Advance, CountDown, Handle, SendResponse,
     ringVars
<1> QED BY <1>2, <1>3, <1>4, <1>5, <1>6, <1>7, Zenon DEF RingTypes

\* A worker that has taken something is the only one, and it has the request
\* the client waits for.
LEMMA TakerIsSole ==
  ASSUME RingTypes, OneRequest, NEW w \in RingWorkers, wkr[w].at # "look"
  PROVE  ringpc \in {"count", "wait"} /\ TakenBy(w) /\ call \in Calls
<1>1. ~AllLook
  BY Zenon DEF AllLook
<1>2. ringpc \in {"count", "wait"}
  BY <1>1, Zenon DEF OneRequest, RingTypes, RingLabels
<1>3. PICK v \in RingWorkers : TakenBy(v)
  BY <1>1, <1>2, Zenon DEF OneRequest, ResponseThere
<1>4. v = w
  BY <1>3, Zenon DEF TakenBy
<1> QED BY <1>2, <1>3, <1>4, Zenon DEF OneRequest

\* What a worker's step leaves of the client.
LEMMA TakerFrame ==
  ASSUME RingTypes, NEW w \in RingWorkers, RingWorker(w)
  PROVE  /\ UNCHANGED <<ringpc, call, got, rhead, stale>>
         /\ \A v \in RingWorkers : v # w => wkr'[v] = wkr[v]
<1>1. UNCHANGED <<ringpc, call, got, rhead, stale>>
  BY Zenon DEF RingWorker, Look, ClearReady, Advance, CountDown, Handle, SendResponse
<1>2. \E t : wkr' = [wkr EXCEPT ![w] = t]
  BY Zenon DEF RingWorker, Look, ClearReady, Advance, CountDown, Handle, SendResponse
<1> QED BY <1>1, <1>2, Zenon DEF RingTypes

\* A worker's step goes on with the request it has.
LEMMA TakerKeeps ==
  ASSUME RingTypes, RingTypes', OneRequest, NEW w \in RingWorkers, RingWorker(w), ~raced'
  PROVE  OneRequest'
<1>0. /\ rhead \in RingSlots /\ rtail \in RingSlots /\ entry \in [RingSlots -> EntryTypes]
      /\ wkr \in [RingWorkers -> TakerTypes] /\ wkr[w] \in TakerTypes /\ handled \in [Calls -> Nat]
  BY Zenon DEF RingTypes
<1>1. /\ UNCHANGED <<ringpc, call, got, rhead>> /\ \A v \in RingWorkers : v # w => wkr'[v] = wkr[v]
  BY TakerFrame, Zenon
<1>2. ASSUME ringpc \in {"count", "wait"}, call \in Calls, TakenBy(w)' \/ ResponseThere',
             \A k \in Calls : k > call => handled'[k] = 0
      PROVE  OneRequest'
  BY <1>1, <1>2, Zenon DEF OneRequest
<1>3. CASE Look(w)
  <2>1. /\ wkr[w].at = "look" /\ rtail # rhead /\ entry[rtail].ready
        /\ wkr'[w] = [at |-> "clear", tail |-> rtail, k |-> entry[rtail].request]
        /\ UNCHANGED <<rtail, entry, handled>>
    BY <1>0, <1>3, Zenon DEF Look
  <2>2. \A v \in RingWorkers : ~Taking(v)
    <3>1. raced' = (raced \/ \E v \in RingWorkers : Taking(v))
      BY <1>3, Zenon DEF Look
    <3> QED BY <3>1, Zenon
  <2>3. ringpc \in {"count", "wait"} /\ call \in Calls
    BY <2>1, Zenon DEF OneRequest, RingTypes, RingLabels
  <2>4. AllLook /\ AtTail /\ NoneAnswered /\ rhead = After(rtail) /\ handled[call] = 0
    <3>1. ~ResponseThere
      BY <1>0, <2>1, Zenon DEF ResponseThere
    <3>2. ASSUME NEW v \in RingWorkers, TakenBy(v) PROVE FALSE
      <4>1. wkr[v].at \notin {"clear", "advance"}
        BY <2>2, Zenon DEF Taking
      <4> QED BY <1>0, <2>1, <3>2, <4>1, Zenon DEF TakenBy
    <3> QED BY <2>3, <3>1, <3>2, Zenon DEF OneRequest
  <2>5. wkr'[w].at = "clear" /\ wkr'[w].tail = rtail /\ wkr'[w].k = call
    BY <2>1, <2>4, SMTT(30) DEF AtTail
  <2>6. AtTail' /\ NoneAnswered'
    BY <1>1, <2>1, <2>4, Zenon DEF AtTail, NoneAnswered
  <2>7. TakenBy(w)'
    BY <1>1, <2>1, <2>4, <2>5, <2>6, Zenon DEF TakenBy, AllLook
  <2>8. \A k \in Calls : k > call => handled'[k] = 0
    BY <2>1, Zenon DEF OneRequest
  <2> QED BY <1>2, <2>3, <2>7, <2>8, Zenon
<1>4. CASE ~Look(w)
  <2>1. wkr[w].at # "look"
    BY <1>4, Zenon DEF RingWorker, ClearReady, Advance, CountDown, Handle, SendResponse
  <2>2. ringpc \in {"count", "wait"} /\ TakenBy(w) /\ call \in Calls
    BY <2>1, TakerIsSole, Zenon
  <2>3. \A k \in Calls : k > call => handled[k] = 0
    BY Zenon DEF OneRequest
  <2>4. CASE ClearReady(w)
    <3>1. /\ wkr[w].at = "clear" /\ UNCHANGED <<rtail, handled>>
          /\ entry' = [entry EXCEPT ![wkr[w].tail] = [entry[wkr[w].tail] EXCEPT !.ready = FALSE]]
          /\ wkr' = [wkr EXCEPT ![w] = [wkr[w] EXCEPT !.at = "advance"]]
      BY <2>4, Zenon DEF ClearReady
    <3>2. /\ wkr[w].tail = rtail /\ rhead = After(rtail) /\ AtTail /\ handled[call] = 0
          /\ NoneAnswered /\ wkr[w].k = call
      BY <2>2, <3>1, Zenon DEF TakenBy
    <3>3. wkr'[w].at = "advance" /\ wkr'[w].tail = wkr[w].tail /\ wkr'[w].k = wkr[w].k
      BY <1>0, <3>1, Zenon DEF TakerTypes
    <3>4. /\ entry'[rtail] = [entry[rtail] EXCEPT !.ready = FALSE] /\ entry[rtail] \in EntryTypes
          /\ \A i \in RingSlots : i # rtail => entry'[i] = entry[i]
      BY <1>0, <3>1, <3>2, Zenon
    <3>5. ~entry'[rtail].ready /\ entry'[rtail].answered = entry[rtail].answered
      BY <3>4, Zenon DEF EntryTypes
    <3>6. NoneReady' /\ NoneAnswered'
      BY <3>2, <3>4, <3>5, Zenon DEF NoneReady, NoneAnswered, AtTail
    <3>7. TakenBy(w)'
      BY <1>1, <2>2, <3>1, <3>2, <3>3, <3>6, Zenon DEF TakenBy
    <3> QED BY <1>2, <2>2, <2>3, <3>1, <3>7, Zenon
  <2>5. CASE Advance(w)
    <3>1. /\ wkr[w].at = "advance" /\ UNCHANGED <<entry, handled>> /\ rtail' = After(wkr[w].tail)
          /\ wkr' = [wkr EXCEPT ![w] = [wkr[w] EXCEPT !.at = "count"]]
      BY <2>5, Zenon DEF Advance, After
    <3>2. /\ wkr[w].tail = rtail /\ rhead = After(rtail) /\ NoneReady /\ handled[call] = 0
          /\ NoneAnswered /\ wkr[w].k = call
      BY <2>2, <3>1, Zenon DEF TakenBy
    <3>3. wkr'[w].at = "count" /\ wkr'[w].k = wkr[w].k
      BY <1>0, <3>1, Zenon DEF TakerTypes
    <3>4. NoneReady' /\ NoneAnswered' /\ rtail' = rhead
      BY <3>1, <3>2, Zenon DEF NoneReady, NoneAnswered
    <3>5. TakenBy(w)'
      BY <1>1, <2>2, <3>1, <3>2, <3>3, <3>4, Zenon DEF TakenBy
    <3> QED BY <1>2, <2>2, <2>3, <3>1, <3>5, Zenon
  <2>6. CASE CountDown(w)
    <3>1. /\ wkr[w].at = "count" /\ UNCHANGED <<entry, handled, rtail>>
          /\ wkr' = [wkr EXCEPT ![w] = [wkr[w] EXCEPT !.at = "handle"]]
      BY <2>6, Zenon DEF CountDown
    <3>2. rhead = rtail /\ NoneReady /\ handled[call] = 0 /\ NoneAnswered /\ wkr[w].k = call
      BY <2>2, <3>1, Zenon DEF TakenBy
    <3>3. wkr'[w].at = "handle" /\ wkr'[w].k = wkr[w].k
      BY <1>0, <3>1, Zenon DEF TakerTypes
    <3>4. NoneReady' /\ NoneAnswered'
      BY <3>1, <3>2, Zenon DEF NoneReady, NoneAnswered
    <3>5. TakenBy(w)'
      BY <1>1, <2>2, <3>1, <3>2, <3>3, <3>4, Zenon DEF TakenBy
    <3> QED BY <1>2, <2>2, <2>3, <3>1, <3>5, Zenon
  <2>7. CASE Handle(w)
    <3>1. /\ wkr[w].at = "handle" /\ UNCHANGED <<entry, rtail>>
          /\ wkr' = [wkr EXCEPT ![w] = [wkr[w] EXCEPT !.at = "respond"]]
          /\ handled' = [handled EXCEPT ![wkr[w].k] = handled[wkr[w].k] + 1]
      BY <2>7, Zenon DEF Handle
    <3>2. rhead = rtail /\ NoneReady /\ handled[call] = 0 /\ NoneAnswered /\ wkr[w].k = call
      BY <2>2, <3>1, Zenon DEF TakenBy
    <3>3. wkr'[w].at = "respond" /\ wkr'[w].k = wkr[w].k
      BY <1>0, <3>1, Zenon DEF TakerTypes
    <3>4. NoneReady' /\ NoneAnswered'
      BY <3>1, <3>2, Zenon DEF NoneReady, NoneAnswered
    <3>5. handled'[call] = 1 /\ \A k \in Calls : k # call => handled'[k] = handled[k]
      BY <1>0, <2>2, <3>1, <3>2
    <3>6. \A k \in Calls : k > call => handled'[k] = 0
      BY <2>2, <2>3, <3>5, RingAssumption DEF Calls
    <3>7. TakenBy(w)'
      BY <1>1, <2>2, <3>1, <3>2, <3>3, <3>4, <3>5, Zenon DEF TakenBy
    <3> QED BY <1>2, <2>2, <3>6, <3>7, Zenon
  <2>8. CASE SendResponse(w)
    <3>1. /\ wkr[w].at = "respond" /\ UNCHANGED <<rtail, handled>> /\ wkr' = [wkr EXCEPT ![w] = Looking]
      BY <2>8, Zenon DEF SendResponse
    <3>2. rhead = rtail /\ NoneReady /\ handled[call] = 1 /\ NoneAnswered /\ wkr[w].k = call
      BY <2>2, <3>1, Zenon DEF TakenBy
    <3>3. 0 \in FreeDistances /\ (rhead + 0) % RingSize = rhead /\ \A y \in FreeDistances : 0 <= y
      <4>1. 0 \in RingSlots /\ RingSize \in Nat /\ RingSize > 0 /\ rhead \in Nat /\ rhead < RingSize
        BY <1>0, RingAssumption DEF RingSlots
      <4>2. (rhead + 0) % RingSize = rhead
        BY <4>1
      <4> QED BY <1>0, <3>2, <4>1, <4>2 DEF FreeDistances, NoneReady, NoneAnswered, RingSlots
    <3>4. (CHOOSE x \in FreeDistances : \A y \in FreeDistances : x <= y) = 0
      <4>1. \E x \in FreeDistances : \A y \in FreeDistances : x <= y
        BY <3>3, Zenon
      <4> DEFINE d == CHOOSE x \in FreeDistances : \A y \in FreeDistances : x <= y
      <4>2. d \in FreeDistances /\ d <= 0
        BY <3>3, <4>1, Zenon
      <4>3. d \in Nat
        <5>1. d \in RingSlots
          BY <4>2, Zenon DEF FreeDistances
        <5> HIDE DEF d
        <5> QED BY <5>1, RingAssumption DEF RingSlots
      <4> QED BY <4>2, <4>3
    <3>5. entry' = [entry EXCEPT ![rhead] = [entry[rhead] EXCEPT !.answered = TRUE, !.response = call]]
      BY <2>8, <3>2, <3>3, <3>4, Zenon DEF SendResponse
    <3>6. /\ entry'[rhead] = [entry[rhead] EXCEPT !.answered = TRUE, !.response = call]
          /\ entry[rhead] \in EntryTypes /\ \A i \in RingSlots : i # rhead => entry'[i] = entry[i]
      BY <1>0, <3>5, Zenon
    <3>7. /\ entry'[rhead].answered /\ entry'[rhead].response = call
          /\ entry'[rhead].ready = entry[rhead].ready
      BY <3>6, Zenon DEF EntryTypes
    <3>8. NoneReady' /\ \A i \in RingSlots : i # rhead => ~entry'[i].answered
      BY <1>0, <3>2, <3>6, <3>7, Zenon DEF NoneReady, NoneAnswered
    <3>9. AllLook'
      BY <1>0, <1>1, <2>2, <3>1, Zenon DEF AllLook, TakenBy, Looking
    <3>10. ResponseThere'
      BY <1>0, <1>1, <3>1, <3>2, <3>7, <3>8, <3>9, Zenon DEF ResponseThere
    <3> QED BY <1>2, <2>2, <2>3, <3>1, <3>10, Zenon
  <2> QED BY <1>4, <2>4, <2>5, <2>6, <2>7, <2>8, Zenon DEF RingWorker
<1> QED BY <1>3, <1>4, Zenon

\* The client's steps: a response it takes is the one there is.
LEMMA ClientKeeps ==
  ASSUME RingTypes, RingTypes', OneRequest, ~stale',
         \/ Connect \/ InitRing \/ SendEntry \/ RingCall \/ WaitTimeout \/ Disconnect
  PROVE  OneRequest'
<1>0. /\ rhead \in RingSlots /\ rtail \in RingSlots /\ entry \in [RingSlots -> EntryTypes]
      /\ handled \in [Calls -> Nat] /\ call \in Calls \cup {0}
  BY Zenon DEF RingTypes
<1>1. CASE Connect
  <2>1. /\ ringpc = "off" /\ ringpc' = "init"
        /\ UNCHANGED <<rhead, rtail, entry, call, got, wkr, handled>>
    BY <1>1, Zenon DEF Connect
  <2> QED BY <2>1, Zenon DEF OneRequest, AllLook, NoneReady, NoneAnswered
<1>2. CASE InitRing
  <2>1. /\ ringpc = "init" /\ ringpc' = "idle" /\ rhead' = rtail' /\ UNCHANGED <<call, got, wkr, handled>>
        /\ entry' = [i \in RingSlots |-> [entry[i] EXCEPT !.ready = FALSE, !.answered = FALSE]]
    BY <1>2, Zenon DEF InitRing
  <2>2. \A i \in RingSlots : ~entry'[i].ready /\ ~entry'[i].answered
    <3> TAKE i \in RingSlots
    <3>1. entry'[i] = [entry[i] EXCEPT !.ready = FALSE, !.answered = FALSE] /\ entry[i] \in EntryTypes
      BY <1>0, <2>1, Zenon
    <3> QED BY <3>1, Zenon DEF EntryTypes
  <2> QED BY <2>1, <2>2, Zenon DEF OneRequest, AllLook, NoneReady, NoneAnswered
<1>3. CASE SendEntry
  <2>1. /\ ringpc = "idle" /\ ringpc' = "publish" /\ call < MaxRequests /\ call' = call + 1
        /\ UNCHANGED <<rhead, rtail, got, wkr, handled>>
        /\ entry' = [entry EXCEPT ![rhead] = [entry[rhead] EXCEPT !.ready = TRUE, !.answered = FALSE,
                                                              !.request = call + 1]]
    BY <1>3, Zenon DEF SendEntry
  <2>2. call' \in Calls /\ call' > call /\ call \in Nat
    BY <1>0, <2>1, RingAssumption DEF Calls
  <2>3. AllLook /\ NoneReady /\ NoneAnswered /\ rhead = rtail /\ \A k \in Calls : k > call => handled[k] = 0
    BY <2>1, Zenon DEF OneRequest
  <2>4. /\ entry'[rhead] = [entry[rhead] EXCEPT !.ready = TRUE, !.answered = FALSE, !.request = call + 1]
        /\ entry[rhead] \in EntryTypes /\ \A i \in RingSlots : i # rhead => entry'[i] = entry[i]
    BY <1>0, <2>1, Zenon
  <2>5. entry'[rhead].ready /\ ~entry'[rhead].answered /\ entry'[rhead].request = call'
    BY <2>1, <2>4, Zenon DEF EntryTypes
  <2>6. AtTail' /\ NoneAnswered' /\ AllLook'
    BY <1>0, <2>1, <2>3, <2>4, <2>5, Zenon DEF AtTail, NoneReady, NoneAnswered, AllLook
  <2>7. handled'[call'] = 0 /\ \A k \in Calls : k > call' => handled'[k] = 0
    BY <2>1, <2>2, <2>3 DEF Calls
  <2> QED BY <2>1, <2>2, <2>3, <2>6, <2>7, Zenon DEF OneRequest
<1>4. CASE SendHead
  <2>1. /\ ringpc = "publish" /\ ringpc' = "count" /\ rhead' = After(rhead)
        /\ UNCHANGED <<rtail, entry, call, got, wkr, handled>>
    BY <1>4, Zenon DEF SendHead, After
  <2> QED BY <2>1, Zenon DEF OneRequest, AtTail, NoneAnswered, AllLook
<1>5. CASE SendCount
  <2>1. /\ ringpc = "count" /\ ringpc' = "wait"
        /\ UNCHANGED <<rhead, rtail, entry, call, got, wkr, handled>>
    BY <1>5, Zenon DEF SendCount
  <2>2. /\ AllLook => AllLook'
        /\ AtTail => AtTail'
        /\ NoneAnswered => NoneAnswered'
        /\ NoneReady => NoneReady'
        /\ ResponseThere => ResponseThere'
    BY <2>1, Zenon DEF AllLook, AtTail, NoneAnswered, NoneReady, ResponseThere
  <2>3. \A w \in RingWorkers : TakenBy(w) => TakenBy(w)'
    BY <2>1, Zenon DEF TakenBy, AtTail, NoneAnswered, NoneReady
  <2> QED BY <2>1, <2>2, <2>3, Zenon DEF OneRequest
<1>6. CASE WaitResponse
  <2>1. ringpc = "wait" /\ Answered # {} /\ ringpc' = "got" /\ UNCHANGED <<rhead, rtail, call, wkr, handled>>
    BY <1>6, Zenon DEF WaitResponse
  <2>2. ResponseThere /\ call \in Calls
    <3>1. ~NoneAnswered
      BY <2>1, Zenon DEF Answered, NoneAnswered
    <3> QED BY <2>1, <3>1, Zenon DEF OneRequest, TakenBy
  <2>3. PICK i \in RingSlots : /\ entry[i].answered /\ entry[i].response = call
                               /\ \A j \in RingSlots : j # i => ~entry[j].answered
    BY <2>2, Zenon DEF ResponseThere
  <2>4. (CHOOSE j \in Answered : \A l \in Answered : j <= l) = i
    <3>1. Answered = {i}
      BY <2>3, Zenon DEF Answered
    <3>2. i <= i
      BY RingAssumption DEF RingSlots
    <3> QED BY <3>1, <3>2, Zenon
  <2>5. got' = call /\ entry' = [entry EXCEPT ![i] = [entry[i] EXCEPT !.answered = FALSE]]
    BY <1>6, <2>3, <2>4, Zenon DEF WaitResponse
  <2>6. /\ entry'[i] = [entry[i] EXCEPT !.answered = FALSE] /\ entry[i] \in EntryTypes
        /\ \A j \in RingSlots : j # i => entry'[j] = entry[j]
    BY <1>0, <2>5, Zenon
  <2>7. ~entry'[i].answered /\ entry'[i].ready = entry[i].ready
    BY <2>6, Zenon DEF EntryTypes
  <2>8. NoneReady' /\ NoneAnswered' /\ AllLook'
    BY <2>1, <2>2, <2>3, <2>6, <2>7, Zenon DEF ResponseThere, NoneReady, NoneAnswered, AllLook
  <2>9. rhead = rtail /\ handled[call] = 1
    BY <2>2, Zenon DEF ResponseThere
  <2> QED BY <2>1, <2>2, <2>5, <2>8, <2>9, Zenon DEF OneRequest
<1>7. CASE Return
  <2>1. ringpc = "got" /\ ringpc' = "idle" /\ UNCHANGED <<rhead, rtail, entry, call, wkr, handled>>
    BY <1>7, Zenon DEF Return
  <2> QED BY <2>1, Zenon DEF OneRequest, AllLook, NoneReady, NoneAnswered
<1>8. CASE WaitTimeout \/ Disconnect
  BY <1>8, Zenon DEF WaitTimeout, Disconnect
<1> QED BY <1>1, <1>2, <1>3, <1>4, <1>5, <1>6, <1>7, <1>8, Zenon DEF RingCall

\* The ring is empty before the first connect.
LEMMA RingInitInv == RingInit => RingInv
<1> SUFFICES ASSUME RingInit PROVE RingInv
  OBVIOUS
<1>1. 0 \in RingSlots /\ NoEntry \in EntryTypes /\ Looking \in TakerTypes
  BY RingAssumption DEF RingSlots, NoEntry, EntryTypes, Looking, TakerTypes, TakerLabels
<1>2. RingTypes
  <2>1. connected \in BOOLEAN /\ raced \in BOOLEAN /\ stale \in BOOLEAN
    BY Zenon DEF RingInit
  <2>2. /\ rhead \in RingSlots /\ rtail \in RingSlots /\ pending \in Int /\ ringpc \in RingLabels
        /\ call \in Calls \cup {0} /\ handled \in [Calls -> Nat]
    BY <1>1 DEF RingInit, RingLabels
  <2>3. entry \in [RingSlots -> EntryTypes] /\ wkr \in [RingWorkers -> TakerTypes]
    BY <1>1, Zenon DEF RingInit
  <2> QED BY <2>1, <2>2, <2>3, Zenon DEF RingTypes
<1>3. \A i \in RingSlots : ~entry[i].ready /\ ~entry[i].answered
  BY Zenon DEF RingInit, NoEntry
<1>4. \A w \in RingWorkers : wkr[w].at = "look"
  BY Zenon DEF RingInit, Looking
<1>5. OneRequest
  BY <1>3, <1>4, Zenon DEF RingInit, OneRequest, AllLook, NoneReady, NoneAnswered
<1> QED BY <1>2, <1>5, Zenon DEF RingInv

\* The invariant is inductive.
LEMMA RingInductive == RingInv /\ [RingNext]_ringVars => RingInv'
<1> SUFFICES ASSUME RingInv, [RingNext]_ringVars PROVE RingInv'
  OBVIOUS
<1>1. RingTypes /\ RingTypes' /\ (raced => raced') /\ (stale => stale')
  BY RingTypesStay, Zenon DEF RingInv
<1> SUFFICES ASSUME ~raced', ~stale' PROVE OneRequest'
  BY <1>1, Zenon DEF RingInv
<1>2. OneRequest
  BY <1>1, Zenon DEF RingInv
<1>3. CASE UNCHANGED ringVars
  <2>1. UNCHANGED <<rhead, rtail, entry, ringpc, call, got, wkr, handled>>
    BY <1>3, Zenon DEF ringVars
  <2>2. /\ AllLook => AllLook'
        /\ AtTail => AtTail'
        /\ NoneAnswered => NoneAnswered'
        /\ NoneReady => NoneReady'
        /\ ResponseThere => ResponseThere'
    BY <2>1, Zenon DEF AllLook, AtTail, NoneAnswered, NoneReady, ResponseThere
  <2>3. \A w \in RingWorkers : TakenBy(w) => TakenBy(w)'
    BY <2>1, Zenon DEF TakenBy, AtTail, NoneAnswered, NoneReady
  <2> QED BY <1>2, <2>1, <2>2, <2>3, Zenon DEF OneRequest
<1>4. ASSUME NEW w \in RingWorkers, RingWorker(w) PROVE OneRequest'
  BY <1>1, <1>2, <1>4, TakerKeeps, Zenon
<1>5. CASE \/ Connect \/ InitRing \/ SendEntry \/ RingCall \/ WaitTimeout \/ Disconnect
  BY <1>1, <1>2, <1>5, ClientKeeps, Zenon
<1> QED BY <1>3, <1>4, <1>5, Zenon DEF RingNext

\* A client of the ring gets the response to its own request, and that request
\* has been executed exactly once, for every ring size and number of workers.
THEOREM RingResponses == RingSpec => []ResponseMatches
<1>1. RingInv => ResponseMatches
  BY Zenon DEF RingInv, OneRequest, ResponseMatches
<1> QED BY <1>1, RingInitInv, RingInductive, PTL DEF RingSpec

-----------------------------------------------------------------------------
(***************************************************************************)
(* The context state. It is consistent for any interleaving of the checks, *)
(* device commands and commits of the threads.                             *)
(***************************************************************************)

InCreation == {"create", "retain", "created", "retaken"}

\* Why a refused commit means an overlap: without one, the only thread that
\* creates still finds the state it checked.
CreationAlone ==
  /\ \A t \in CudaThreads : xpc[t] \in {"created", "retaken"} => ctx[t] # 0
  /\ ~overlapped => \A t, u \in CudaThreads :
       xpc[t] \in InCreation => mode = "EMPTY" /\ (xpc[u] \in InCreation => u = t)

ContextInv == ContextTypeOK /\ StackHasToken /\ RetainsBalance /\ LostOnlyByOverlap /\ CreationAlone

USE DEF Live, Dead, Modes, Creating, CallLabels, InCreation

\* The state the library starts in satisfies the invariant.
LEMMA ContextStart == ContextInit => ContextInv
<1> SUFFICES ASSUME ContextInit PROVE ContextInv OBVIOUS
<1> USE ContextAssumption DEF ContextInit
<1>1. ContextTypeOK
  <2>1. mode \in Modes /\ xpc \in [CudaThreads -> CallLabels] /\ overlapped \in BOOLEAN BY Zenon
  <2>2. token \in Nat /\ primary_retain_count \in Nat /\ depth \in [CudaThreads -> 0 .. MaxDepth] OBVIOUS
  <2>3. ctx \in [CudaThreads -> Nat] /\ issued \in Nat /\ retained \in Nat /\ released \in Nat OBVIOUS
  <2>4. lost \in SUBSET Nat OBVIOUS
  <2> QED BY <2>1, <2>2, <2>3, <2>4, Zenon DEF ContextTypeOK
<1>2. StackHasToken BY DEF StackHasToken
<1>3. RetainsBalance BY DEF RetainsBalance
<1>4. LostOnlyByOverlap BY DEF LostOnlyByOverlap
<1>5. CreationAlone BY Zenon DEF CreationAlone
<1> QED BY <1>1, <1>2, <1>3, <1>4, <1>5, Zenon DEF ContextInv

\* Every call of libcuda.c keeps the variables in their types.
LEMMA ContextTypes ==
  ASSUME ContextTypeOK, StackHasToken, RetainsBalance, NEW t \in CudaThreads, CudaCall(t)
  PROVE  ContextTypeOK'
<1> USE ContextAssumption DEF ContextTypeOK, Leave, Enter, StartsCreating, SetDepth, token_is_live
<1>1. CASE PrepareCreate(t) BY <1>1, Zenon DEF PrepareCreate
<1>2. CASE PrepareRetain(t) BY <1>2, Zenon DEF PrepareRetain
<1>3. CASE RetainLive(t) BY <1>3 DEF RetainLive
<1>4. CASE DeviceCreate(t)
  <2>1. CASE Leave(t) /\ UNCHANGED issued BY <1>4, <2>1, Zenon DEF DeviceCreate
  <2>2. CASE ~(Leave(t) /\ UNCHANGED issued)
    <3>1. issued' = issued + 1 /\ ctx' = [ctx EXCEPT ![t] = issued']
      BY <1>4, <2>2, Zenon DEF DeviceCreate
    <3>2. xpc' = [xpc EXCEPT ![t] = IF @ = "create" THEN "created" ELSE "retaken"]
      BY <1>4, <2>2, Zenon DEF DeviceCreate
    <3>3. issued' \in Nat /\ ctx' \in [CudaThreads -> Nat] BY <3>1
    <3>4. xpc' \in [CudaThreads -> CallLabels] BY <3>2, Zenon
    <3> QED BY <1>4, <3>3, <3>4, Zenon DEF DeviceCreate
  <2> QED BY <2>1, <2>2, Zenon
<1>5. CASE CommitCreate(t)
  <2>1. mode' \in Modes BY <1>5, Zenon DEF CommitCreate
  <2>2. ctx[t] \in Nat OBVIOUS
  <2>3. token' \in Nat BY <1>5, <2>2, Zenon DEF CommitCreate
  <2>4. lost' = lost \/ lost' = lost \cup {ctx[t]} BY <1>5, Zenon DEF CommitCreate
  <2>5. lost' \in SUBSET Nat BY <2>2, <2>4, Zenon
  <2>6. depth' \in [CudaThreads -> 0 .. MaxDepth]
    <3>1. 1 \in 0 .. MaxDepth OBVIOUS
    <3> QED BY <1>5, <3>1, Zenon DEF CommitCreate
  <2>7. xpc' \in [CudaThreads -> CallLabels] /\ ctx' \in [CudaThreads -> Nat]
    BY <1>5, Zenon DEF CommitCreate
  <2>8. UNCHANGED <<primary_retain_count, issued, retained, released, overlapped>>
    BY <1>5, Zenon DEF CommitCreate
  <2> QED BY <2>1, <2>3, <2>5, <2>6, <2>7, <2>8, Zenon
<1>6. CASE CommitRetain(t)
  <2>1. mode' \in Modes BY <1>6, Zenon DEF CommitRetain
  <2>2. ctx[t] \in Nat OBVIOUS
  <2>3. token' \in Nat BY <1>6, <2>2, Zenon DEF CommitRetain
  <2>4. lost' = lost \/ lost' = lost \cup {ctx[t]} BY <1>6, Zenon DEF CommitRetain
  <2>5. lost' \in SUBSET Nat BY <2>2, <2>4, Zenon
  <2>6. primary_retain_count' \in Nat /\ retained' \in Nat BY <1>6 DEF CommitRetain
  <2>7. xpc' \in [CudaThreads -> CallLabels] /\ ctx' \in [CudaThreads -> Nat]
    BY <1>6, Zenon DEF CommitRetain
  <2>8. UNCHANGED <<depth, issued, released, overlapped>>
    BY <1>6, Zenon DEF CommitRetain
  <2> QED BY <2>1, <2>3, <2>5, <2>6, <2>7, <2>8, Zenon
<1>7. CASE Release(t) BY <1>7 DEF Release
<1>8. CASE PrepareDestroy(t) BY <1>8, Zenon DEF PrepareDestroy
<1>9. CASE DeviceDestroy(t) BY <1>9 DEF DeviceDestroy
<1>10. CASE CommitDestroy(t) BY <1>10 DEF CommitDestroy
<1>11. CASE SetCurrent(t) BY <1>11 DEF SetCurrent
<1>12. CASE PushCurrent(t) BY <1>12 DEF PushCurrent
<1>13. CASE PopCurrent(t) BY <1>13 DEF PopCurrent
<1>14. CASE GetCurrentLive(t) BY <1>14, Zenon DEF GetCurrentLive
<1>15. CASE UseToken(t) BY <1>15, Zenon DEF UseToken
<1> QED
  BY <1>1, <1>2, <1>3, <1>4, <1>5, <1>6, <1>7, <1>8, <1>9, <1>10, <1>11, <1>12, <1>13, <1>14, <1>15, Zenon
  DEF CudaCall

\* Every call leaves the stacks and the calls under way with the one token.
LEMMA ContextStack ==
  ASSUME ContextTypeOK, StackHasToken, CreationAlone, NEW t \in CudaThreads, CudaCall(t)
  PROVE  StackHasToken'
<1> USE ContextAssumption DEF ContextTypeOK, StackHasToken, CreationAlone, Leave, Enter, StartsCreating, SetDepth, token_is_live
<1>1. CASE PrepareCreate(t) BY <1>1, Zenon DEF PrepareCreate
<1>2. CASE PrepareRetain(t) BY <1>2, Zenon DEF PrepareRetain
<1>3. CASE RetainLive(t) BY <1>3, Zenon DEF RetainLive
<1>4. CASE DeviceCreate(t) BY <1>4 DEF DeviceCreate
<1>5. CASE CommitCreate(t) BY <1>5, Zenon DEF CommitCreate
<1>6. CASE CommitRetain(t) BY <1>6, Zenon DEF CommitRetain
<1>7. CASE Release(t) BY <1>7, Zenon DEF Release
<1>8. CASE PrepareDestroy(t) BY <1>8, Zenon DEF PrepareDestroy
<1>9. CASE DeviceDestroy(t) BY <1>9, Zenon DEF DeviceDestroy
<1>10. CASE CommitDestroy(t) BY <1>10, Zenon DEF CommitDestroy
<1>11. CASE SetCurrent(t) BY <1>11, Zenon DEF SetCurrent
<1>12. CASE PushCurrent(t) BY <1>12, Zenon DEF PushCurrent
<1>13. CASE PopCurrent(t) BY <1>13, Zenon DEF PopCurrent
<1>14. CASE GetCurrentLive(t) BY <1>14, Zenon DEF GetCurrentLive
<1>15. CASE UseToken(t) BY <1>15, Zenon DEF UseToken
<1> QED
  BY <1>1, <1>2, <1>3, <1>4, <1>5, <1>6, <1>7, <1>8, <1>9, <1>10, <1>11, <1>12, <1>13, <1>14, <1>15, Zenon
  DEF CudaCall

\* Every call keeps the count of the primary context's retains.
LEMMA ContextRetains ==
  ASSUME ContextTypeOK, RetainsBalance, NEW t \in CudaThreads, CudaCall(t)
  PROVE  RetainsBalance'
<1> USE ContextAssumption DEF ContextTypeOK, RetainsBalance, Leave, Enter, StartsCreating, SetDepth, token_is_live
<1>1. CASE PrepareCreate(t) BY <1>1, Zenon DEF PrepareCreate
<1>2. CASE PrepareRetain(t) BY <1>2, Zenon DEF PrepareRetain
<1>3. CASE RetainLive(t) BY <1>3 DEF RetainLive
<1>4. CASE DeviceCreate(t) BY <1>4, Zenon DEF DeviceCreate
<1>5. CASE CommitCreate(t) BY <1>5, Zenon DEF CommitCreate
<1>6. CASE CommitRetain(t) BY <1>6 DEF CommitRetain
<1>7. CASE Release(t) BY <1>7 DEF Release
<1>8. CASE PrepareDestroy(t) BY <1>8, Zenon DEF PrepareDestroy
<1>9. CASE DeviceDestroy(t) BY <1>9, Zenon DEF DeviceDestroy
<1>10. CASE CommitDestroy(t) BY <1>10, Zenon DEF CommitDestroy
<1>11. CASE SetCurrent(t) BY <1>11, Zenon DEF SetCurrent
<1>12. CASE PushCurrent(t) BY <1>12, Zenon DEF PushCurrent
<1>13. CASE PopCurrent(t) BY <1>13, Zenon DEF PopCurrent
<1>14. CASE GetCurrentLive(t) BY <1>14, Zenon DEF GetCurrentLive
<1>15. CASE UseToken(t) BY <1>15, Zenon DEF UseToken
<1> QED
  BY <1>1, <1>2, <1>3, <1>4, <1>5, <1>6, <1>7, <1>8, <1>9, <1>10, <1>11, <1>12, <1>13, <1>14, <1>15, Zenon
  DEF CudaCall

\* Every call keeps a creation that overlaps no other one alone.
LEMMA ContextCreation ==
  ASSUME ContextTypeOK, CreationAlone, NEW t \in CudaThreads, CudaCall(t)
  PROVE  CreationAlone'
<1> USE ContextAssumption DEF ContextTypeOK, CreationAlone, Leave, Enter, StartsCreating, SetDepth, token_is_live
<1>1. CASE PrepareCreate(t)
  <2>1. /\ xpc[t] = "idle" /\ mode = "EMPTY" /\ mode' = mode
        /\ xpc' = [xpc EXCEPT ![t] = "create"] /\ ctx' = [ctx EXCEPT ![t] = 0]
        /\ ~overlapped' => ~overlapped /\ \A u \in CudaThreads : xpc[u] \notin InCreation
    BY <1>1, Zenon DEF PrepareCreate
  <2>2. \A u \in CudaThreads : xpc'[u] = IF u = t THEN "create" ELSE xpc[u]
    BY <2>1
  <2>3. \A u \in CudaThreads : xpc'[u] \in {"created", "retaken"} => ctx'[u] # 0
    BY <2>1, <2>2, Zenon
  <2>4. ~overlapped' => \A u, v \in CudaThreads :
          xpc'[u] \in InCreation => mode' = "EMPTY" /\ (xpc'[v] \in InCreation => v = u)
    BY <2>1, <2>2
  <2> QED BY <2>3, <2>4, Zenon
<1>2. CASE PrepareRetain(t)
  <2>1. /\ xpc[t] = "idle" /\ mode = "EMPTY" /\ mode' = mode
        /\ xpc' = [xpc EXCEPT ![t] = "retain"] /\ ctx' = [ctx EXCEPT ![t] = 0]
        /\ ~overlapped' => ~overlapped /\ \A u \in CudaThreads : xpc[u] \notin InCreation
    BY <1>2, Zenon DEF PrepareRetain
  <2>2. \A u \in CudaThreads : xpc'[u] = IF u = t THEN "retain" ELSE xpc[u]
    BY <2>1
  <2>3. \A u \in CudaThreads : xpc'[u] \in {"created", "retaken"} => ctx'[u] # 0
    BY <2>1, <2>2, Zenon
  <2>4. ~overlapped' => \A u, v \in CudaThreads :
          xpc'[u] \in InCreation => mode' = "EMPTY" /\ (xpc'[v] \in InCreation => v = u)
    BY <2>1, <2>2
  <2> QED BY <2>3, <2>4, Zenon
<1>3. CASE RetainLive(t) BY <1>3, Zenon DEF RetainLive
<1>4. CASE DeviceCreate(t) BY <1>4 DEF DeviceCreate
<1>5. CASE CommitCreate(t) BY <1>5, Zenon DEF CommitCreate
<1>6. CASE CommitRetain(t) BY <1>6, Zenon DEF CommitRetain
<1>7. CASE Release(t) BY <1>7, Zenon DEF Release
<1>8. CASE PrepareDestroy(t) BY <1>8, Zenon DEF PrepareDestroy
<1>9. CASE DeviceDestroy(t) BY <1>9 DEF DeviceDestroy
<1>10. CASE CommitDestroy(t) BY <1>10, Zenon DEF CommitDestroy
<1>11. CASE SetCurrent(t) BY <1>11, Zenon DEF SetCurrent
<1>12. CASE PushCurrent(t) BY <1>12, Zenon DEF PushCurrent
<1>13. CASE PopCurrent(t) BY <1>13, Zenon DEF PopCurrent
<1>14. CASE GetCurrentLive(t) BY <1>14, Zenon DEF GetCurrentLive
<1>15. CASE UseToken(t) BY <1>15, Zenon DEF UseToken
<1> QED
  BY <1>1, <1>2, <1>3, <1>4, <1>5, <1>6, <1>7, <1>8, <1>9, <1>10, <1>11, <1>12, <1>13, <1>14, <1>15, Zenon
  DEF CudaCall

\* Every call accounts for the tokens the device has issued.
LEMMA ContextLost ==
  ASSUME ContextTypeOK, StackHasToken, CreationAlone, LostOnlyByOverlap, NEW t \in CudaThreads, CudaCall(t)
  PROVE  LostOnlyByOverlap'
<1> USE ContextAssumption DEF ContextTypeOK, StackHasToken, CreationAlone, LostOnlyByOverlap, Leave, Enter, StartsCreating, SetDepth, token_is_live
<1>1. CASE PrepareCreate(t) BY <1>1, Zenon DEF PrepareCreate
<1>2. CASE PrepareRetain(t) BY <1>2, Zenon DEF PrepareRetain
<1>3. CASE RetainLive(t) BY <1>3, Zenon DEF RetainLive
<1>4. CASE DeviceCreate(t) BY <1>4 DEF DeviceCreate
<1>5. CASE CommitCreate(t) BY <1>5 DEF CommitCreate
<1>6. CASE CommitRetain(t) BY <1>6 DEF CommitRetain
<1>7. CASE Release(t) BY <1>7, Zenon DEF Release
<1>8. CASE PrepareDestroy(t) BY <1>8, Zenon DEF PrepareDestroy
<1>9. CASE DeviceDestroy(t) BY <1>9 DEF DeviceDestroy
<1>10. CASE CommitDestroy(t) BY <1>10, Zenon DEF CommitDestroy
<1>11. CASE SetCurrent(t) BY <1>11, Zenon DEF SetCurrent
<1>12. CASE PushCurrent(t) BY <1>12, Zenon DEF PushCurrent
<1>13. CASE PopCurrent(t) BY <1>13, Zenon DEF PopCurrent
<1>14. CASE GetCurrentLive(t) BY <1>14, Zenon DEF GetCurrentLive
<1>15. CASE UseToken(t) BY <1>15, Zenon DEF UseToken
<1> QED
  BY <1>1, <1>2, <1>3, <1>4, <1>5, <1>6, <1>7, <1>8, <1>9, <1>10, <1>11, <1>12, <1>13, <1>14, <1>15, Zenon
  DEF CudaCall

\* The invariant holds in every reachable state of the context library.
LEMMA ContextInvariant == ContextSpec => []ContextInv
<1>1. ASSUME ContextInv, [ContextNext]_ctxVars PROVE ContextInv'
  <2>1. CASE UNCHANGED ctxVars
    BY <1>1, <2>1, Zenon DEF ctxVars, ContextInv, ContextTypeOK, StackHasToken, RetainsBalance, LostOnlyByOverlap, CreationAlone
  <2>2. ASSUME NEW t \in CudaThreads, CudaCall(t) PROVE ContextInv'
    BY <1>1, <2>2, ContextTypes, ContextStack, ContextRetains, ContextCreation, ContextLost, Zenon DEF ContextInv
  <2> QED BY <1>1, <2>1, <2>2, Zenon DEF ContextNext
<1> QED BY <1>1, ContextStart, PTL DEF ContextSpec

\* For any number of threads, every stack entry and every call under way is
\* about the one token of the process (cxl_gpu_context_state.h).
THEOREM ContextStacks == ContextSpec => []StackHasToken
BY ContextInvariant, PTL DEF ContextInv

\* For any number of threads that race through its creation, the primary
\* context is live exactly while it is retained more often than released.
THEOREM ContextRetainsBalance == ContextSpec => []RetainsBalance
BY ContextInvariant, PTL DEF ContextInv

\* For any number of threads, the device holds a token that the process lost
\* only after two creating calls overlapped between check and commit.
THEOREM ContextLosesNothing == ContextSpec => []LostOnlyByOverlap
BY ContextInvariant, PTL DEF ContextInv

\* For any number of threads, no call exchanges the token or revives a dead
\* context.
THEOREM ContextIsFinal == ContextSpec => ContextNeverReplaced
<1>1. ASSUME ContextInv, [ContextNext]_ctxVars
      PROVE  [/\ token # 0 => token' = token
              /\ mode \in Dead => mode' = mode
              /\ mode # mode' /\ mode # "EMPTY" => mode' \in Dead]_ctxVars
  <2> SUFFICES ASSUME NEW t \in CudaThreads, CudaCall(t)
               PROVE  /\ token # 0 => token' = token
                      /\ mode \in Dead => mode' = mode
                      /\ mode # mode' /\ mode # "EMPTY" => mode' \in Dead
    BY <1>1, Zenon DEF ContextNext
  <2> USE <1>1 DEF ContextInv, StackHasToken, Enter, Leave, SetDepth
  <2>1. CASE PrepareCreate(t) BY <2>1, Zenon DEF PrepareCreate
  <2>2. CASE PrepareRetain(t) BY <2>2, Zenon DEF PrepareRetain
  <2>3. CASE RetainLive(t) BY <2>3, Zenon DEF RetainLive
  <2>4. CASE DeviceCreate(t) BY <2>4, Zenon DEF DeviceCreate
  <2>5. CASE CommitCreate(t) BY <2>5, Zenon DEF CommitCreate
  <2>6. CASE CommitRetain(t) BY <2>6, Zenon DEF CommitRetain
  <2>7. CASE Release(t) BY <2>7, Zenon DEF Release
  <2>8. CASE PrepareDestroy(t) BY <2>8, Zenon DEF PrepareDestroy
  <2>9. CASE DeviceDestroy(t) BY <2>9, Zenon DEF DeviceDestroy
  <2>10. CASE CommitDestroy(t) BY <2>10, Zenon DEF CommitDestroy
  <2>11. CASE SetCurrent(t) BY <2>11, Zenon DEF SetCurrent
  <2>12. CASE PushCurrent(t) BY <2>12, Zenon DEF PushCurrent
  <2>13. CASE PopCurrent(t) BY <2>13, Zenon DEF PopCurrent
  <2>14. CASE GetCurrentLive(t) BY <2>14, Zenon DEF GetCurrentLive
  <2>15. CASE UseToken(t) BY <2>15, Zenon DEF UseToken
  <2> QED
    BY <2>1, <2>2, <2>3, <2>4, <2>5, <2>6, <2>7, <2>8, <2>9, <2>10, <2>11, <2>12, <2>13, <2>14, <2>15, Zenon
    DEF CudaCall
<1> QED BY <1>1, ContextInvariant, PTL DEF ContextSpec, ContextNeverReplaced

-----------------------------------------------------------------------------
(***************************************************************************)
(* The request slots of PGAS. A request is in one place at a time, from    *)
(* the fill of its slot to the answer, and the answer a client takes is    *)
(* the one its request earned.                                             *)
(***************************************************************************)

ClientLabels == {"idle", "filled", "wait", "taken", "reset"}
SlotWorkerLabels == {"poll", "fetch", "serve", "answer"}
SlotTypes == [req : PgasOps \cup {NONE}, resp : {NONE, "OK", "ERROR"},
              addr : Lines \cup {0, BadLine}, value : Nat, expected : {0}]
CallTypes == [at : ClientLabels, op : PgasOps \cup {NONE}, addr : Lines \cup {BadLine},
              got : Nat, ok : BOOLEAN]
HoldTypes == [at : SlotWorkerLabels, of : Clients \cup {NONE}, op : PgasOps \cup {NONE},
              addr : Lines \cup {BadLine}]

\* The types of all variables; a worker that is not polling holds a client's
\* request, and what it serves is inside the memory.
PgasTypes ==
  /\ slot \in [Clients -> SlotTypes] /\ table \in [Lines -> Nat]
  /\ client \in [Clients -> CallTypes] /\ worker \in [Workers -> HoldTypes]
  /\ window \in [Clients -> SUBSET Nat] /\ gaveUp \in [Clients -> BOOLEAN]
  /\ writers \subseteq Clients /\ \A x \in tickets : x[2] \in Nat
  /\ \A w \in Workers : /\ worker[w].at = "poll" <=> worker[w].of = NONE
                        /\ worker[w].at \in {"serve", "answer"} => worker[w].addr \in Lines

Unheld(c) == \A w \in Workers : worker[w].of # c

\* The address is that of a request once there is one.
AddressSet ==
  \A c \in Clients :
     \/ slot[c].addr \in Lines \cup {BadLine}
     \/ slot[c].req = NONE /\ client[c].at # "filled" /\ Unheld(c)

\* A client calls with its requests, and one that never wrote has no write on
\* its way, abandoned or not.
CallsAsked ==
  /\ \A c \in Clients : client[c].at # "idle" => <<client[c].op, client[c].addr>> \in Requests
  /\ \A c \in Clients : c \notin writers =>
       /\ client[c].op \notin {"WRITE", "CAS"} /\ slot[c].req \notin {"WRITE", "CAS"}
       /\ \A w \in Workers : worker[w].of = c => worker[w].op \notin {"WRITE", "CAS"}

\* Worker w alone holds the request client c waits for.
HeldBy(c, w) ==
  /\ worker[w].of = c /\ worker[w].op = client[c].op
  /\ worker[w].at \in {"serve", "answer"} => worker[w].addr = client[c].addr
  /\ worker[w].at \in {"fetch", "serve"} => slot[c].value = 1
  /\ \A v \in Workers : worker[v].of = c => v = w

\* Where the call of client c stands decides what is in its slot and which
\* worker holds it, as long as no call of c timed out.
Phase(c) ==
  /\ client[c].at # "wait" => slot[c].req = NONE /\ Unheld(c)
  /\ client[c].at \in {"idle", "filled", "reset"} => slot[c].resp = NONE
  /\ client[c].at \in {"filled", "wait"} => slot[c].addr = client[c].addr
  /\ client[c].at = "filled" => slot[c].value = 1
  /\ client[c].at = "wait" =>
       \/ slot[c].req = client[c].op /\ slot[c].resp = NONE /\ Unheld(c) /\ slot[c].value = 1
       \/ slot[c].req = NONE /\ slot[c].resp = NONE /\ \E w \in Workers : HeldBy(c, w)
       \/ slot[c].req = NONE /\ Unheld(c)

Phases == \A c \in Clients : ~gaveUp[c] => Phase(c)

\* The request of c has been applied to the table and not been taken.
Served(c) ==
  /\ client[c].at = "wait" /\ ~gaveUp[c]
  /\ slot[c].resp = "OK" \/ \E w \in Workers : worker[w].of = c /\ worker[w].at = "answer"

\* The window has the value its line has now, and the one a read has got.
WindowsCurrent ==
  \A c \in Clients :
     /\ client[c].at = "wait" /\ client[c].addr \in Lines => table[client[c].addr] \in window[c]
     /\ Served(c) /\ client[c].op = "READ" => slot[c].value \in window[c]
     /\ client[c].at = "taken" /\ client[c].op = "READ" /\ client[c].ok /\ ~gaveUp[c]
          => client[c].got \in window[c]

\* A fetch-and-add of a counter that has been served and not been taken.
Outstanding(c) == Served(c) /\ client[c].op = "FAA" /\ client[c].addr \in CounterLines

\* Every value handed out is below its counter, and no two are the same.
TicketsApart ==
  (\A c \in writers : ~gaveUp[c]) =>
    /\ ~repeated
    /\ \A x \in tickets : x[1] \in CounterLines => x[2] < table[x[1]]
    /\ \A c \in Clients : Outstanding(c) => /\ slot[c].value < table[client[c].addr]
                                            /\ <<client[c].addr, slot[c].value>> \notin tickets
    /\ \A c, d \in Clients :
         (Outstanding(c) /\ Outstanding(d) /\ c # d /\ client[c].addr = client[d].addr)
           => slot[c].value # slot[d].value

PgasInv == PgasTypes /\ AddressSet /\ CallsAsked /\ Phases /\ WindowsCurrent /\ TicketsApart

\* What a client's step changes: its own call and slot.
LEMMA ClientTypes ==
  ASSUME PgasTypes, NEW c \in Clients, ClientStep(c)
  PROVE  /\ PgasTypes' /\ worker' = worker /\ table' = table
         /\ \A d \in Clients : d # c =>
              /\ slot'[d] = slot[d] /\ client'[d] = client[d]
              /\ window'[d] = window[d] /\ gaveUp'[d] = gaveUp[d]
<1>0. /\ slot \in [Clients -> SlotTypes] /\ client \in [Clients -> CallTypes]
      /\ slot[c] \in SlotTypes /\ client[c] \in CallTypes /\ window \in [Clients -> SUBSET Nat]
      /\ table \in [Lines -> Nat] /\ gaveUp \in [Clients -> BOOLEAN]
  BY Zenon DEF PgasTypes
<1>1. /\ \E e \in SlotTypes : slot' = [slot EXCEPT ![c] = e]
      /\ \E k \in CallTypes : client' = [client EXCEPT ![c] = k]
      /\ \E x \in SUBSET Nat : window' = [window EXCEPT ![c] = x]
      /\ \E b \in BOOLEAN : gaveUp' = [gaveUp EXCEPT ![c] = b]
      /\ worker' = worker /\ table' = table
  <2>0. /\ slot = [slot EXCEPT ![c] = slot[c]] /\ window = [window EXCEPT ![c] = window[c]]
        /\ gaveUp = [gaveUp EXCEPT ![c] = gaveUp[c]] /\ Idle \in CallTypes
    BY <1>0, Zenon DEF Idle, CallTypes, ClientLabels
  <2>1. CASE Fill(c)
    <3>1. PICK r \in Requests :
            /\ client' = [client EXCEPT ![c] = [Idle EXCEPT !.at = "filled", !.op = r[1], !.addr = r[2]]]
            /\ slot' = [slot EXCEPT ![c] = [slot[c] EXCEPT !.addr = r[2], !.value = 1, !.expected = 0]]
      BY <2>1, <1>0 DEF Fill
    <3>2. r[1] \in PgasOps /\ r[2] \in Lines \cup {BadLine}
      BY PgasAssumption, Zenon
    <3>3. [Idle EXCEPT !.at = "filled", !.op = r[1], !.addr = r[2]] \in CallTypes
      BY <3>2, Zenon DEF Idle, CallTypes, ClientLabels
    <3>4. [slot[c] EXCEPT !.addr = r[2], !.value = 1, !.expected = 0] \in SlotTypes
      BY <1>0, <3>2, Zenon DEF SlotTypes
    <3> QED BY <1>0, <2>0, <2>1, <3>1, <3>3, <3>4, Zenon DEF Fill
  <2>2. CASE Post(c)
    <3>1. [slot[c] EXCEPT !.req = client[c].op] \in SlotTypes
      BY <1>0, Zenon DEF SlotTypes, CallTypes
    <3>2. [client[c] EXCEPT !.at = "wait"] \in CallTypes
      BY <1>0, Zenon DEF CallTypes, ClientLabels
    <3>3. (IF client[c].addr \in Lines THEN {table[client[c].addr]} ELSE {}) \in SUBSET Nat
      BY <1>0, Zenon
    <3>4. /\ slot' = [slot EXCEPT ![c] = [slot[c] EXCEPT !.req = client[c].op]]
          /\ client' = [client EXCEPT ![c] = [client[c] EXCEPT !.at = "wait"]]
          /\ window' = [window EXCEPT ![c] =
                          IF client[c].addr \in Lines THEN {table[client[c].addr]} ELSE {}]
          /\ UNCHANGED <<table, worker, gaveUp>>
      BY <1>0, <2>2, Zenon DEF Post
    <3> QED BY <1>0, <2>0, <3>1, <3>2, <3>3, <3>4, Zenon
  <2>3. CASE Take(c)
    <3> DEFINE k == [client[c] EXCEPT !.at = "taken", !.got = slot[c].value, !.ok = (slot[c].resp = "OK")]
    <3>1. k \in CallTypes
      BY <1>0, Zenon DEF CallTypes, ClientLabels, SlotTypes
    <3>2. client' = [client EXCEPT ![c] = k] /\ UNCHANGED <<slot, table, worker, window, gaveUp>>
      BY <1>0, <2>3, Zenon DEF Take
    <3> QED BY <1>0, <2>0, <3>1, <3>2, Zenon
  <2>4. CASE ResetResp(c)
    <3>1. [slot[c] EXCEPT !.resp = NONE] \in SlotTypes
      BY <1>0, Zenon DEF SlotTypes
    <3>2. [client[c] EXCEPT !.at = "reset"] \in CallTypes
      BY <1>0, Zenon DEF CallTypes, ClientLabels
    <3>3. /\ slot' = [slot EXCEPT ![c] = [slot[c] EXCEPT !.resp = NONE]]
          /\ client' = [client EXCEPT ![c] = [client[c] EXCEPT !.at = "reset"]]
          /\ UNCHANGED <<table, worker, window, gaveUp>>
      BY <1>0, <2>4, Zenon DEF ResetResp
    <3> QED BY <1>0, <2>0, <3>1, <3>2, <3>3, Zenon
  <2>5. CASE ResetReq(c)
    <3>1. [slot[c] EXCEPT !.req = NONE] \in SlotTypes
      BY <1>0, Zenon DEF SlotTypes
    <3>2. /\ slot' = [slot EXCEPT ![c] = [slot[c] EXCEPT !.req = NONE]]
          /\ client' = [client EXCEPT ![c] = Idle] /\ window' = [window EXCEPT ![c] = {}]
          /\ UNCHANGED <<table, worker, gaveUp>>
      BY <1>0, <2>5, Zenon DEF ResetReq
    <3> QED BY <1>0, <2>0, <3>1, <3>2, Zenon
  <2>6. CASE GiveUp(c)
    <3> DEFINE k == IF client[c].op = "FENCE" THEN [client[c] EXCEPT !.at = "taken"] ELSE Idle
    <3>1. k \in CallTypes
      BY <1>0, <2>0, Zenon DEF CallTypes, ClientLabels
    <3>2. /\ client' = [client EXCEPT ![c] = k] /\ window' = [window EXCEPT ![c] = {}]
          /\ gaveUp' = [gaveUp EXCEPT ![c] = TRUE] /\ UNCHANGED <<slot, table, worker>>
      BY <1>0, <2>6, Zenon DEF GiveUp
    <3> HIDE DEF k
    <3> QED BY <1>0, <2>0, <3>1, <3>2, Zenon
  <2> QED BY <2>1, <2>2, <2>3, <2>4, <2>5, <2>6, Zenon DEF ClientStep
<1>2. slot' \in [Clients -> SlotTypes] /\ \A d \in Clients : d # c => slot'[d] = slot[d]
  BY <1>0, <1>1, Zenon
<1>3. client' \in [Clients -> CallTypes] /\ \A d \in Clients : d # c => client'[d] = client[d]
  BY <1>0, <1>1, Zenon
<1>4. window' \in [Clients -> SUBSET Nat] /\ \A d \in Clients : d # c => window'[d] = window[d]
  BY <1>0, <1>1, Zenon
<1>5. gaveUp' \in [Clients -> BOOLEAN] /\ \A d \in Clients : d # c => gaveUp'[d] = gaveUp[d]
  BY <1>0, <1>1, Zenon
<1>6. writers' \subseteq Clients
  <2>1. Fill(c) => writers' = writers \/ writers' = writers \cup {c}
    BY Zenon DEF Fill
  <2>2. ~Fill(c) => writers' = writers
    BY Zenon DEF ClientStep, Post, Take, ResetResp, ResetReq, GiveUp
  <2> QED BY <2>1, <2>2, Zenon DEF PgasTypes
<1>7. \A x \in tickets' : x[2] \in Nat
  <2>1. CASE Take(c)
    <3>1. tickets' = tickets \/ tickets' = tickets \cup {<<client[c].addr, slot[c].value>>}
      BY <2>1, Zenon DEF Take
    <3>2. slot[c].value \in Nat
      BY <1>0, Zenon DEF SlotTypes
    <3> QED BY <3>1, <3>2 DEF PgasTypes
  <2>2. CASE ~Take(c)
    BY <2>2, Zenon DEF PgasTypes, ClientStep, Fill, Post, ResetResp, ResetReq, GiveUp
  <2> QED BY <2>1, <2>2, Zenon
<1> QED BY <1>1, <1>2, <1>3, <1>4, <1>5, <1>6, <1>7, Zenon DEF PgasTypes

\* The client a worker's step is about.
Serves(w, c) == c \in Clients /\ (worker[w].of = c \/ Claim(w, c))

\* What a worker's step changes: its own hold, and the slot it serves.
LEMMA WorkerTypes ==
  ASSUME PgasTypes, AddressSet, NEW w \in Workers, WorkerStep(w)
  PROVE  /\ PgasTypes' /\ client' = client /\ gaveUp' = gaveUp /\ writers' = writers
         /\ tickets' = tickets /\ repeated' = repeated
         /\ \A v \in Workers : v # w => worker'[v] = worker[v]
         /\ \E c \in Clients : /\ Serves(w, c) /\ worker'[w].of \in {c, NONE}
                               /\ \A d \in Clients : d # c => slot'[d] = slot[d]
<1> USE DEF PgasTypes, SlotWorkerLabels, SlotTypes, HoldTypes, Serves
<1>0. NONE \notin Clients /\ FreeSlot \in HoldTypes /\ FreeSlot.of = NONE /\ FreeSlot.at = "poll"
  BY PgasAssumption, Zenon DEF FreeSlot
<1>1. ASSUME NEW c \in Clients, Claim(w, c) PROVE Serves(w, c) /\ PgasTypes' /\ worker'[w].of = c
                    /\ \A v \in Workers : v # w => worker'[v] = worker[v]
                    /\ \A d \in Clients : d # c => slot'[d] = slot[d]
  <2> DEFINE h == [FreeSlot EXCEPT !.at = "fetch", !.of = c, !.op = slot[c].req]
  <2>1. h \in HoldTypes /\ h.of = c /\ h.at = "fetch"
    BY <1>1, Zenon DEF FreeSlot
  <2>2. worker' = [worker EXCEPT ![w] = h]
    BY <1>1, Zenon DEF Claim
  <2> HIDE DEF h
  <2>3. /\ worker' \in [Workers -> HoldTypes] /\ worker'[w] = h
        /\ \A v \in Workers : v # w => worker'[v] = worker[v]
    BY <2>1, <2>2, Zenon
  <2>4. slot' \in [Clients -> SlotTypes] /\ \A d \in Clients : d # c => slot'[d] = slot[d]
    BY <1>1 DEF Claim
  <2> QED BY <1>0, <1>1, <2>1, <2>3, <2>4 DEF Claim
<1>2. ASSUME NEW st \in {"OK", "ERROR"}, Answer(w, st), worker[w].at # "poll"
      PROVE  /\ Serves(w, worker[w].of) /\ PgasTypes' /\ worker'[w].of = NONE
             /\ \A v \in Workers : v # w => worker'[v] = worker[v]
             /\ \A d \in Clients : d # worker[w].of => slot'[d] = slot[d]
  <2> DEFINE c == worker[w].of
             e == [slot[c] EXCEPT !.resp = st]
  <2>1. c \in Clients
    BY <1>2, Zenon
  <2>2. slot[c] \in SlotTypes
    BY <2>1, Zenon
  <2>3. e \in SlotTypes
    BY <2>2, Zenon
  <2>4. slot' = [slot EXCEPT ![c] = e] /\ worker' = [worker EXCEPT ![w] = FreeSlot]
    BY <1>2, Zenon DEF Answer
  <2> HIDE DEF e
  <2>5. slot' \in [Clients -> SlotTypes] /\ \A d \in Clients : d # c => slot'[d] = slot[d]
    BY <2>1, <2>3, <2>4, Zenon
  <2>6. /\ worker' \in [Workers -> HoldTypes] /\ worker'[w] = FreeSlot
        /\ \A v \in Workers : v # w => worker'[v] = worker[v]
    BY <1>0, <2>4, Zenon
  <2> QED BY <1>0, <1>2, <2>1, <2>5, <2>6 DEF Answer
<1>3. CASE \E c \in Clients : Claim(w, c)
  BY <1>1, <1>3 DEF Claim
<1>4. CASE Fetch(w)
  <2>1. worker[w].of \in Clients /\ worker[w].at = "fetch"
    BY <1>4, Zenon DEF Fetch
  <2>2. slot[worker[w].of].addr \in Lines \cup {BadLine}
    BY <2>1, Zenon DEF AddressSet, Unheld
  <2>3. CASE Answer(w, "ERROR")
    BY <1>2, <2>1, <2>3, Zenon DEF Answer
  <2>4. CASE ~Answer(w, "ERROR")
    <3> DEFINE a == slot[worker[w].of].addr
               h == IF worker[w].op \in MetaOps THEN FreeSlot ELSE [worker[w] EXCEPT !.addr = a, !.at = "serve"]
    <3>1. worker' = [worker EXCEPT ![w] = h] /\ a \in Lines
          /\ UNCHANGED <<slot, table, client, calls, timeouts, window, gaveUp, writers, tickets, repeated>>
      BY <1>4, <2>2, <2>4, Zenon DEF Fetch
    <3>2. h \in HoldTypes /\ h.of \in {worker[w].of, NONE} /\ (h.at = "poll" <=> h.of = NONE)
          /\ (h.at \in {"serve", "answer"} => h.addr \in Lines)
      BY <1>0, <2>1, <3>1
    <3> HIDE DEF h
    <3>3. /\ worker' \in [Workers -> HoldTypes] /\ worker'[w] = h
          /\ \A v \in Workers : v # w => worker'[v] = worker[v]
      BY <3>1, <3>2, Zenon
    <3> QED BY <2>1, <3>1, <3>2, <3>3
  <2> QED BY <2>3, <2>4, Zenon
<1>5. CASE Refuse(w)
  BY <1>2, <1>5, Zenon DEF Answer, Refuse
<1>6. CASE Serve(w)
  <2>1. worker[w].of \in Clients /\ worker[w].at = "serve" /\ worker[w].addr \in Lines
    BY <1>6, Zenon DEF Serve
  <2> DEFINE c == worker[w].of
             l == worker[w].addr
             old == table[l]
             new == Effect(worker[w].op, slot[c], old)
             back == CASE worker[w].op \in {"READ", "FAA", "CAS"} -> old
                       [] worker[w].op \in CapacityOps -> 0
                       [] OTHER -> slot[c].value
  <2>2. /\ table' = [table EXCEPT ![l] = new]
        /\ slot' = [slot EXCEPT ![c].value = back]
        /\ window' = [d \in Clients |->
              IF client[d].addr = l /\ client[d].at = "wait" THEN window[d] \cup {new} ELSE window[d]]
        /\ worker' = [worker EXCEPT ![w].at = "answer"]
        /\ UNCHANGED <<client, calls, timeouts, gaveUp, writers, tickets, repeated>>
    BY <1>6, Zenon DEF Serve
  <2>3. old \in Nat /\ slot[c].value \in Nat
    BY <2>1, Zenon
  <2>4. new \in Nat /\ back \in Nat
    BY <2>3 DEF Effect, CapacityOps
  <2> HIDE DEF new, back
  <2>5. /\ table' \in [Lines -> Nat] /\ window' \in [Clients -> SUBSET Nat]
    BY <2>1, <2>2, <2>4, Zenon
  <2>6. slot' \in [Clients -> SlotTypes] /\ \A d \in Clients : d # c => slot'[d] = slot[d]
    <3> DEFINE e == [slot[c] EXCEPT !.value = back]
    <3>1. slot[c] \in SlotTypes
      BY <2>1, Zenon
    <3>2. e \in SlotTypes
      BY <2>4, <3>1, Zenon
    <3>3. slot' = [slot EXCEPT ![c] = e]
      BY <2>2, Zenon
    <3> HIDE DEF e
    <3> QED BY <2>1, <3>2, <3>3, Zenon
  <2>7. /\ worker' \in [Workers -> HoldTypes] /\ worker'[w].of = c /\ worker'[w].at = "answer"
        /\ worker'[w].addr = l /\ \A v \in Workers : v # w => worker'[v] = worker[v]
    BY <2>1, <2>2
  <2> QED BY <1>0, <2>1, <2>2, <2>5, <2>6, <2>7
<1>7. CASE Finish(w)
  BY <1>2, <1>7, Zenon DEF Answer, Finish
<1> QED BY <1>3, <1>4, <1>5, <1>6, <1>7, Zenon DEF WorkerStep

\* A client's steps, field by field.
LEMMA ClientFacts ==
  ASSUME PgasTypes, NEW c \in Clients
  PROVE  /\ Fill(c) =>
              /\ client[c].at = "idle" /\ slot[c].req = NONE /\ client'[c].at = "filled"
              /\ <<client'[c].op, client'[c].addr>> \in Requests /\ slot'[c].addr = client'[c].addr
              /\ slot'[c].value = 1 /\ slot'[c].req = slot[c].req /\ slot'[c].resp = slot[c].resp
              /\ writers' = IF client'[c].op \in {"WRITE", "CAS"} THEN writers \cup {c} ELSE writers
              /\ UNCHANGED <<window, gaveUp, tickets, repeated>>
         /\ Post(c) =>
              /\ client[c].at = "filled" /\ client'[c].at = "wait"
              /\ client'[c].op = client[c].op /\ client'[c].addr = client[c].addr
              /\ slot'[c].req = client[c].op /\ slot'[c].resp = slot[c].resp
              /\ slot'[c].addr = slot[c].addr /\ slot'[c].value = slot[c].value
              /\ window'[c] = IF client[c].addr \in Lines THEN {table[client[c].addr]} ELSE {}
              /\ UNCHANGED <<gaveUp, writers, tickets, repeated>>
         /\ Take(c) =>
              /\ client[c].at = "wait" /\ slot[c].resp # NONE /\ client'[c].at = "taken"
              /\ client'[c].op = client[c].op /\ client'[c].addr = client[c].addr
              /\ client'[c].got = slot[c].value /\ client'[c].ok = (slot[c].resp = "OK")
              /\ UNCHANGED <<slot, window, gaveUp, writers>>
         /\ ResetResp(c) =>
              /\ client[c].at = "taken" /\ client'[c].at = "reset"
              /\ client'[c].op = client[c].op /\ client'[c].addr = client[c].addr
              /\ slot'[c].req = slot[c].req /\ slot'[c].resp = NONE
              /\ slot'[c].addr = slot[c].addr /\ slot'[c].value = slot[c].value
              /\ UNCHANGED <<window, gaveUp, writers, tickets, repeated>>
         /\ ResetReq(c) =>
              /\ client[c].at = "reset" /\ client'[c] = Idle
              /\ slot'[c].req = NONE /\ slot'[c].resp = slot[c].resp
              /\ slot'[c].addr = slot[c].addr /\ slot'[c].value = slot[c].value
              /\ UNCHANGED <<gaveUp, writers, tickets, repeated>>
         /\ GiveUp(c) =>
              /\ client[c].at = "wait" /\ gaveUp'[c] = TRUE
              /\ \/ /\ client'[c].at = "taken" /\ client'[c].op = client[c].op
                    /\ client'[c].addr = client[c].addr
                 \/ client'[c] = Idle
              /\ UNCHANGED <<slot, writers, tickets, repeated>>
<1>0. /\ slot \in [Clients -> SlotTypes] /\ client \in [Clients -> CallTypes]
      /\ slot[c] \in SlotTypes /\ client[c] \in CallTypes /\ window \in [Clients -> SUBSET Nat]
      /\ gaveUp \in [Clients -> BOOLEAN]
  BY Zenon DEF PgasTypes
<1>1. ASSUME Fill(c)
      PROVE  /\ client[c].at = "idle" /\ slot[c].req = NONE /\ client'[c].at = "filled"
             /\ <<client'[c].op, client'[c].addr>> \in Requests /\ slot'[c].addr = client'[c].addr
             /\ slot'[c].value = 1 /\ slot'[c].req = slot[c].req /\ slot'[c].resp = slot[c].resp
             /\ writers' = IF client'[c].op \in {"WRITE", "CAS"} THEN writers \cup {c} ELSE writers
             /\ UNCHANGED <<window, gaveUp, tickets, repeated>>
  <2>1. PICK r \in Requests :
            /\ client' = [client EXCEPT ![c] = [Idle EXCEPT !.at = "filled", !.op = r[1], !.addr = r[2]]]
            /\ slot' = [slot EXCEPT ![c] = [slot[c] EXCEPT !.addr = r[2], !.value = 1, !.expected = 0]]
            /\ writers' = IF r[1] \in {"WRITE", "CAS"} THEN writers \cup {c} ELSE writers
    BY <1>0, <1>1 DEF Fill
  <2>2. r = <<r[1], r[2]>>
    BY PgasAssumption
  <2>3. client'[c].at = "filled" /\ client'[c].op = r[1] /\ client'[c].addr = r[2]
    BY <1>0, <2>1, Zenon DEF Idle
  <2>4. /\ slot'[c].addr = r[2] /\ slot'[c].value = 1
        /\ slot'[c].req = slot[c].req /\ slot'[c].resp = slot[c].resp
    BY <1>0, <2>1, Zenon DEF SlotTypes
  <2> QED BY <1>1, <2>1, <2>2, <2>3, <2>4 DEF Fill
<1>2. Post(c) =>
              /\ client[c].at = "filled" /\ client'[c].at = "wait"
              /\ client'[c].op = client[c].op /\ client'[c].addr = client[c].addr
              /\ slot'[c].req = client[c].op /\ slot'[c].resp = slot[c].resp
              /\ slot'[c].addr = slot[c].addr /\ slot'[c].value = slot[c].value
              /\ window'[c] = IF client[c].addr \in Lines THEN {table[client[c].addr]} ELSE {}
              /\ UNCHANGED <<gaveUp, writers, tickets, repeated>>
  BY <1>0 DEF Post, SlotTypes, CallTypes
<1>3. Take(c) =>
              /\ client[c].at = "wait" /\ slot[c].resp # NONE /\ client'[c].at = "taken"
              /\ client'[c].op = client[c].op /\ client'[c].addr = client[c].addr
              /\ client'[c].got = slot[c].value /\ client'[c].ok = (slot[c].resp = "OK")
              /\ UNCHANGED <<slot, window, gaveUp, writers>>
  BY <1>0 DEF Take, SlotTypes, CallTypes
<1>4. ResetResp(c) =>
              /\ client[c].at = "taken" /\ client'[c].at = "reset"
              /\ client'[c].op = client[c].op /\ client'[c].addr = client[c].addr
              /\ slot'[c].req = slot[c].req /\ slot'[c].resp = NONE
              /\ slot'[c].addr = slot[c].addr /\ slot'[c].value = slot[c].value
              /\ UNCHANGED <<window, gaveUp, writers, tickets, repeated>>
  BY <1>0 DEF ResetResp, SlotTypes, CallTypes
<1>5. ResetReq(c) =>
              /\ client[c].at = "reset" /\ client'[c] = Idle
              /\ slot'[c].req = NONE /\ slot'[c].resp = slot[c].resp
              /\ slot'[c].addr = slot[c].addr /\ slot'[c].value = slot[c].value
              /\ UNCHANGED <<gaveUp, writers, tickets, repeated>>
  BY <1>0 DEF ResetReq, SlotTypes
<1>6. ASSUME GiveUp(c)
      PROVE  /\ client[c].at = "wait" /\ gaveUp'[c] = TRUE
             /\ \/ /\ client'[c].at = "taken" /\ client'[c].op = client[c].op
                   /\ client'[c].addr = client[c].addr
                \/ client'[c] = Idle
             /\ UNCHANGED <<slot, writers, tickets, repeated>>
  <2>1. client' = [client EXCEPT ![c] = IF client[c].op = "FENCE"
                                        THEN [client[c] EXCEPT !.at = "taken"] ELSE Idle]
    BY <1>6, Zenon DEF GiveUp
  <2>2. CASE client[c].op = "FENCE"
    <3>1. client'[c] = [client[c] EXCEPT !.at = "taken"]
      BY <1>0, <2>1, <2>2, Zenon
    <3> QED BY <1>0, <1>6, <3>1, Zenon DEF CallTypes, GiveUp
  <2>3. CASE client[c].op # "FENCE"
    <3>1. client'[c] = Idle
      BY <1>0, <2>1, <2>3, Zenon
    <3> QED BY <1>0, <1>6, <3>1, Zenon DEF GiveUp
  <2> QED BY <2>2, <2>3, Zenon
<1> QED BY <1>1, <1>2, <1>3, <1>4, <1>5, <1>6, Zenon

\* A worker's steps, field by field.
LEMMA WorkerFacts ==
  ASSUME PgasTypes, AddressSet, NEW w \in Workers
  PROVE  /\ \A c \in Clients : Claim(w, c) =>
              /\ slot[c].req # NONE /\ worker[w].at = "poll" /\ worker[w].of = NONE
              /\ worker'[w].at = "fetch" /\ worker'[w].of = c /\ worker'[w].op = slot[c].req
              /\ slot'[c].req = NONE /\ slot'[c].resp = slot[c].resp
              /\ slot'[c].addr = slot[c].addr /\ slot'[c].value = slot[c].value
              /\ window' = window /\ table' = table
         /\ (Refuse(w) \/ Finish(w) \/ (Fetch(w) /\ slot' # slot)) =>
              /\ worker[w].of \in Clients /\ worker'[w].of = NONE
              /\ slot'[worker[w].of].req = slot[worker[w].of].req
              /\ slot'[worker[w].of].resp = IF Finish(w) THEN "OK" ELSE "ERROR"
              /\ slot'[worker[w].of].addr = slot[worker[w].of].addr
              /\ slot'[worker[w].of].value = slot[worker[w].of].value
              /\ window' = window /\ table' = table
         /\ Finish(w) => worker[w].at = "answer"
         /\ (Fetch(w) /\ slot' = slot) =>
              /\ worker[w].of \in Clients /\ worker[w].at = "fetch"
              /\ \/ worker'[w].of = NONE
                 \/ /\ worker'[w].of = worker[w].of /\ worker'[w].at = "serve"
                    /\ worker'[w].op = worker[w].op /\ worker'[w].addr = slot[worker[w].of].addr
              /\ window' = window /\ table' = table
         /\ Serve(w) =>
              /\ worker[w].of \in Clients /\ worker[w].at = "serve" /\ worker[w].addr \in Lines
              /\ worker'[w].of = worker[w].of /\ worker'[w].at = "answer"
              /\ worker'[w].op = worker[w].op /\ worker'[w].addr = worker[w].addr
              /\ slot'[worker[w].of].req = slot[worker[w].of].req
              /\ slot'[worker[w].of].resp = slot[worker[w].of].resp
              /\ slot'[worker[w].of].addr = slot[worker[w].of].addr
              /\ worker[w].op \in {"READ", "FAA", "CAS"} =>
                   slot'[worker[w].of].value = table[worker[w].addr]
              /\ table'[worker[w].addr] =
                   Effect(worker[w].op, slot[worker[w].of], table[worker[w].addr])
              /\ \A l \in Lines : l # worker[w].addr => table'[l] = table[l]
              /\ \A d \in Clients : window'[d] =
                   IF client[d].addr = worker[w].addr /\ client[d].at = "wait"
                   THEN window[d] \cup {table'[worker[w].addr]} ELSE window[d]
<1>0. /\ slot \in [Clients -> SlotTypes] /\ worker \in [Workers -> HoldTypes]
      /\ table \in [Lines -> Nat] /\ worker[w] \in HoldTypes /\ NONE \notin Clients
      /\ \A c \in Clients : slot[c] \in SlotTypes
      /\ worker[w].at = "poll" <=> worker[w].of = NONE
      /\ worker[w].at # "poll" => worker[w].of \in Clients
      /\ worker[w].at \in {"serve", "answer"} => worker[w].addr \in Lines
  BY PgasAssumption, Zenon DEF PgasTypes, HoldTypes
<1>1. FreeSlot.of = NONE
  BY Zenon DEF FreeSlot
<1>2. ASSUME NEW c \in Clients, Claim(w, c)
      PROVE  /\ slot[c].req # NONE /\ worker[w].at = "poll" /\ worker[w].of = NONE
             /\ worker'[w].at = "fetch" /\ worker'[w].of = c /\ worker'[w].op = slot[c].req
             /\ slot'[c].req = NONE /\ slot'[c].resp = slot[c].resp
             /\ slot'[c].addr = slot[c].addr /\ slot'[c].value = slot[c].value
             /\ window' = window /\ table' = table
  <2>1. slot'[c] = [slot[c] EXCEPT !.req = NONE]
    BY <1>0, <1>2, Zenon DEF Claim
  <2>2. worker'[w] = [FreeSlot EXCEPT !.at = "fetch", !.of = c, !.op = slot[c].req]
    BY <1>0, <1>2, Zenon DEF Claim
  <2>3. slot[c] \in SlotTypes
    BY <1>0, Zenon
  <2> QED BY <1>0, <1>2, <2>1, <2>2, <2>3, Zenon DEF Claim, FreeSlot, SlotTypes
<1>3. ASSUME NEW st, Answer(w, st), worker[w].at # "poll"
      PROVE  /\ worker[w].of \in Clients /\ worker'[w].of = NONE
             /\ slot'[worker[w].of].req = slot[worker[w].of].req
             /\ slot'[worker[w].of].resp = st
             /\ slot'[worker[w].of].addr = slot[worker[w].of].addr
             /\ slot'[worker[w].of].value = slot[worker[w].of].value
             /\ window' = window /\ table' = table
  <2>1. worker[w].of \in Clients /\ worker'[w] = FreeSlot
    BY <1>0, <1>3, Zenon DEF Answer
  <2>2. slot'[worker[w].of] = [slot[worker[w].of] EXCEPT !.resp = st]
    BY <1>0, <1>3, <2>1, Zenon DEF Answer
  <2>3. slot[worker[w].of] \in SlotTypes
    BY <1>0, <2>1, Zenon
  <2> QED BY <1>1, <1>3, <2>1, <2>2, <2>3 DEF Answer, SlotTypes
<1>4. ASSUME Refuse(w) \/ Finish(w) \/ (Fetch(w) /\ slot' # slot)
      PROVE  /\ worker[w].at # "poll" /\ Answer(w, IF Finish(w) THEN "OK" ELSE "ERROR")
             /\ Finish(w) => worker[w].at = "answer"
  BY <1>4, Zenon DEF Refuse, Finish, Fetch
<1>5. ASSUME Fetch(w), slot' = slot
      PROVE  /\ worker[w].of \in Clients /\ worker[w].at = "fetch"
             /\ \/ worker'[w].of = NONE
                \/ /\ worker'[w].of = worker[w].of /\ worker'[w].at = "serve"
                   /\ worker'[w].op = worker[w].op /\ worker'[w].addr = slot[worker[w].of].addr
             /\ window' = window /\ table' = table
  <2>1. worker[w].of \in Clients /\ worker[w].at = "fetch"
    BY <1>0, <1>5, Zenon DEF Fetch
  <2>2. CASE Answer(w, "ERROR")
    BY <1>3, <2>1, <2>2, Zenon
  <2>3. CASE ~Answer(w, "ERROR")
    <3>1. /\ worker' = [worker EXCEPT ![w] = IF worker[w].op \in MetaOps THEN FreeSlot
                              ELSE [worker[w] EXCEPT !.addr = slot[worker[w].of].addr, !.at = "serve"]]
          /\ window' = window /\ table' = table
      BY <1>5, <2>3, Zenon DEF Fetch
    <3>2. CASE worker[w].op \in MetaOps
      BY <1>0, <1>1, <2>1, <3>1, <3>2, Zenon
    <3>3. CASE worker[w].op \notin MetaOps
      <4>1. worker'[w] = [worker[w] EXCEPT !.addr = slot[worker[w].of].addr, !.at = "serve"]
        BY <1>0, <3>1, <3>3, Zenon
      <4> QED BY <1>0, <2>1, <3>1, <4>1, Zenon DEF HoldTypes
    <3> QED BY <3>2, <3>3, Zenon
  <2> QED BY <2>2, <2>3, Zenon
<1>6. ASSUME Serve(w)
      PROVE   /\ worker[w].of \in Clients /\ worker[w].at = "serve" /\ worker[w].addr \in Lines
              /\ worker'[w].of = worker[w].of /\ worker'[w].at = "answer"
              /\ worker'[w].op = worker[w].op /\ worker'[w].addr = worker[w].addr
              /\ slot'[worker[w].of].req = slot[worker[w].of].req
              /\ slot'[worker[w].of].resp = slot[worker[w].of].resp
              /\ slot'[worker[w].of].addr = slot[worker[w].of].addr
              /\ worker[w].op \in {"READ", "FAA", "CAS"} =>
                   slot'[worker[w].of].value = table[worker[w].addr]
              /\ table'[worker[w].addr] =
                   Effect(worker[w].op, slot[worker[w].of], table[worker[w].addr])
              /\ \A l \in Lines : l # worker[w].addr => table'[l] = table[l]
              /\ \A d \in Clients : window'[d] =
                   IF client[d].addr = worker[w].addr /\ client[d].at = "wait"
                   THEN window[d] \cup {table'[worker[w].addr]} ELSE window[d]
  <2>1. worker[w].of \in Clients /\ worker[w].at = "serve" /\ worker[w].addr \in Lines
    BY <1>0, <1>6, Zenon DEF Serve
  <2> DEFINE c == worker[w].of
             l == worker[w].addr
             old == table[l]
             new == Effect(worker[w].op, slot[c], old)
             back == CASE worker[w].op \in {"READ", "FAA", "CAS"} -> old
                       [] worker[w].op \in CapacityOps -> 0
                       [] OTHER -> slot[c].value
  <2>2. /\ table' = [table EXCEPT ![l] = new]
        /\ slot' = [slot EXCEPT ![c] = [slot[c] EXCEPT !.value = back]]
        /\ window' = [d \in Clients |->
              IF client[d].addr = l /\ client[d].at = "wait" THEN window[d] \cup {new} ELSE window[d]]
        /\ worker' = [worker EXCEPT ![w] = [worker[w] EXCEPT !.at = "answer"]]
    BY <1>6, Zenon DEF Serve
  <2>3. worker[w].op \in {"READ", "FAA", "CAS"} => back = old
    BY Zenon DEF CapacityOps
  <2> HIDE DEF new, back
  <2>4. table'[l] = new /\ \A m \in Lines : m # l => table'[m] = table[m]
    BY <1>0, <2>1, <2>2, Zenon
  <2>5. slot'[c] = [slot[c] EXCEPT !.value = back] /\ slot[c] \in SlotTypes
    BY <1>0, <2>1, <2>2, Zenon
  <2>6. worker'[w] = [worker[w] EXCEPT !.at = "answer"]
    BY <1>0, <2>2, Zenon
  <2>7. /\ slot'[c].req = slot[c].req /\ slot'[c].resp = slot[c].resp
        /\ slot'[c].addr = slot[c].addr /\ slot'[c].value = back
    BY <2>5, Zenon DEF SlotTypes
  <2>8. /\ worker'[w].of = worker[w].of /\ worker'[w].at = "answer"
        /\ worker'[w].op = worker[w].op /\ worker'[w].addr = worker[w].addr
    BY <1>0, <2>6, Zenon DEF HoldTypes
  <2>9. \A d \in Clients : window'[d] =
          IF client[d].addr = l /\ client[d].at = "wait" THEN window[d] \cup {table'[l]} ELSE window[d]
    BY <2>2, <2>4, Zenon
  <2> QED BY <2>1, <2>3, <2>4, <2>7, <2>8, <2>9, Zenon DEF new
<1>7. ASSUME Refuse(w) \/ Finish(w) \/ (Fetch(w) /\ slot' # slot)
      PROVE  /\ worker[w].of \in Clients /\ worker'[w].of = NONE
             /\ slot'[worker[w].of].req = slot[worker[w].of].req
             /\ slot'[worker[w].of].resp = IF Finish(w) THEN "OK" ELSE "ERROR"
             /\ slot'[worker[w].of].addr = slot[worker[w].of].addr
             /\ slot'[worker[w].of].value = slot[worker[w].of].value
             /\ window' = window /\ table' = table
  BY <1>3, <1>4, <1>7, Zenon
<1>8. Finish(w) => worker[w].at = "answer"
  BY Zenon DEF Finish
<1> QED BY <1>2, <1>5, <1>6, <1>7, <1>8, Zenon

\* A client that is not in a call asks for nothing.
LEMMA IdleIs == Idle.at = "idle" /\ Idle.op = NONE
  BY Zenon DEF Idle

\* Which actions a worker's step is, with the client it is about.
LEMMA WorkerCases ==
  ASSUME PgasTypes, AddressSet, NEW w \in Workers, WorkerStep(w)
  PROVE  \/ \E c \in Clients : Claim(w, c)
         \/ Refuse(w) \/ Finish(w) \/ (Fetch(w) /\ slot' # slot)
         \/ Fetch(w) /\ slot' = slot
         \/ Serve(w)
  BY Zenon DEF WorkerStep

\* The slots a worker's step leaves alone.
LEMMA WorkerFrame ==
  ASSUME PgasTypes, AddressSet, NEW w \in Workers, WorkerStep(w)
  PROVE  /\ PgasTypes' /\ client' = client /\ gaveUp' = gaveUp /\ writers' = writers
         /\ tickets' = tickets /\ repeated' = repeated
         /\ \A v \in Workers : v # w => worker'[v] = worker[v]
         /\ \A c \in Clients : Claim(w, c) => \A d \in Clients : d # c => slot'[d] = slot[d]
         /\ worker[w].of \in Clients => \A d \in Clients : d # worker[w].of => slot'[d] = slot[d]
<1>1. PICK c \in Clients : /\ Serves(w, c) /\ worker'[w].of \in {c, NONE}
                           /\ \A d \in Clients : d # c => slot'[d] = slot[d]
  BY WorkerTypes, Zenon
<1>2. worker[w].of \in Clients => worker[w].of = c
  <2> HAVE worker[w].of \in Clients
  <2>1. ~Claim(w, c)
    BY PgasAssumption, Zenon DEF Claim, PgasTypes
  <2> QED BY <1>1, <2>1, Zenon DEF Serves
<1>3. \A b \in Clients : Claim(w, b) => \A d \in Clients : d # b => slot'[d] = slot[d]
  BY Zenon DEF Claim, PgasTypes
<1> QED BY <1>1, <1>2, <1>3, WorkerTypes, Zenon

\* The address of a slot is set before its request is there.
LEMMA AddressClient ==
  ASSUME PgasTypes, AddressSet, NEW c \in Clients, ClientStep(c) PROVE AddressSet'
<1>1. worker' = worker /\ \A d \in Clients : d # c => slot'[d] = slot[d] /\ client'[d] = client[d]
  BY ClientTypes, Zenon
<1>2. \A d \in Clients : Unheld(d)' <=> Unheld(d)
  BY <1>1, Zenon DEF Unheld
<1>3. \A d \in Clients : d # c =>
        \/ slot'[d].addr \in Lines \cup {BadLine}
        \/ slot'[d].req = NONE /\ client'[d].at # "filled" /\ Unheld(d)'
  BY <1>1, <1>2, Zenon DEF AddressSet
<1>4. \/ slot'[c].addr \in Lines \cup {BadLine}
      \/ slot'[c].req = NONE /\ client'[c].at # "filled" /\ Unheld(c)'
  <2>1. CASE Fill(c)
    <3>1. <<client'[c].op, client'[c].addr>> \in Requests /\ slot'[c].addr = client'[c].addr
      BY <2>1, ClientFacts, Zenon
    <3> QED BY <3>1, PgasAssumption, Zenon
  <2>2. CASE Post(c)
    <3>1. client[c].at = "filled" /\ slot'[c].addr = slot[c].addr
      BY <2>2, ClientFacts, Zenon
    <3> QED BY <3>1, Zenon DEF AddressSet
  <2>3. CASE Take(c)
    <3>1. slot' = slot /\ client'[c].at = "taken"
      BY <2>3, ClientFacts, Zenon
    <3> QED BY <1>2, <3>1, Zenon DEF AddressSet
  <2>4. CASE ResetResp(c)
    <3>1. slot'[c].req = slot[c].req /\ slot'[c].addr = slot[c].addr /\ client'[c].at = "reset"
      BY <2>4, ClientFacts, Zenon
    <3> QED BY <1>2, <3>1, Zenon DEF AddressSet
  <2>5. CASE ResetReq(c)
    <3>1. slot'[c].req = NONE /\ slot'[c].addr = slot[c].addr /\ client'[c].at = "idle"
      BY <2>5, ClientFacts, IdleIs, Zenon
    <3> QED BY <1>2, <3>1, Zenon DEF AddressSet
  <2>6. CASE GiveUp(c)
    <3>1. slot' = slot /\ client'[c].at \in {"taken", "idle"}
      BY <2>6, ClientFacts, IdleIs, Zenon
    <3> QED BY <1>2, <3>1, Zenon DEF AddressSet
  <2> QED BY <2>1, <2>2, <2>3, <2>4, <2>5, <2>6, Zenon DEF ClientStep
<1> QED BY <1>3, <1>4, Zenon DEF AddressSet

\* A worker takes a request only from a slot that has one, and leaves the address.
LEMMA AddressWorker ==
  ASSUME PgasTypes, AddressSet, NEW w \in Workers, WorkerStep(w) PROVE AddressSet'
<1>1. /\ client' = client /\ \A v \in Workers : v # w => worker'[v] = worker[v]
      /\ \A c \in Clients : Claim(w, c) => \A d \in Clients : d # c => slot'[d] = slot[d]
      /\ worker[w].of \in Clients => \A d \in Clients : d # worker[w].of => slot'[d] = slot[d]
  BY WorkerFrame, Zenon
<1>2. CASE \E c \in Clients : Claim(w, c)
  <2>1. PICK c \in Clients : Claim(w, c)
    BY <1>2, Zenon
  <2>2. /\ slot[c].req # NONE /\ slot'[c].addr = slot[c].addr /\ worker'[w].of = c
    BY <2>1, WorkerFacts, Zenon
  <2>3. slot'[c].addr \in Lines \cup {BadLine}
    BY <2>2, Zenon DEF AddressSet
  <2>4. \A d \in Clients : d # c => slot'[d] = slot[d] /\ (Unheld(d) => Unheld(d)')
    BY <1>1, <2>1, <2>2, Zenon DEF Unheld
  <2> QED BY <1>1, <2>3, <2>4, Zenon DEF AddressSet
<1>3. ASSUME worker[w].of \in Clients, worker'[w].of \in {worker[w].of, NONE},
             slot'[worker[w].of].req = slot[worker[w].of].req,
             slot'[worker[w].of].addr = slot[worker[w].of].addr
      PROVE  AddressSet'
  <2>1. \A d \in Clients : slot'[d].addr = slot[d].addr /\ slot'[d].req = slot[d].req
    BY <1>1, <1>3, Zenon
  <2>2. \A d \in Clients : Unheld(d) => Unheld(d)'
    BY <1>1, <1>3, PgasAssumption, Zenon DEF Unheld
  <2> QED BY <1>1, <2>1, <2>2, Zenon DEF AddressSet
<1>4. CASE Refuse(w) \/ Finish(w) \/ (Fetch(w) /\ slot' # slot)
  BY <1>3, <1>4, WorkerFacts, Zenon
<1>5. CASE Fetch(w) /\ slot' = slot
  BY <1>3, <1>5, WorkerFacts, Zenon
<1>6. CASE Serve(w)
  BY <1>3, <1>6, WorkerFacts, Zenon
<1> QED BY <1>2, <1>4, <1>5, <1>6, WorkerCases, Zenon

\* Clients ask only for Requests, and writers are known.
LEMMA AskedClient ==
  ASSUME PgasTypes, CallsAsked, NEW c \in Clients, ClientStep(c) PROVE CallsAsked'
<1>1. worker' = worker /\ \A d \in Clients : d # c => slot'[d] = slot[d] /\ client'[d] = client[d]
  BY ClientTypes, Zenon
<1>2. writers \subseteq writers' /\ \A d \in Clients : d # c => (d \in writers' => d \in writers)
  BY ClientFacts, Zenon DEF ClientStep, Take
<1>3. /\ client'[c].at # "idle" => <<client'[c].op, client'[c].addr>> \in Requests
      /\ c \notin writers' => /\ client'[c].op \notin {"WRITE", "CAS"}
                              /\ slot'[c].req \notin {"WRITE", "CAS"}
  <2>1. CASE Fill(c)
    BY <2>1, ClientFacts, Zenon DEF CallsAsked, NONE
  <2>2. CASE Post(c)
    BY <2>2, ClientFacts, Zenon DEF CallsAsked
  <2>3. CASE Take(c)
    BY <2>3, ClientFacts, Zenon DEF CallsAsked
  <2>4. CASE ResetResp(c)
    BY <2>4, ClientFacts, Zenon DEF CallsAsked
  <2>5. CASE ResetReq(c)
    BY <2>5, ClientFacts, IdleIs, Zenon DEF CallsAsked, NONE
  <2>6. CASE GiveUp(c)
    BY <2>6, ClientFacts, IdleIs, Zenon DEF CallsAsked, NONE
  <2> QED BY <2>1, <2>2, <2>3, <2>4, <2>5, <2>6, Zenon DEF ClientStep
<1>4. \A d \in Clients : d # c =>
        /\ client'[d].at # "idle" => <<client'[d].op, client'[d].addr>> \in Requests
        /\ d \notin writers' => /\ client'[d].op \notin {"WRITE", "CAS"}
                                /\ slot'[d].req \notin {"WRITE", "CAS"}
  BY <1>1, <1>2, Zenon DEF CallsAsked
<1>5. \A d \in Clients : d \notin writers' =>
        \A w \in Workers : worker'[w].of = d => worker'[w].op \notin {"WRITE", "CAS"}
  BY <1>1, <1>2, Zenon DEF CallsAsked
<1> QED BY <1>3, <1>4, <1>5, Zenon DEF CallsAsked

\* What a worker takes is what its client asked; no step of a worker makes a write.
LEMMA AskedWorker ==
  ASSUME PgasTypes, AddressSet, CallsAsked, NEW w \in Workers, WorkerStep(w) PROVE CallsAsked'
<1>1. /\ client' = client /\ writers' = writers /\ \A v \in Workers : v # w => worker'[v] = worker[v]
      /\ \A c \in Clients : Claim(w, c) => \A d \in Clients : d # c => slot'[d] = slot[d]
      /\ worker[w].of \in Clients => \A d \in Clients : d # worker[w].of => slot'[d] = slot[d]
  BY WorkerFrame, Zenon
<1>2. /\ \A d \in Clients : d \notin writers => slot'[d].req \notin {"WRITE", "CAS"}
      /\ \A d \in Clients : d \notin writers =>
                (worker'[w].of = d => worker'[w].op \notin {"WRITE", "CAS"})
  <2>1. CASE \E c \in Clients : Claim(w, c)
    <3>1. PICK c \in Clients : Claim(w, c)
      BY <2>1, Zenon
    <3>2. worker'[w].of = c /\ worker'[w].op = slot[c].req /\ slot'[c].req = NONE
      BY <3>1, WorkerFacts, Zenon
    <3> QED BY <1>1, <3>1, <3>2, Zenon DEF CallsAsked, NONE
  <2>2. ASSUME worker[w].of \in Clients, slot'[worker[w].of].req = slot[worker[w].of].req,
               \/ worker'[w].of = NONE
               \/ worker'[w].of = worker[w].of /\ worker'[w].op = worker[w].op
        PROVE  /\ \A d \in Clients : d \notin writers => slot'[d].req \notin {"WRITE", "CAS"}
               /\ \A d \in Clients : d \notin writers =>
                    (worker'[w].of = d => worker'[w].op \notin {"WRITE", "CAS"})
    BY <1>1, <2>2, PgasAssumption DEF CallsAsked
  <2>3. CASE Refuse(w) \/ Finish(w) \/ (Fetch(w) /\ slot' # slot)
    BY <2>2, <2>3, WorkerFacts, Zenon
  <2>4. CASE Fetch(w) /\ slot' = slot
    BY <2>2, <2>4, WorkerFacts, Zenon
  <2>5. CASE Serve(w)
    BY <2>2, <2>5, WorkerFacts, Zenon
  <2> QED BY <2>1, <2>3, <2>4, <2>5, WorkerCases, Zenon
<1> QED BY <1>1, <1>2, Zenon DEF CallsAsked

\* The phase of a client's call depends on its slot, its call and the workers
\* that hold it only.
LEMMA PhaseElsewhere ==
  ASSUME NEW d \in Clients, slot'[d] = slot[d], client'[d] = client[d], gaveUp'[d] = gaveUp[d],
         \A v \in Workers : \/ worker'[v] = worker[v]
                            \/ worker[v].of # d /\ worker'[v].of # d
  PROVE  (Phase(d) => Phase(d)') /\ (Served(d)' => Served(d))
<1>1. Unheld(d)' <=> Unheld(d)
  BY Zenon DEF Unheld
<1>2. \A v \in Workers : HeldBy(d, v) => HeldBy(d, v)'
  BY Zenon DEF HeldBy
<1>3. Phase(d) => Phase(d)'
  BY <1>1, <1>2, Zenon DEF Phase
<1>4. Served(d)' => Served(d)
  BY Zenon DEF Served
<1> QED BY <1>3, <1>4, Zenon

\* A client's step keeps the phases: it fills, posts, takes and gives back in
\* this order.
LEMMA PhasesClient ==
  ASSUME PgasTypes, CallsAsked, Phases, NEW c \in Clients, ClientStep(c) PROVE Phases'
<1>1. /\ worker' = worker
      /\ \A d \in Clients : d # c =>
           slot'[d] = slot[d] /\ client'[d] = client[d] /\ gaveUp'[d] = gaveUp[d]
  BY ClientTypes, Zenon
<1>2. ASSUME NEW d \in Clients, d # c, ~gaveUp'[d] PROVE Phase(d)'
  BY <1>1, <1>2, PhaseElsewhere, Zenon DEF Phases
<1>3. ASSUME ~gaveUp'[c] PROVE Phase(c)'
  <2>1. Unheld(c)' <=> Unheld(c)
    BY <1>1, Zenon DEF Unheld
  <2>2. CASE Fill(c)
    BY <1>3, <2>1, <2>2, ClientFacts DEF Phases, Phase
  <2>3. CASE Post(c)
    BY <1>3, <2>1, <2>3, ClientFacts DEF Phases, Phase
  <2>4. CASE Take(c)
    <3>1. Phase(c) /\ client[c].at = "wait" /\ slot[c].resp # NONE /\ client'[c].at = "taken" /\ slot' = slot
      BY <1>3, <2>4, ClientFacts, Zenon DEF Phases
    <3>2. slot[c].req = NONE /\ Unheld(c)
      BY <3>1, Zenon DEF Phase
    <3> QED BY <2>1, <3>1, <3>2, Zenon DEF Phase
  <2>5. CASE ResetResp(c)
    BY <1>3, <2>1, <2>5, ClientFacts, Zenon DEF Phases, Phase
  <2>6. CASE ResetReq(c)
    BY <1>3, <2>1, <2>6, ClientFacts, IdleIs DEF Phases, Phase
  <2>7. CASE GiveUp(c)
    BY <1>3, <2>7, ClientFacts, Zenon
  <2> QED BY <2>2, <2>3, <2>4, <2>5, <2>6, <2>7, Zenon DEF ClientStep
<1> QED BY <1>2, <1>3, Zenon DEF Phases

\* A worker that holds a request of a client without timeouts is the only one,
\* and holds what the client waits for.
LEMMA HolderIsSole ==
  ASSUME Phases, NEW w \in Workers, worker[w].of \in Clients, ~gaveUp[worker[w].of]
  PROVE  /\ HeldBy(worker[w].of, w) /\ client[worker[w].of].at = "wait"
         /\ slot[worker[w].of].req = NONE /\ slot[worker[w].of].resp = NONE
         /\ slot[worker[w].of].addr = client[worker[w].of].addr
<1> DEFINE c == worker[w].of
<1>1. Phase(c) /\ ~Unheld(c)
  BY Zenon DEF Phases, Unheld
<1>2. /\ client[c].at = "wait" /\ slot[c].req = NONE /\ slot[c].resp = NONE /\ slot[c].addr = client[c].addr
      /\ \E v \in Workers : HeldBy(c, v)
  BY <1>1, Zenon DEF Phase
<1>3. HeldBy(c, w)
  BY <1>2, Zenon DEF HeldBy
<1> QED BY <1>2, <1>3, Zenon

\* A worker's step keeps the phases: the compare-and-swap takes the request
\* out of the slot, so no second worker gets it.
LEMMA PhasesWorker ==
  ASSUME PgasTypes, AddressSet, Phases, NEW w \in Workers, WorkerStep(w) PROVE Phases'
<1>1. /\ client' = client /\ gaveUp' = gaveUp /\ \A v \in Workers : v # w => worker'[v] = worker[v]
      /\ \A c \in Clients : Claim(w, c) => \A d \in Clients : d # c => slot'[d] = slot[d]
      /\ worker[w].of \in Clients => \A d \in Clients : d # worker[w].of => slot'[d] = slot[d]
  BY WorkerFrame, Zenon
<1>2. NONE \notin Clients
  BY PgasAssumption, Zenon
<1>3. CASE \E c \in Clients : Claim(w, c)
  <2>1. PICK c \in Clients : Claim(w, c)
    BY <1>3, Zenon
  <2>2. /\ slot[c].req # NONE /\ worker[w].at = "poll" /\ worker[w].of = NONE
        /\ worker'[w].at = "fetch" /\ worker'[w].of = c /\ worker'[w].op = slot[c].req
        /\ slot'[c].req = NONE /\ slot'[c].resp = slot[c].resp
        /\ slot'[c].addr = slot[c].addr /\ slot'[c].value = slot[c].value
    BY <2>1, WorkerFacts, Zenon
  <2>3. ASSUME NEW d \in Clients, d # c, ~gaveUp'[d] PROVE Phase(d)'
    <3>1. slot'[d] = slot[d] /\ worker[w].of # d /\ worker'[w].of # d
      BY <1>1, <1>2, <2>1, <2>2, <2>3, Zenon
    <3> QED BY <1>1, <2>3, <3>1, PhaseElsewhere, Zenon DEF Phases
  <2>4. ASSUME ~gaveUp'[c] PROVE Phase(c)'
    <3>1. Phase(c)
      BY <1>1, <2>4, Zenon DEF Phases
    <3>2. /\ client[c].at = "wait" /\ slot[c].req = client[c].op /\ slot[c].resp = NONE
          /\ Unheld(c) /\ slot[c].value = 1 /\ slot[c].addr = client[c].addr
      BY <2>2, <3>1, Zenon DEF Phase
    <3>3. HeldBy(c, w)'
      BY <1>1, <2>2, <3>2 DEF HeldBy, Unheld
    <3> QED BY <1>1, <2>2, <3>2, <3>3, Zenon DEF Phase
  <2> QED BY <2>3, <2>4, Zenon DEF Phases
<1>4. ASSUME worker[w].of \in Clients, worker'[w].of \in {worker[w].of, NONE},
             slot'[worker[w].of].req = slot[worker[w].of].req,
             slot'[worker[w].of].addr = slot[worker[w].of].addr,
             worker'[w].of # NONE =>
               /\ slot'[worker[w].of].resp = slot[worker[w].of].resp
               /\ worker'[w].op = worker[w].op /\ worker'[w].at \in {"serve", "answer"}
               /\ worker[w].at # "fetch" => worker'[w].addr = worker[w].addr /\ worker[w].at = "serve"
               /\ worker[w].at = "fetch" => worker'[w].addr = slot[worker[w].of].addr
               /\ worker'[w].at = "serve" => slot'[worker[w].of].value = slot[worker[w].of].value
                                             /\ worker[w].at = "fetch"
      PROVE  Phases'
  <2>0. PICK c \in Clients : c = worker[w].of
    BY <1>4, Zenon
  <2>1. ASSUME NEW d \in Clients, d # c, ~gaveUp'[d] PROVE Phase(d)'
    <3>1. slot'[d] = slot[d] /\ worker[w].of # d /\ worker'[w].of # d
      BY <1>1, <1>2, <1>4, <2>0, <2>1, Zenon
    <3> QED BY <1>1, <2>1, <3>1, PhaseElsewhere, Zenon DEF Phases
  <2>2. ASSUME ~gaveUp'[c] PROVE Phase(c)'
    <3>1. /\ HeldBy(c, w) /\ client[c].at = "wait"
          /\ slot[c].req = NONE /\ slot[c].resp = NONE /\ slot[c].addr = client[c].addr
      BY <1>1, <1>4, <2>0, <2>2, HolderIsSole, Zenon
    <3>2. CASE worker'[w].of = NONE
      <4>1. Unheld(c)'
        BY <1>1, <1>2, <1>4, <2>0, <3>1, <3>2 DEF Unheld, HeldBy
      <4> QED BY <1>1, <1>4, <2>0, <3>1, <4>1, Zenon DEF Phase
    <3>3. CASE worker'[w].of # NONE
      <4>1. HeldBy(c, w)'
        BY <1>1, <1>4, <2>0, <3>1, <3>3 DEF HeldBy
      <4> QED BY <1>1, <1>4, <2>0, <3>1, <3>3, <4>1, Zenon DEF Phase
    <3> QED BY <3>2, <3>3, Zenon
  <2> QED BY <2>1, <2>2, Zenon DEF Phases
<1>5. CASE Refuse(w) \/ Finish(w) \/ (Fetch(w) /\ slot' # slot)
  BY <1>4, <1>5, WorkerFacts, Zenon
<1>6. CASE Fetch(w) /\ slot' = slot
  BY <1>4, <1>6, WorkerFacts, Zenon
<1>7. CASE Serve(w)
  BY <1>4, <1>7, WorkerFacts, Zenon
<1> QED BY <1>3, <1>5, <1>6, <1>7, WorkerCases, Zenon

\* A post begins a new window, and nothing of an earlier call answers it.
LEMMA PostedUnserved ==
  ASSUME PgasTypes, Phases, NEW c \in Clients, ClientStep(c), client'[c].at = "wait"
  PROVE  Post(c) /\ ~Served(c)'
<1>1. Post(c)
  BY ClientFacts, IdleIs, Zenon DEF ClientStep
<1>2. worker' = worker
  BY ClientTypes, Zenon
<1>3. gaveUp' = gaveUp /\ client[c].at = "filled" /\ slot'[c].resp = slot[c].resp
  BY <1>1, ClientFacts, Zenon
<1>4. ~gaveUp[c] => slot[c].resp = NONE /\ Unheld(c)
  BY <1>3, Zenon DEF Phases, Phase
<1>5. ~gaveUp[c] => slot'[c].resp # "OK" /\ \A w \in Workers : worker'[w].of # c
  BY <1>2, <1>3, <1>4, Zenon DEF Unheld, NONE
<1> QED BY <1>1, <1>3, <1>5, Zenon DEF Served

\* A client's own steps: the window opens with the value of the line when it waits,
\* and it is read only once the answer is there.
LEMMA WindowsClient ==
  ASSUME PgasTypes, Phases, WindowsCurrent, NEW c \in Clients, ClientStep(c) PROVE WindowsCurrent'
<1>1. /\ worker' = worker /\ table' = table
      /\ \A d \in Clients : d # c =>
           /\ slot'[d] = slot[d] /\ client'[d] = client[d]
           /\ window'[d] = window[d] /\ gaveUp'[d] = gaveUp[d]
  BY ClientTypes, Zenon
<1>2. ASSUME NEW d \in Clients, d # c
      PROVE  /\ client'[d].at = "wait" /\ client'[d].addr \in Lines => table'[client'[d].addr] \in window'[d]
             /\ Served(d)' /\ client'[d].op = "READ" => slot'[d].value \in window'[d]
             /\ client'[d].at = "taken" /\ client'[d].op = "READ" /\ client'[d].ok /\ ~gaveUp'[d]
                  => client'[d].got \in window'[d]
  <2>1. Served(d)' => Served(d)
    BY <1>1, <1>2, PhaseElsewhere, Zenon
  <2> QED BY <1>1, <1>2, <2>1, Zenon DEF WindowsCurrent
<1>3. client'[c].at = "wait" /\ client'[c].addr \in Lines => table'[client'[c].addr] \in window'[c]
  BY <1>1, PostedUnserved, ClientFacts, Zenon
<1>4. ~Served(c)'
  BY PostedUnserved, Zenon DEF Served
<1>5. ASSUME client'[c].at = "taken", client'[c].op = "READ", client'[c].ok, ~gaveUp'[c]
      PROVE  client'[c].got \in window'[c]
  <2>1. Take(c)
    BY <1>5, ClientFacts, IdleIs, Zenon DEF ClientStep
  <2>2. /\ client[c].at = "wait" /\ client[c].op = "READ" /\ slot[c].resp = "OK" /\ ~gaveUp[c]
        /\ client'[c].got = slot[c].value /\ window' = window
    BY <1>5, <2>1, ClientFacts, Zenon
  <2>3. Served(c)
    BY <2>2, Zenon DEF Served
  <2> QED BY <2>2, <2>3, Zenon DEF WindowsCurrent
<1> QED BY <1>2, <1>3, <1>4, <1>5, Zenon DEF WindowsCurrent

\* Only applying a request makes it served.
LEMMA ServedWorker ==
  ASSUME PgasTypes, AddressSet, NEW w \in Workers, WorkerStep(w), NEW d \in Clients, Served(d)'
  PROVE  \/ Served(d) /\ slot'[d].value = slot[d].value
         \/ Serve(w) /\ worker[w].of = d
<1>1. /\ client' = client /\ gaveUp' = gaveUp /\ \A v \in Workers : v # w => worker'[v] = worker[v]
      /\ \A c \in Clients : Claim(w, c) => \A b \in Clients : b # c => slot'[b] = slot[b]
      /\ worker[w].of \in Clients => \A b \in Clients : b # worker[w].of => slot'[b] = slot[b]
  BY WorkerFrame, Zenon
<1>2. NONE \notin Clients
  BY PgasAssumption, Zenon
<1>3. CASE \E c \in Clients : Claim(w, c)
  <2>1. PICK c \in Clients : Claim(w, c)
    BY <1>3, Zenon
  <2>2. /\ worker'[w].at = "fetch" /\ slot'[c].resp = slot[c].resp /\ slot'[c].value = slot[c].value
    BY <2>1, WorkerFacts, Zenon
  <2>3. slot'[d].resp = slot[d].resp /\ slot'[d].value = slot[d].value
    BY <1>1, <2>1, <2>2, Zenon
  <2> QED BY <1>1, <2>2, <2>3, Zenon DEF Served
<1>4. CASE Refuse(w) \/ Finish(w) \/ (Fetch(w) /\ slot' # slot)
  <2>1. /\ worker[w].of \in Clients /\ worker'[w].of = NONE
        /\ slot'[worker[w].of].resp = IF Finish(w) THEN "OK" ELSE "ERROR"
        /\ slot'[worker[w].of].value = slot[worker[w].of].value
        /\ Finish(w) => worker[w].at = "answer"
    BY <1>4, WorkerFacts, Zenon
  <2>2. slot'[d].value = slot[d].value
    BY <1>1, <2>1, Zenon
  <2>3. CASE d # worker[w].of
    BY <1>1, <1>2, <2>1, <2>2, <2>3, Zenon DEF Served
  <2>4. CASE d = worker[w].of
    BY <1>1, <1>2, <2>1, <2>2, <2>4, Zenon DEF Served
  <2> QED BY <2>3, <2>4, Zenon
<1>5. CASE Fetch(w) /\ slot' = slot
  <2>1. worker'[w].of = NONE \/ worker'[w].at = "serve"
    BY <1>5, WorkerFacts, Zenon
  <2> QED BY <1>1, <1>2, <1>5, <2>1, Zenon DEF Served
<1>6. CASE Serve(w) /\ worker[w].of # d
  <2>1. worker[w].of \in Clients /\ worker'[w].of = worker[w].of
    BY <1>6, WorkerFacts, Zenon
  <2> QED BY <1>1, <1>6, <2>1, Zenon DEF Served
<1> QED BY <1>3, <1>4, <1>5, <1>6, WorkerCases, Zenon

\* Applying a request puts the new value into the window of all that wait for
\* the line; a read hands back the value the line had.
LEMMA WindowsWorker ==
  ASSUME PgasTypes, AddressSet, Phases, WindowsCurrent, NEW w \in Workers, WorkerStep(w)
  PROVE  WindowsCurrent'
<1>1. client' = client /\ gaveUp' = gaveUp
  BY WorkerFrame, Zenon
<1>2. \A d \in Clients : window[d] \subseteq window'[d]
  <2>1. Serve(w) \/ window' = window
    BY WorkerCases, WorkerFacts, Zenon
  <2>2. Serve(w) => \A d \in Clients : window[d] \subseteq window'[d]
    BY WorkerFacts
  <2> QED BY <2>1, <2>2, Zenon
<1>3. ASSUME NEW d \in Clients, client[d].at = "wait", client[d].addr \in Lines
      PROVE  table'[client[d].addr] \in window'[d]
  <2>1. CASE Serve(w)
    <3>1. /\ \A l \in Lines : l # worker[w].addr => table'[l] = table[l]
          /\ window'[d] = IF client[d].addr = worker[w].addr /\ client[d].at = "wait"
                          THEN window[d] \cup {table'[worker[w].addr]} ELSE window[d]
      BY <2>1, WorkerFacts, Zenon
    <3> QED BY <1>3, <3>1, Zenon DEF WindowsCurrent
  <2>2. CASE ~Serve(w)
    <3>1. window' = window /\ table' = table
      BY <2>2, WorkerCases, WorkerFacts, Zenon
    <3> QED BY <1>3, <3>1, Zenon DEF WindowsCurrent
  <2> QED BY <2>1, <2>2, Zenon
<1>4. ASSUME NEW d \in Clients, Served(d)', client[d].op = "READ"
      PROVE  slot'[d].value \in window'[d]
  <2>1. CASE Served(d) /\ slot'[d].value = slot[d].value
    BY <1>2, <1>4, <2>1, Zenon DEF WindowsCurrent
  <2>2. CASE Serve(w) /\ worker[w].of = d
    <3>1. ~gaveUp[d] /\ client[d].at = "wait"
      BY <1>1, <1>4, Zenon DEF Served
    <3>2. HeldBy(d, w)
      BY <2>2, <3>1, HolderIsSole, Zenon
    <3>3. /\ worker[w].at = "serve" /\ worker[w].addr \in Lines
          /\ worker[w].op \in {"READ", "FAA", "CAS"} => slot'[d].value = table[worker[w].addr]
      BY <2>2, WorkerFacts, Zenon
    <3>4. slot'[d].value = table[client[d].addr] /\ client[d].addr \in Lines
      BY <1>4, <3>2, <3>3, Zenon DEF HeldBy
    <3>5. table[client[d].addr] \in window[d]
      BY <3>1, <3>4, Zenon DEF WindowsCurrent
    <3> QED BY <1>2, <3>4, <3>5, Zenon
  <2> QED BY <1>4, <2>1, <2>2, ServedWorker, Zenon
<1> QED BY <1>1, <1>2, <1>3, <1>4, Zenon DEF WindowsCurrent

\* No write goes to a counter, so a counter never falls, and a fetch-and-add of
\* a client without timeouts moves it on.
LEMMA CountersGrow ==
  ASSUME PgasTypes, AddressSet, CallsAsked, Phases, \A c \in writers : ~gaveUp[c],
         NEW w \in Workers, Serve(w)
  PROVE  /\ \A l \in CounterLines : l \in Lines /\ table'[l] \in Nat /\ table'[l] >= table[l]
         /\ (worker[w].addr \in CounterLines /\ worker[w].op = "FAA" /\ ~gaveUp[worker[w].of])
              => table'[worker[w].addr] = table[worker[w].addr] + 1
<1>0. /\ table \in [Lines -> Nat] /\ CounterLines \subseteq Lines
      /\ \A d \in Clients : slot[d].value \in Nat
  BY PgasAssumption, Zenon DEF PgasTypes, SlotTypes
<1>1. /\ worker[w].of \in Clients /\ worker[w].at = "serve" /\ worker[w].addr \in Lines
      /\ table'[worker[w].addr] = Effect(worker[w].op, slot[worker[w].of], table[worker[w].addr])
      /\ \A l \in Lines : l # worker[w].addr => table'[l] = table[l]
  BY WorkerFacts, Zenon
<1>2. worker[w].addr \in CounterLines => worker[w].op \notin {"WRITE", "CAS"}
  <2> SUFFICES ASSUME worker[w].addr \in CounterLines, worker[w].op \in {"WRITE", "CAS"} PROVE FALSE
    OBVIOUS
  <2> DEFINE c == worker[w].of
  <2>1. c \in writers /\ ~gaveUp[c]
    BY <1>1, Zenon DEF CallsAsked
  <2>2. HeldBy(c, w) /\ client[c].at = "wait"
    BY <1>1, <2>1, HolderIsSole, Zenon
  <2>3. worker[w].op = client[c].op /\ worker[w].addr = client[c].addr
    BY <1>1, <2>2, Zenon DEF HeldBy
  <2>4. <<client[c].op, client[c].addr>> \in Requests
    BY <1>1, <2>2, Zenon DEF CallsAsked
  <2> QED BY <2>3, <2>4, PgasAssumption, Zenon
<1>3. worker[w].addr \in CounterLines =>
        table'[worker[w].addr] = IF worker[w].op = "FAA"
                                 THEN table[worker[w].addr] + slot[worker[w].of].value
                                 ELSE table[worker[w].addr]
  BY <1>1, <1>2, Zenon DEF Effect
<1>4. \A l \in CounterLines : l \in Lines /\ table'[l] \in Nat /\ table'[l] >= table[l]
  <2> TAKE l \in CounterLines
  <2>1. table[l] \in Nat /\ slot[worker[w].of].value \in Nat /\ l \in Lines
    BY <1>0, <1>1, Zenon
  <2>2. CASE l # worker[w].addr
    BY <1>1, <2>1, <2>2
  <2>3. CASE l = worker[w].addr
    BY <1>3, <2>1, <2>3
  <2> QED BY <2>2, <2>3, Zenon
<1>5. ~gaveUp[worker[w].of] => slot[worker[w].of].value = 1
  BY <1>1, HolderIsSole, Zenon DEF HeldBy
<1> QED BY <1>3, <1>4, <1>5, Zenon

\* A client takes the value it was handed, which is no longer outstanding then, and
\* a new call has none.
LEMMA TicketsClient ==
  ASSUME PgasTypes, Phases, TicketsApart, NEW c \in Clients, ClientStep(c) PROVE TicketsApart'
<1>1. /\ worker' = worker /\ table' = table
      /\ \A d \in Clients : d # c =>
           slot'[d] = slot[d] /\ client'[d] = client[d] /\ gaveUp'[d] = gaveUp[d]
  BY ClientTypes, Zenon
<1>2. ASSUME NEW d \in Clients, Outstanding(d)'
      PROVE  /\ d # c /\ Outstanding(d) /\ slot'[d] = slot[d] /\ client'[d] = client[d]
  <2>1. d # c
    <3>1. ~Served(c)'
      BY PostedUnserved, Zenon DEF Served
    <3> QED BY <1>2, <3>1, Zenon DEF Outstanding
  <2>2. Served(d)' => Served(d)
    BY <1>1, <2>1, PhaseElsewhere, Zenon
  <2> QED BY <1>1, <1>2, <2>1, <2>2, Zenon DEF Outstanding
<1> SUFFICES ASSUME \A d \in writers' : ~gaveUp'[d]
             PROVE  /\ ~repeated'
                    /\ \A x \in tickets' : x[1] \in CounterLines => x[2] < table'[x[1]]
                    /\ \A d \in Clients : Outstanding(d)' =>
                         /\ slot'[d].value < table'[client'[d].addr]
                         /\ <<client'[d].addr, slot'[d].value>> \notin tickets'
                    /\ \A b, d \in Clients :
                         (Outstanding(b)' /\ Outstanding(d)' /\ b # d /\ client'[b].addr = client'[d].addr)
                           => slot'[b].value # slot'[d].value
  BY Zenon DEF TicketsApart
<1>3. \A d \in writers : ~gaveUp[d]
  <2>1. writers \subseteq writers'
    BY ClientFacts, Zenon DEF ClientStep
  <2>2. gaveUp[c] => gaveUp'[c]
    BY ClientFacts, Zenon DEF ClientStep
  <2>3. \A d \in writers : gaveUp[d] => gaveUp'[d]
    BY <1>1, <2>2, Zenon DEF PgasTypes
  <2> QED BY <2>1, <2>3, Zenon
<1>4. /\ ~repeated
      /\ \A x \in tickets : x[1] \in CounterLines => x[2] < table[x[1]]
      /\ \A d \in Clients : Outstanding(d) => /\ slot[d].value < table[client[d].addr]
                                              /\ <<client[d].addr, slot[d].value>> \notin tickets
      /\ \A b, d \in Clients :
           (Outstanding(b) /\ Outstanding(d) /\ b # d /\ client[b].addr = client[d].addr)
             => slot[b].value # slot[d].value
  BY <1>3, Zenon DEF TicketsApart
<1>5. \A b, d \in Clients :
        (Outstanding(b)' /\ Outstanding(d)' /\ b # d /\ client'[b].addr = client'[d].addr)
          => slot'[b].value # slot'[d].value
  BY <1>2, <1>4
<1>6. CASE tickets' = tickets /\ repeated' = repeated
  BY <1>1, <1>2, <1>4, <1>5, <1>6, Zenon
<1>7. CASE ~(tickets' = tickets /\ repeated' = repeated)
  <2>1. Take(c)
    BY <1>7, ClientFacts, Zenon DEF ClientStep
  <2> DEFINE ticket == <<client[c].addr, slot[c].value>>
  <2>2. /\ client[c].op = "FAA" /\ slot[c].resp = "OK" /\ ~gaveUp[c] /\ client[c].at = "wait"
        /\ repeated' = (repeated \/ (ticket \in tickets /\ ticket[1] \in CounterLines))
        /\ tickets' = tickets \cup {ticket}
    BY <1>7, <2>1, Zenon DEF Take
  <2>3. ticket[1] \in CounterLines => Outstanding(c)
    BY <2>2, Zenon DEF Outstanding, Served
  <2>4. ticket[1] \in CounterLines => ticket \notin tickets /\ ticket[2] < table[ticket[1]]
    BY <1>4, <2>3, Zenon
  <2>5. ~repeated'
    BY <1>4, <2>2, <2>4, Zenon
  <2>6. \A x \in tickets' : x[1] \in CounterLines => x[2] < table'[x[1]]
    BY <1>1, <1>4, <2>2, <2>4, Zenon
  <2>7. \A d \in Clients : Outstanding(d)' => <<client'[d].addr, slot'[d].value>> # ticket
    <3> SUFFICES ASSUME NEW d \in Clients, Outstanding(d)', <<client'[d].addr, slot'[d].value>> = ticket
                 PROVE  FALSE
      OBVIOUS
    <3>1. d # c /\ Outstanding(d) /\ client[d].addr = client[c].addr /\ slot[d].value = slot[c].value
      BY <1>2, Zenon
    <3>2. client[c].addr \in CounterLines
      BY <3>1, Zenon DEF Outstanding
    <3> QED BY <1>4, <2>3, <3>1, <3>2, Zenon
  <2> HIDE DEF ticket
  <2>8. \A d \in Clients : Outstanding(d)' =>
                         /\ slot'[d].value < table'[client'[d].addr]
                         /\ <<client'[d].addr, slot'[d].value>> \notin tickets'
    BY <1>1, <1>2, <1>4, <2>2, <2>7, Zenon
  <2> QED BY <1>5, <2>5, <2>6, <2>8, Zenon
<1> QED BY <1>6, <1>7, Zenon

\* The value a worker hands out is that of the counter, which all others are below,
\* and the counter is above it afterwards.
LEMMA TicketsWorker ==
  ASSUME PgasTypes, AddressSet, CallsAsked, Phases, TicketsApart, NEW w \in Workers, WorkerStep(w)
  PROVE  TicketsApart'
<1>1. /\ client' = client /\ gaveUp' = gaveUp /\ writers' = writers
      /\ tickets' = tickets /\ repeated' = repeated
  BY WorkerFrame, Zenon
<1> SUFFICES ASSUME \A d \in writers : ~gaveUp[d]
             PROVE  /\ \A x \in tickets : x[1] \in CounterLines => x[2] < table'[x[1]]
                    /\ \A d \in Clients : Outstanding(d)' =>
                         /\ slot'[d].value < table'[client[d].addr]
                         /\ <<client[d].addr, slot'[d].value>> \notin tickets
                    /\ \A b, d \in Clients :
                         (Outstanding(b)' /\ Outstanding(d)' /\ b # d /\ client[b].addr = client[d].addr)
                           => slot'[b].value # slot'[d].value
  BY <1>1, Zenon DEF TicketsApart
<1>2. /\ \A x \in tickets : x[1] \in CounterLines => x[2] < table[x[1]]
      /\ \A d \in Clients : Outstanding(d) => /\ slot[d].value < table[client[d].addr]
                                              /\ <<client[d].addr, slot[d].value>> \notin tickets
      /\ \A b, d \in Clients :
           (Outstanding(b) /\ Outstanding(d) /\ b # d /\ client[b].addr = client[d].addr)
             => slot[b].value # slot[d].value
  BY Zenon DEF TicketsApart
<1>3. ASSUME NEW d \in Clients, Outstanding(d)'
      PROVE  /\ client[d].addr \in CounterLines
             /\ \/ Outstanding(d) /\ slot'[d].value = slot[d].value
                \/ Serve(w) /\ worker[w].of = d /\ ~gaveUp[d] /\ client[d].op = "FAA"
  BY <1>1, <1>3, ServedWorker, Zenon DEF Outstanding, Served
<1>4. CASE ~Serve(w)
  <2>1. table' = table
    BY <1>4, WorkerCases, WorkerFacts, Zenon
  <2>2. \A d \in Clients : Outstanding(d)' => Outstanding(d) /\ slot'[d].value = slot[d].value
    BY <1>3, <1>4, Zenon
  <2> QED BY <1>2, <2>1, <2>2, Zenon
<1>5. CASE Serve(w)
  <2>0. /\ table \in [Lines -> Nat] /\ CounterLines \subseteq Lines
        /\ \A d \in Clients : slot[d].value \in Nat
    BY PgasAssumption, Zenon DEF PgasTypes, SlotTypes
  <2>1. \A l \in CounterLines : l \in Lines /\ table'[l] \in Nat /\ table'[l] >= table[l] /\ table[l] \in Nat
    BY <1>5, <2>0, CountersGrow, Zenon
  <2>2. ASSUME NEW d \in Clients, Outstanding(d)', worker[w].of = d
        PROVE  /\ slot'[d].value = table[client[d].addr]
               /\ table'[client[d].addr] = table[client[d].addr] + 1
    <3>0. ~gaveUp[d] /\ client[d].op = "FAA" /\ client[d].addr \in CounterLines
      BY <1>1, <2>2, Zenon DEF Outstanding, Served
    <3>1. HeldBy(d, w) /\ worker[w].at = "serve"
      BY <1>5, <2>2, <3>0, HolderIsSole, WorkerFacts, Zenon
    <3>2. worker[w].op = "FAA" /\ worker[w].addr = client[d].addr
      BY <3>0, <3>1, Zenon DEF HeldBy
    <3>3. slot'[d].value = table[worker[w].addr]
      BY <1>5, <2>2, <3>2, WorkerFacts, Zenon
    <3> QED BY <1>5, <2>2, <3>0, <3>2, <3>3, CountersGrow, Zenon
  <2>3. \A d \in Clients : (Outstanding(d)' /\ worker[w].of # d) =>
          Outstanding(d) /\ slot'[d].value = slot[d].value /\ client[d].addr \in CounterLines
    BY <1>3, Zenon
  <2>4. \A x \in tickets : x[1] \in CounterLines => x[2] < table'[x[1]]
    <3> SUFFICES ASSUME NEW x \in tickets, x[1] \in CounterLines PROVE x[2] < table'[x[1]]
      OBVIOUS
    <3>1. x[2] < table[x[1]] /\ x[2] \in Nat
      BY <1>2, Zenon DEF PgasTypes
    <3> QED BY <2>1, <3>1
  <2>5. ASSUME NEW d \in Clients, Outstanding(d)'
        PROVE  /\ slot'[d].value < table'[client[d].addr]
               /\ <<client[d].addr, slot'[d].value>> \notin tickets
    <3>1. client[d].addr \in CounterLines
      BY <1>3, <2>5, Zenon
    <3>2. CASE worker[w].of = d
      <4>1. slot'[d].value = table[client[d].addr] /\ table'[client[d].addr] = table[client[d].addr] + 1
        BY <2>2, <2>5, <3>2, Zenon
      <4>2. table[client[d].addr] \in Nat
        BY <2>1, <3>1, Zenon
      <4>3. <<client[d].addr, table[client[d].addr]>> \notin tickets
        BY <1>2, <3>1, <4>2
      <4> QED BY <4>1, <4>2, <4>3
    <3>3. CASE worker[w].of # d
      <4>1. Outstanding(d) /\ slot'[d].value = slot[d].value
        BY <2>3, <2>5, <3>3, Zenon
      <4>2. slot[d].value < table[client[d].addr] /\ <<client[d].addr, slot[d].value>> \notin tickets
        BY <1>2, <4>1, Zenon
      <4> QED BY <2>0, <2>1, <3>1, <4>1, <4>2
    <3> QED BY <3>2, <3>3, Zenon
  <2>6. ASSUME NEW b \in Clients, NEW d \in Clients, Outstanding(b)', Outstanding(d)', b # d,
               client[b].addr = client[d].addr
        PROVE  slot'[b].value # slot'[d].value
    <3>1. ASSUME NEW x \in Clients, NEW y \in Clients, Outstanding(x)', Outstanding(y)',
                 worker[w].of = x, y # x, client[x].addr = client[y].addr
          PROVE  slot'[x].value # slot'[y].value
      <4>1. slot'[x].value = table[client[x].addr]
        BY <2>2, <3>1, Zenon
      <4>2. slot'[y].value = slot[y].value /\ slot[y].value < table[client[y].addr]
            /\ client[y].addr \in CounterLines
        BY <1>2, <2>3, <3>1, Zenon
      <4>3. slot[y].value \in Nat /\ table[client[y].addr] \in Nat
        BY <2>0, <2>1, <4>2, Zenon
      <4> QED BY <3>1, <4>1, <4>2, <4>3
    <3>2. CASE worker[w].of = b
      BY <2>6, <3>1, <3>2, Zenon
    <3>3. CASE worker[w].of = d
      BY <2>6, <3>1, <3>3, Zenon
    <3>4. CASE worker[w].of # b /\ worker[w].of # d
      BY <1>2, <2>3, <2>6, <3>4, Zenon
    <3> QED BY <3>2, <3>3, <3>4, Zenon
  <2> QED BY <2>4, <2>5, <2>6, Zenon
<1> QED BY <1>4, <1>5, Zenon

\* The segment init_pgas_shm makes has no request in it.
LEMMA PgasInitInv == PgasInit => PgasInv
<1> SUFFICES ASSUME PgasInit PROVE PgasInv
  OBVIOUS
<1>1. /\ [req |-> NONE, resp |-> NONE, addr |-> 0, value |-> 0, expected |-> 0] \in SlotTypes
      /\ Idle \in CallTypes /\ FreeSlot \in HoldTypes /\ FreeSlot.of = NONE /\ FreeSlot.at = "poll"
  BY Zenon DEF SlotTypes, CallTypes, HoldTypes, Idle, FreeSlot, ClientLabels, SlotWorkerLabels
<1>2. /\ \A c \in Clients : /\ slot[c].req = NONE /\ slot[c].resp = NONE
                            /\ client[c].at = "idle" /\ client[c].op = NONE
      /\ \A w \in Workers : worker[w].of = NONE /\ worker[w].at = "poll"
      /\ NONE \notin Clients
  BY <1>1, IdleIs, PgasAssumption, Zenon DEF PgasInit
<1>3. PgasTypes
  <2>1. \A w \in Workers : worker[w] = FreeSlot
    BY Zenon DEF PgasInit
  <2> QED BY <1>1, <1>2, <2>1, Zenon DEF PgasInit, PgasTypes
<1>4. \A c \in Clients : Unheld(c)
  BY <1>2, Zenon DEF Unheld
<1>5. AddressSet /\ CallsAsked /\ Phases
  BY <1>2, <1>4, Zenon DEF AddressSet, CallsAsked, Phases, Phase, NONE
<1>6. WindowsCurrent /\ TicketsApart
  BY <1>2, Zenon DEF WindowsCurrent, TicketsApart, Outstanding, Served, PgasInit
<1> QED BY <1>3, <1>5, <1>6, Zenon DEF PgasInv

\* The invariant is inductive.
LEMMA PgasInductive == PgasInv /\ [PgasNext]_pgasVars => PgasInv'
<1> SUFFICES ASSUME PgasInv, [PgasNext]_pgasVars PROVE PgasInv'
  OBVIOUS
<1>1. /\ PgasTypes /\ AddressSet /\ CallsAsked /\ Phases /\ WindowsCurrent /\ TicketsApart
  BY Zenon DEF PgasInv
<1>2. CASE UNCHANGED pgasVars
  <2>1. UNCHANGED <<slot, table, client, worker, window, gaveUp, writers, tickets, repeated>>
    BY <1>2, Zenon DEF pgasVars
  <2>2. \A c \in Clients : (Phase(c) => Phase(c)') /\ (Served(c)' => Served(c))
    BY <2>1, PhaseElsewhere, Zenon
  <2>3. PgasTypes' /\ AddressSet' /\ CallsAsked' /\ Phases'
    BY <1>1, <2>1, <2>2, Zenon DEF PgasTypes, AddressSet, CallsAsked, Phases, Unheld
  <2>4. WindowsCurrent'
    BY <1>1, <2>1, <2>2, Zenon DEF WindowsCurrent
  <2>5. TicketsApart'
    BY <1>1, <2>1, <2>2, Zenon DEF TicketsApart, Outstanding
  <2> QED BY <2>3, <2>4, <2>5, Zenon DEF PgasInv
<1>3. ASSUME NEW c \in Clients, ClientStep(c) PROVE PgasInv'
  BY <1>1, <1>3, ClientTypes, AddressClient, AskedClient, PhasesClient, WindowsClient, TicketsClient, Zenon
     DEF PgasInv
<1>4. ASSUME NEW w \in Workers, WorkerStep(w) PROVE PgasInv'
  BY <1>1, <1>4, WorkerTypes, AddressWorker, AskedWorker, PhasesWorker, WindowsWorker, TicketsWorker, Zenon
     DEF PgasInv
<1> QED BY <1>2, <1>3, <1>4, Zenon DEF PgasNext

\* A client's request is never in two places, for any number of clients,
\* workers and calls.
THEOREM PgasOnePlace == PgasSpec => []OnePlaceAtATime
<1>1. PgasInv => OnePlaceAtATime
  <2> SUFFICES ASSUME PgasInv, NEW c \in Clients, ~gaveUp[c]
               PROVE  /\ Cardinality(Holders(c)) + (IF slot[c].req # NONE THEN 1 ELSE 0)
                           + (IF slot[c].resp # NONE THEN 1 ELSE 0) <= 1
                      /\ client[c].at \in {"idle", "filled", "reset"} => slot[c].resp = NONE /\ Holders(c) = {}
    BY Zenon DEF OnePlaceAtATime
  <2>1. Phase(c)
    BY Zenon DEF PgasInv, Phases
  <2>2. CASE Unheld(c)
    <3>1. Holders(c) = {}
      BY <2>2, Zenon DEF Holders, Unheld
    <3>2. Cardinality(Holders(c)) = 0
      BY <3>1, CardinalityNone, Zenon
    <3>3. client[c].at # "taken" /\ client[c].at # "wait" => slot[c].resp = NONE
      BY <2>1, Zenon DEF Phase, PgasInv, PgasTypes, CallTypes, ClientLabels
    <3>4. slot[c].req = NONE \/ slot[c].resp = NONE
      BY <2>1, Zenon DEF Phase
    <3> QED BY <3>1, <3>2, <3>3, <3>4
  <2>3. CASE ~Unheld(c)
    <3>1. PICK w \in Workers : /\ client[c].at = "wait" /\ slot[c].req = NONE /\ slot[c].resp = NONE
                               /\ HeldBy(c, w)
      BY <2>1, <2>3, Zenon DEF Phase
    <3>2. Holders(c) = {w}
      BY <3>1, Zenon DEF HeldBy, Holders
    <3>3. Cardinality(Holders(c)) = 1
      BY <3>2, CardinalityOne, Zenon
    <3> QED BY <3>1, <3>3, SMTT(30)
  <2> QED BY <2>2, <2>3, Zenon
<1> QED BY <1>1, PgasInitInv, PgasInductive, PTL DEF PgasSpec

\* Reads are current and fetch-and-adds of a counter are handed out once.
THEOREM PgasResults == PgasSpec => []PgasResultIsCurrent
<1>1. PgasInv => PgasResultIsCurrent
  BY Zenon DEF PgasInv, WindowsCurrent, TicketsApart, PgasResultIsCurrent
<1> QED BY <1>1, PgasInitInv, PgasInductive, PTL DEF PgasSpec
=============================================================================
