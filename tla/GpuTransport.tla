---------------------------- MODULE GpuTransport ----------------------------
(***************************************************************************)
(* The guest side of the CXL Type-2 GPU device: cxl_gpu_transport.c and    *)
(* the command sequences of libcuda.c that run between cmd_lock and        *)
(* cmd_unlock.  The lock is flock on the process's only descriptor of      *)
(* BAR2: it excludes other processes, not other threads of the process.    *)
(* A command is known by <<thread, number>>; its parameters, its request   *)
(* and the results of the device carry that name.  The device is external: *)
(* it takes the descriptor when the doorbell rings and completes it the    *)
(* way the device of test_cxl_gpu_transport.c does, store by store, or, as *)
(* a trapped register write, in one step (trapped).                        *)
(***************************************************************************)
EXTENDS Integers, FiniteSets

CONSTANTS
  GpuThreads,       \* the guest threads
  ProcessOf,        \* ProcessOf[t]: the process of thread t
  Traps,            \* the kinds of device: TRUE for one that completes in one step
  MaxSubmission,    \* UINT64_MAX
  FirstSubmissions, \* completion_submission at the start: 0, or that of earlier processes
  MaxCommands       \* bound of the model: commands of all threads

NoProcess == "no process"
Processes == {ProcessOf[t] : t \in GpuThreads}

ASSUME GpuAssumption ==
  /\ NoProcess \notin Processes
  /\ Traps \subseteq BOOLEAN
  /\ MaxSubmission \in Nat /\ FirstSubmissions \subseteq 0 .. MaxSubmission /\ MaxCommands \in Nat

VARIABLES
  trapped,          \* the device completes a command in one step
  flock,            \* the process that holds the lock, or NoProcess
  desc,             \* the descriptor: params, request, and the completion half
  doorbell,
  device,           \* the command the device works on, and its next store
  unusable,         \* unusable[p]
  gpc,              \* gpc[t]: the thread's place in a command
  begun,            \* commands begun by all threads
  nth,              \* nth[t]: which of them is the thread's last
  sub,              \* sub[t]: the submission number it waits for
  seen,             \* seen[t]: the completion status of its last poll
  result,           \* result[t]: the command its last results belong to, or Error
  \* history, not in the code:
  mixed,            \* two threads of one process were in a command at once
  abandoned         \* the processes with a command that timed out

gpuVars == <<trapped, flock, desc, doorbell, device, unusable, gpc, begun, nth, sub, seen, result, mixed, abandoned>>

None == <<>>
Error == <<"error">>
Me(t) == <<t, nth[t]>>
Commands == GpuThreads \X (1 .. MaxCommands)
Resting == [at |-> "idle", cmd |-> None, sub |-> 0]
Inside == {t \in GpuThreads : gpc[t] \notin {"idle", "lock"}}

GpuInit ==
  /\ trapped \in Traps /\ flock = NoProcess /\ doorbell = FALSE /\ device = Resting
  /\ \E first \in FirstSubmissions :
       desc = [params |-> None, request |-> None, request_sub |-> first,
               completion_sub |-> first, results |-> None,
               status |-> IF first = 0 THEN "EMPTY" ELSE "COMPLETE"]
  /\ unusable = [p \in Processes |-> FALSE]
  /\ gpc = [t \in GpuThreads |-> "idle"] /\ begun = 0 /\ nth = [t \in GpuThreads |-> 0]
  /\ sub = [t \in GpuThreads |-> 0] /\ seen = [t \in GpuThreads |-> "EMPTY"]
  /\ result = [t \in GpuThreads |-> None]
  /\ mixed = FALSE /\ abandoned = {}
-----------------------------------------------------------------------------
(* A command of libcuda.c                                                  *)

GpuGoto(t, l) == gpc' = [gpc EXCEPT ![t] = l]

Begin(t) ==
  /\ gpc[t] = "idle" /\ begun < MaxCommands
  /\ begun' = begun + 1 /\ nth' = [nth EXCEPT ![t] = begun']
  /\ result' = [result EXCEPT ![t] = None]
  /\ GpuGoto(t, "lock")
  /\ UNCHANGED <<trapped, flock, desc, doorbell, device, unusable, sub, seen, mixed, abandoned>>

CmdLock_Bug(t) ==
  /\ gpc[t] = "lock" /\ GpuGoto(t, "params")
  /\ flock' = ProcessOf[t] /\ mixed' = (mixed \/ \E u \in Inside : ProcessOf[u] = ProcessOf[t])
  /\ UNCHANGED <<trapped, desc, doorbell, device, unusable, begun, nth, sub, seen, result, abandoned>>

\* LOCK_EX on a descriptor that already holds the lock succeeds.
CmdLock(t) ==
  /\ gpc[t] = "lock" /\ flock \in {NoProcess, ProcessOf[t]}
  /\ flock' = ProcessOf[t]
  /\ mixed' = (mixed \/ \E u \in Inside : ProcessOf[u] = ProcessOf[t])
  /\ GpuGoto(t, "params")
  /\ UNCHANGED <<trapped, desc, doorbell, device, unusable, begun, nth, sub, seen, result, abandoned>>

\* reg_write64 of the parameters, dropped on an unusable transport.
WriteParams(t) ==
  /\ gpc[t] = "params"
  /\ desc' = IF unusable[ProcessOf[t]] THEN desc ELSE [desc EXCEPT !.params = Me(t)]
  /\ GpuGoto(t, "execute")
  /\ UNCHANGED <<trapped, flock, doorbell, device, unusable, begun, nth, sub, seen, result, mixed, abandoned>>

\* cxl_gpu_transport_execute up to its submission number.
Execute(t) ==
  LET p == ProcessOf[t]
  IN /\ gpc[t] = "execute"
     /\ IF unusable[p] \/ desc.completion_sub = MaxSubmission
          THEN /\ unusable' = [unusable EXCEPT ![p] = TRUE]
               /\ result' = [result EXCEPT ![t] = Error]
               /\ GpuGoto(t, "unlock") /\ UNCHANGED sub
          ELSE /\ sub' = [sub EXCEPT ![t] = desc.completion_sub + 1]
               /\ GpuGoto(t, "request") /\ UNCHANGED <<unusable, result>>
     /\ UNCHANGED <<trapped, flock, desc, doorbell, device, begun, nth, seen, mixed, abandoned>>

Request(t) ==       \* the request half; the completion half keeps its old content
  /\ gpc[t] = "request"
  /\ desc' = [desc EXCEPT !.request = Me(t), !.request_sub = sub[t]]
  /\ GpuGoto(t, "ring")
  /\ UNCHANGED <<trapped, flock, doorbell, device, unusable, begun, nth, sub, seen, result, mixed, abandoned>>

Ring(t) ==
  /\ gpc[t] = "ring" /\ doorbell' = TRUE /\ GpuGoto(t, "poll")
  /\ UNCHANGED <<trapped, flock, desc, device, unusable, begun, nth, sub, seen, result, mixed, abandoned>>

\* One turn of the polling loop loads the status first and compares the
\* submission number after it.
Poll(t) ==
  /\ gpc[t] = "poll" /\ seen' = [seen EXCEPT ![t] = desc.status] /\ GpuGoto(t, "match")
  /\ UNCHANGED <<trapped, flock, desc, doorbell, device, unusable, begun, nth, sub, result, mixed, abandoned>>

Completed_Bug(t) == seen[t] \in {"COMPLETE", "ERROR"}

Completed(t) == seen[t] \in {"COMPLETE", "ERROR"} /\ desc.completion_sub = sub[t]

PollMatch(t) ==
  /\ gpc[t] = "match" /\ Completed(t)
  /\ unusable' = IF seen[t] = "ERROR" THEN [unusable EXCEPT ![ProcessOf[t]] = TRUE] ELSE unusable
  /\ result' = [result EXCEPT ![t] = desc.results]
  /\ GpuGoto(t, "unlock")
  /\ UNCHANGED <<trapped, flock, desc, doorbell, device, begun, nth, sub, seen, mixed, abandoned>>

PollAgain(t) ==
  /\ gpc[t] = "match" /\ ~Completed(t) /\ GpuGoto(t, "poll")
  /\ UNCHANGED <<trapped, flock, desc, doorbell, device, unusable, begun, nth, sub, seen, result, mixed, abandoned>>

\* 60 seconds: the transport is unusable for this process from here on.
PollTimeout(t) ==
  /\ gpc[t] = "match" /\ ~Completed(t)
  /\ unusable' = [unusable EXCEPT ![ProcessOf[t]] = TRUE]
  /\ result' = [result EXCEPT ![t] = Error] 
  /\ abandoned' = abandoned \cup {ProcessOf[t]}
  /\ GpuGoto(t, "unlock")
  /\ UNCHANGED <<trapped, flock, desc, doorbell, device, begun, nth, sub, seen, mixed>>

CmdUnlock_Bug(t) ==
  /\ gpc[t] = "unlock" /\ GpuGoto(t, "idle")
  /\ flock' = IF flock = ProcessOf[t] /\ result[t] # Error THEN NoProcess ELSE flock
  /\ UNCHANGED <<trapped, desc, doorbell, device, unusable, begun, nth, sub, seen, result, mixed, abandoned>>

CmdUnlock(t) ==
  /\ gpc[t] = "unlock" /\ GpuGoto(t, "idle")
  /\ flock' = IF flock = ProcessOf[t] THEN NoProcess ELSE flock
  /\ UNCHANGED <<trapped, desc, doorbell, device, unusable, begun, nth, sub, seen, result, mixed, abandoned>>
-----------------------------------------------------------------------------
(* The device                                                              *)

\* The command is what the parameters say, when they belong to the request.
DeviceTake ==
  /\ device.at = "idle" /\ doorbell
  /\ device' = [at |-> "sub", sub |-> desc.request_sub,
                cmd |-> IF desc.params = desc.request THEN desc.request ELSE Error]
  /\ IF trapped THEN doorbell' = FALSE ELSE UNCHANGED doorbell
  /\ UNCHANGED <<trapped, flock, desc, unusable, gpc, begun, nth, sub, seen, result, mixed, abandoned>>

DeviceComplete ==   \* one step
  /\ device.at = "sub" /\ trapped
  /\ \E status \in {"COMPLETE", "ERROR"} :
       desc' = [desc EXCEPT !.completion_sub = device.sub, !.status = status, !.results = device.cmd]
  /\ device' = Resting
  /\ UNCHANGED <<trapped, flock, doorbell, unusable, gpc, begun, nth, sub, seen, result, mixed, abandoned>>

DeviceStore ==      \* complete_command: number, results, doorbell, status
  /\ ~trapped
  /\ \/ /\ device.at = "sub" /\ desc' = [desc EXCEPT !.completion_sub = device.sub]
        /\ device' = [device EXCEPT !.at = "results"] /\ UNCHANGED doorbell
     \/ /\ device.at = "results" /\ desc' = [desc EXCEPT !.results = device.cmd]
        /\ device' = [device EXCEPT !.at = "status"] /\ doorbell' = FALSE
     \/ /\ device.at = "status" /\ device' = Resting /\ UNCHANGED doorbell
        /\ \E status \in {"COMPLETE", "ERROR"} : desc' = [desc EXCEPT !.status = status]
  /\ UNCHANGED <<trapped, flock, unusable, gpc, begun, nth, sub, seen, result, mixed, abandoned>>

CommandStep(t) ==
  \/ CmdLock(t) \/ WriteParams(t) \/ Execute(t) \/ Request(t) \/ Ring(t)
  \/ Poll(t) \/ PollMatch(t) \/ PollAgain(t) \/ PollTimeout(t) \/ CmdUnlock(t)
GpuNext ==
  \/ \E t \in GpuThreads : Begin(t) \/ CommandStep(t)
  \/ DeviceTake \/ DeviceComplete \/ DeviceStore
GpuSpec == GpuInit /\ [][GpuNext]_gpuVars

\* The lock goes to whoever waits, a running thread goes on, and the clock ends
\* a poll that never matches.
GpuFairness ==
  \A t \in GpuThreads : WF_gpuVars(CommandStep(t)) /\ SF_gpuVars(PollTimeout(t))
-----------------------------------------------------------------------------
\* Every variable has its type.
GpuTypeOK ==
  /\ flock \in Processes \cup {NoProcess} /\ doorbell \in BOOLEAN
  /\ desc.completion_sub \in 0 .. MaxSubmission /\ desc.request_sub \in 0 .. MaxSubmission
  /\ desc.status \in {"EMPTY", "COMPLETE", "ERROR"}
  /\ desc.results \in Commands \cup {None, Error}
  /\ unusable \in [Processes -> BOOLEAN] /\ sub \in [GpuThreads -> 0 .. MaxSubmission]

\* "Multiple processes sharing the same BAR2 MMIO registers must serialize
\* their full command sequences (write params, write cmd, poll status, read
\* result)": threads of different processes are never inside at the same time,
\* as long as no process ran two threads through the lock.  And after a timeout
\* its process never submits again: it could not tell the completion it asks
\* for from the one that is still to come.
CommandsSerialized ==
  ~mixed =>
    /\ Cardinality(Inside) <= 1
    /\ \A t \in GpuThreads :
         gpc[t] \in {"request", "ring", "poll", "match"} => ProcessOf[t] \notin abandoned

OwnResults ==
  \A t \in GpuThreads : result[t] \in {None, Error, Me(t)}
    /\ (gpc[t] = "unlock" /\ result[t] = Error => unusable[ProcessOf[t]])

\* With that, before any command was abandoned at its timeout, and on a device
\* that completes in one step, the result a thread takes is what the device
\* computed from its own request and its own parameters.
ResultIsOwn ==
  trapped /\ ~mixed /\ abandoned = {} => OwnResults

\* The same of the device of test_cxl_gpu_transport.c, which stores the
\* submission number before the results and the status after them: the status
\* of the previous command is still COMPLETE, so the poll may match in between.
TestResultIsOwn ==
  ~mixed /\ abandoned = {} => OwnResults

\* Every command returns to its caller, whatever the device does.
CommandReturns ==
  \A t \in GpuThreads : gpc[t] = "lock" ~> gpc[t] = "idle"
=============================================================================
