---------------------------- MODULE SwitchBench ----------------------------
(***************************************************************************)
(* The two-host lock benchmark microbench/cxl_switch_lock_bench.c: hosts A *)
(* and B share CXL memory, meet in a handshake, and for every test A       *)
(* initialises the lock words, both take and release the lock Iters times  *)
(* around an unprotected counter increment, and A reports the counter.     *)
(* Barriers on one shared sequence word separate the stages.               *)
(*                                                                         *)
(* Memory is the one the flush protocol aims at: every load and store of a *)
(* word takes effect at the device, in program order (a store and its      *)
(* publish, or a pull and its load, are one step).  Lost updates between   *)
(* two hosts that write back different words of one cache line are outside *)
(* the model.  holder, generation, latencies and back-off are left out:    *)
(* no step of these tests reads them.                                      *)
(***************************************************************************)
EXTENDS Naturals, Sequences

CONSTANTS
    Tests,      \* the lock tests main runs, in order: a sequence of LockKinds
    Iters,      \* iterations of the lock loop
    TicketMod,  \* tickets are machine words: 2^32 in the code
    StaleSeq    \* what an earlier run may have left in ctrl.seq

LockKinds == {"bakery", "cas", "ownership"}

ASSUME BenchAssumption ==
    /\ Tests \in Seq(LockKinds)
    /\ Iters \in Nat
    /\ TicketMod \in Nat
    /\ 2 * Iters < TicketMod
    /\ StaleSeq \subseteq Nat

RoleA == 0
RoleB == 1
Hosts == {RoleA, RoleB}
Other(h) == 1 - h
Free == 2       \* OWNER_FREE

VARIABLES
    magic, ready, seq,           \* ctrl_block_t
    choosing, ticket,            \* bakery_t
    lock,                        \* cas_lock_t.lock
    owner,                       \* ownership_lock_t.owner
    counter,                     \* shared_counter_t
    hpc,                         \* where each host is in its program
    stage,                       \* barriers each host has left behind
    iter,                        \* the loop variable i of each host
    tmp,                         \* ot, v or target of each host
    violations, verdict,         \* what the two hosts print
    wiped, late, stolen          \* history: the three races the code allows

ctrlVars  == <<magic, ready, seq, wiped, late>>
lockVars  == <<choosing, ticket, lock, owner, stolen>>
countVars == <<counter, violations, verdict>>
benchVars == <<ctrlVars, lockVars, countVars, hpc, stage, iter, tmp>>

----------------------------------------------------------------------------
(* Stage 0 ends with the barrier before the first test; test t then takes  *)
(* three stages: initialise, loop, report.                                 *)

LastStage == 3 * Len(Tests) + 1
TestOf(s) == (s + 2) \div 3
InitStage(s)   == s > 0 /\ s < LastStage /\ s % 3 = 1
LoopStage(s)   == s > 0 /\ s % 3 = 2
ReportStage(s) == s > 0 /\ s % 3 = 0
Kind(s) == Tests[TestOf(s)]

Entry(s) ==     \* where a host goes on after a barrier
    IF s = LastStage THEN "done"
    ELSE IF InitStage(s) THEN "init"
    ELSE IF LoopStage(s) THEN "loop" ELSE "report"

Goto(h, l) == hpc' = [hpc EXCEPT ![h] = l]
EnterBarrier(h) == Goto(h, IF h = RoleA THEN "b_add" ELSE "b_odd")
LeaveBarrier(h) ==     \* the next loop starts at 0
    /\ stage' = [stage EXCEPT ![h] = @ + 1]
    /\ iter' = [iter EXCEPT ![h] = 0]
    /\ Goto(h, Entry(stage[h] + 1))

BenchInit ==
    /\ magic \in BOOLEAN
    /\ ready \in {[h \in Hosts |-> r] : r \in BOOLEAN}
    /\ seq \in StaleSeq
    /\ choosing = [h \in Hosts |-> FALSE] /\ ticket = [h \in Hosts |-> 0]
    /\ lock = FALSE /\ owner = Free /\ counter = 0
    /\ hpc = [h \in Hosts |-> IF h = RoleA THEN "clear" ELSE "ready"]
    /\ stage = [h \in Hosts |-> 0]
    /\ iter = [h \in Hosts |-> 0]
    /\ tmp = [h \in Hosts |-> 0]
    /\ violations = [h \in Hosts |-> 0]
    /\ verdict = [t \in 1..Len(Tests) |-> "none"]
    /\ wiped = FALSE /\ late = FALSE /\ stolen = FALSE

----------------------------------------------------------------------------
(* handshake                                                               *)

Clear ==        \* A zeroes the control block, whatever B already wrote there
    /\ hpc[RoleA] = "clear"
    /\ magic' = FALSE /\ ready' = [h \in Hosts |-> FALSE] /\ seq' = 0
    /\ wiped' = (hpc[RoleB] # "ready")
    /\ Goto(RoleA, "ready")
    /\ UNCHANGED <<late, lockVars, countVars, stage, iter, tmp>>

Ready(h) ==
    /\ hpc[h] = "ready"
    /\ ready' = [ready EXCEPT ![h] = TRUE]
    /\ Goto(h, "wait")
    /\ UNCHANGED <<magic, seq, wiped, late, lockVars, countVars, stage, iter, tmp>>

WaitReady(h) ==
    /\ hpc[h] = "wait" /\ ready[Other(h)]
    /\ Goto(h, "magic")
    /\ UNCHANGED <<ctrlVars, lockVars, countVars, stage, iter, tmp>>

Magic(h) ==     \* A stores it, B waits for it
    /\ hpc[h] = "magic"
    /\ IF h = RoleA THEN magic' = TRUE ELSE magic /\ UNCHANGED magic
    /\ EnterBarrier(h)
    /\ UNCHANGED <<ready, seq, wiped, late, lockVars, countVars, stage, iter, tmp>>

----------------------------------------------------------------------------
(* barrier                                                                 *)

BarrierOdd ==   \* B: wait for A to increment to odd
    /\ hpc[RoleB] = "b_odd" /\ seq % 2 = 1
    /\ Goto(RoleB, "b_add")
    /\ UNCHANGED <<ctrlVars, lockVars, countVars, stage, iter, tmp>>

BarrierAdd(h) ==
    /\ hpc[h] = "b_add"
    /\ seq' = seq + 1
    /\ IF h = RoleA THEN Goto(h, "b_target") /\ UNCHANGED <<stage, iter>> ELSE LeaveBarrier(h)
    /\ UNCHANGED <<magic, ready, wiped, late, lockVars, countVars, tmp>>

BarrierTarget ==    \* A reads its target after it published its increment
    /\ hpc[RoleA] = "b_target"
    /\ tmp' = [tmp EXCEPT ![RoleA] = seq]
    /\ late' = (late \/ seq % 2 = 0)
    /\ Goto(RoleA, "b_spin")
    /\ UNCHANGED <<magic, ready, seq, wiped, lockVars, countVars, stage, iter>>

BarrierSpin_Bug ==
    /\ hpc[RoleA] = "b_spin" /\ seq >= tmp[RoleA]
    /\ tmp' = [tmp EXCEPT ![RoleA] = 0]
    /\ LeaveBarrier(RoleA)
    /\ UNCHANGED <<ctrlVars, lockVars, countVars>>

BarrierSpin ==
    /\ hpc[RoleA] = "b_spin" /\ seq >= tmp[RoleA] + 1
    /\ tmp' = [tmp EXCEPT ![RoleA] = 0]
    /\ LeaveBarrier(RoleA)
    /\ UNCHANGED <<ctrlVars, lockVars, countVars>>

----------------------------------------------------------------------------
(* the test runners                                                        *)

InitTest_Bug(h) ==
    /\ hpc[h] = "init"
    /\ IF h = RoleA
         THEN /\ counter' = counter
              /\ choosing' = IF Kind(stage[h]) = "bakery" THEN [g \in Hosts |-> FALSE] ELSE choosing
              /\ ticket' = IF Kind(stage[h]) = "bakery" THEN [g \in Hosts |-> 0] ELSE ticket
              /\ lock' = IF Kind(stage[h]) = "cas" THEN FALSE ELSE lock
              /\ owner' = IF Kind(stage[h]) = "ownership" THEN Free ELSE owner
         ELSE UNCHANGED <<counter, choosing, ticket, lock, owner>>
    /\ EnterBarrier(h)
    /\ UNCHANGED <<ctrlVars, stolen, violations, verdict, stage, iter, tmp>>

InitTest(h) ==
    /\ hpc[h] = "init"
    /\ IF h = RoleA
         THEN /\ counter' = 0
              /\ choosing' = IF Kind(stage[h]) = "bakery" THEN [g \in Hosts |-> FALSE] ELSE choosing
              /\ ticket' = IF Kind(stage[h]) = "bakery" THEN [g \in Hosts |-> 0] ELSE ticket
              /\ lock' = IF Kind(stage[h]) = "cas" THEN FALSE ELSE lock
              /\ owner' = IF Kind(stage[h]) = "ownership" THEN Free ELSE owner
         ELSE UNCHANGED <<counter, choosing, ticket, lock, owner>>
    /\ EnterBarrier(h)
    /\ UNCHANGED <<ctrlVars, stolen, violations, verdict, stage, iter, tmp>>

FirstStep == [k \in LockKinds |->
    CASE k = "bakery" -> "choose" [] k = "cas" -> "cas" [] k = "ownership" -> "free"]

Loop(h) ==
    /\ hpc[h] = "loop"
    /\ IF iter[h] < Iters
         THEN Goto(h, FirstStep[Kind(stage[h])])
         ELSE EnterBarrier(h)
    /\ UNCHANGED <<ctrlVars, lockVars, countVars, stage, iter, tmp>>

CsRead(h) ==
    /\ hpc[h] = "cs"
    /\ tmp' = [tmp EXCEPT ![h] = counter]
    /\ Goto(h, "cs_write")
    /\ UNCHANGED <<ctrlVars, lockVars, countVars, stage, iter>>

CsWrite(h) ==
    /\ hpc[h] = "cs_write"
    /\ counter' = tmp[h] + 1
    /\ IF Kind(stage[h]) = "bakery"
         THEN Goto(h, "check") /\ UNCHANGED tmp
         ELSE Goto(h, "unlock") /\ tmp' = [tmp EXCEPT ![h] = 0]
    /\ UNCHANGED <<ctrlVars, lockVars, violations, verdict, stage, iter>>

Check(h) ==     \* only run_q1_bakery reads its increment back
    /\ hpc[h] = "check"
    /\ violations' = [violations EXCEPT ![h] = IF counter # tmp[h] + 1 THEN @ + 1 ELSE @]
    /\ tmp' = [tmp EXCEPT ![h] = 0]
    /\ Goto(h, "unlock")
    /\ UNCHANGED <<ctrlVars, lockVars, counter, verdict, stage, iter>>

Report(h) ==
    /\ hpc[h] = "report"
    /\ verdict' = IF h = RoleA
                    THEN [verdict EXCEPT ![TestOf(stage[h])] =
                             IF counter = 2 * Iters THEN "PASS" ELSE "FAIL"]
                    ELSE verdict
    /\ EnterBarrier(h)
    /\ UNCHANGED <<ctrlVars, lockVars, counter, violations, stage, iter, tmp>>

----------------------------------------------------------------------------
(* bakery_lock and bakery_unlock                                           *)

BakeryChoose(h) ==
    /\ hpc[h] = "choose"
    /\ choosing' = [choosing EXCEPT ![h] = TRUE]
    /\ Goto(h, "look")
    /\ UNCHANGED <<ctrlVars, ticket, lock, owner, stolen, countVars, stage, iter, tmp>>

BakeryLook(h) ==
    /\ hpc[h] = "look"
    /\ tmp' = [tmp EXCEPT ![h] = ticket[Other(h)]]
    /\ Goto(h, "take")
    /\ UNCHANGED <<ctrlVars, lockVars, countVars, stage, iter>>

BakeryTake(h) ==
    /\ hpc[h] = "take"
    /\ ticket' = [ticket EXCEPT ![h] = (tmp[h] + 1) % TicketMod]
    /\ tmp' = [tmp EXCEPT ![h] = 0]
    /\ Goto(h, "chosen")
    /\ UNCHANGED <<ctrlVars, choosing, lock, owner, stolen, countVars, stage, iter>>

BakeryChosen_Bug(h) ==
    /\ hpc[h] = "chosen"
    /\ UNCHANGED choosing
    /\ Goto(h, "wait_choice")
    /\ UNCHANGED <<ctrlVars, ticket, lock, owner, stolen, countVars, stage, iter, tmp>>

BakeryChosen(h) ==
    /\ hpc[h] = "chosen"
    /\ choosing' = [choosing EXCEPT ![h] = FALSE]
    /\ Goto(h, "wait_choice")
    /\ UNCHANGED <<ctrlVars, ticket, lock, owner, stolen, countVars, stage, iter, tmp>>

BakeryWaitChoice(h) ==
    /\ hpc[h] = "wait_choice" /\ ~choosing[Other(h)]
    /\ Goto(h, "wait_turn")
    /\ UNCHANGED <<ctrlVars, lockVars, countVars, stage, iter, tmp>>

OtherFirst_Bug(h) ==
    LET ti == ticket[h]  tj == ticket[Other(h)]
    IN tj # 0 /\ tj < ti

OtherFirst(h) ==
    LET ti == ticket[h]  tj == ticket[Other(h)]
    IN tj # 0 /\ (tj < ti \/ (tj = ti /\ Other(h) < h))

BakeryWaitTurn(h) ==
    /\ hpc[h] = "wait_turn" /\ ~OtherFirst(h)
    /\ Goto(h, "cs")
    /\ UNCHANGED <<ctrlVars, lockVars, countVars, stage, iter, tmp>>

----------------------------------------------------------------------------
(* cas_lock_raw and cas_lock_flush, which differ in their flushes only     *)

CasLock(h) ==
    /\ hpc[h] = "cas" /\ ~lock
    /\ lock' = TRUE
    /\ Goto(h, "cs")
    /\ UNCHANGED <<ctrlVars, choosing, ticket, owner, stolen, countVars, stage, iter, tmp>>

----------------------------------------------------------------------------
(* ownership_lock                                                          *)

InCS(h) == hpc[h] \in {"cs", "cs_write", "check", "unlock"}

OwnershipFree(h) ==
    /\ hpc[h] = "free" /\ owner = Free
    /\ Goto(h, "claim")
    /\ UNCHANGED <<ctrlVars, lockVars, countVars, stage, iter, tmp>>

OwnershipClaim(h) ==    \* the other host may have confirmed meanwhile
    /\ hpc[h] = "claim"
    /\ owner' = h
    /\ stolen' = (stolen \/ InCS(Other(h)))
    /\ Goto(h, "confirm")
    /\ UNCHANGED <<ctrlVars, choosing, ticket, lock, countVars, stage, iter, tmp>>

OwnershipConfirm(h) ==
    /\ hpc[h] = "confirm"
    /\ Goto(h, IF owner = h THEN "cs" ELSE "free")
    /\ UNCHANGED <<ctrlVars, lockVars, countVars, stage, iter, tmp>>

\* bakery_unlock, cas_unlock_raw, cas_unlock_flush and ownership_unlock
Unlock(h) ==
    /\ hpc[h] = "unlock"
    /\ ticket' = IF Kind(stage[h]) = "bakery" THEN [ticket EXCEPT ![h] = 0] ELSE ticket
    /\ lock' = IF Kind(stage[h]) = "cas" THEN FALSE ELSE lock
    /\ owner' = IF Kind(stage[h]) = "ownership" THEN Free ELSE owner
    /\ iter' = [iter EXCEPT ![h] = @ + 1]
    /\ Goto(h, "loop")
    /\ UNCHANGED <<ctrlVars, choosing, stolen, countVars, stage, tmp>>

----------------------------------------------------------------------------
HostStep(h) ==
    \/ Ready(h) \/ WaitReady(h) \/ Magic(h) \/ BarrierAdd(h)
    \/ InitTest(h) \/ Loop(h) \/ CsRead(h) \/ CsWrite(h) \/ Check(h) \/ Report(h)
    \/ BakeryChoose(h) \/ BakeryLook(h) \/ BakeryTake(h) \/ BakeryChosen(h)
    \/ BakeryWaitChoice(h) \/ BakeryWaitTurn(h)
    \/ CasLock(h)
    \/ OwnershipFree(h) \/ OwnershipClaim(h) \/ OwnershipConfirm(h)
    \/ Unlock(h)
StepA == HostStep(RoleA) \/ Clear \/ BarrierTarget \/ BarrierSpin
StepB == HostStep(RoleB) \/ BarrierOdd

BenchNext == StepA \/ StepB
BenchSpec == BenchInit /\ [][BenchNext]_benchVars

\* Both hosts are running programs that only ever spin.
BenchFairness == WF_benchVars(StepA) /\ WF_benchVars(StepB)

----------------------------------------------------------------------------
(* Properties                                                              *)

BenchLabels == {"clear", "ready", "wait", "magic", "b_odd", "b_add", "b_target", "b_spin",
    "init", "loop", "report", "done", "choose", "look", "take", "chosen", "wait_choice",
    "wait_turn", "cas", "free", "claim", "confirm", "cs", "cs_write", "check", "unlock"}

\* Every variable has its type.
BenchTypeOK ==
    /\ magic \in BOOLEAN /\ ready \in [Hosts -> BOOLEAN] /\ seq \in Nat
    /\ choosing \in [Hosts -> BOOLEAN] /\ ticket \in [Hosts -> 0 .. TicketMod - 1]
    /\ lock \in BOOLEAN /\ owner \in Hosts \cup {Free} /\ counter \in Nat
    /\ hpc \in [Hosts -> BenchLabels]
    /\ stage \in [Hosts -> 0 .. LastStage]
    /\ iter \in [Hosts -> 0 .. Iters] /\ tmp \in [Hosts -> Nat]
    /\ violations \in [Hosts -> Nat]
    /\ verdict \in [1 .. Len(Tests) -> {"none", "PASS", "FAIL"}]
    /\ wiped \in BOOLEAN /\ late \in BOOLEAN /\ stolen \in BOOLEAN

\* The two hosts are never both between acquiring and releasing a lock, in any
\* test, however the handshake and the barriers went; for the ownership lock
\* this needs that no host claimed the word after the other had confirmed it.
BenchMutualExclusion == stolen \/ ~(InCS(RoleA) /\ InCS(RoleB))

\* "Check for concurrent access (should never happen under mutex)": the bakery
\* test counts no violation, and the counter that A reads after the barrier is
\* the sum of both hosts' increments, so that A reports PASS for every test
\* in which no confirmed ownership was overwritten.
CountsEveryIncrement ==
    /\ \A h \in Hosts : violations[h] = 0
    /\ \A t \in 1 .. Len(Tests) : verdict[t] = "FAIL" => Tests[t] = "ownership" /\ stolen

\* A host that leaves the barrier of a stage finds the other at most one barrier
\* away, and A never leaves one that B has not reached.
BarrierSeparates ==
    /\ stage[RoleA] <= stage[RoleB]
    /\ ~wiped => stage[RoleB] <= stage[RoleA] + 1

\* Once A has cleared the control block, fair scheduling lets both hosts finish
\* the whole program, unless the clearing came after B had started or A read its
\* barrier target after B's increment: the two ways the benchmark can hang.
BenchFinishes ==
    hpc[RoleA] = "ready" ~> (wiped \/ late \/ \A h \in Hosts : hpc[h] = "done")
=============================================================================
