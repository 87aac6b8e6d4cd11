------------------------- MODULE SwitchBenchProofs -------------------------
(***************************************************************************)
(* The benchmark's locks exclude each other and its counters are exact,    *)
(* for every sequence of tests, every iteration count and every ticket     *)
(* width that 2 * Iters does not exceed.                                   *)
(***************************************************************************)
EXTENDS SwitchBench, TLAPS

Waiting == hpc[RoleA] \in {"b_target", "b_spin"}

\* The handshake: A forgets B only by clearing late, and then never gets on.
HandshakeInv ==
    /\ hpc[RoleA] = "clear" => ~wiped /\ (stage[RoleB] = 0 \/ (stage[RoleB] = 1 /\ seq % 2 = 0))
    /\ wiped => hpc[RoleA] \in {"ready", "wait"} /\ ~ready[RoleB] /\ hpc[RoleB] # "ready"

\* The sequence word counts the barrier arrivals of both hosts.
BarrierInv ==
    /\ ~wiped /\ hpc[RoleB] = "b_add" => seq % 2 = 1
    /\ hpc[RoleA] # "clear" /\ ~wiped =>
        /\ ~Waiting => seq = 2 * stage[RoleA] /\ stage[RoleB] = stage[RoleA]
        /\ Waiting => \/ seq = 2 * stage[RoleA] + 1 /\ stage[RoleB] = stage[RoleA]
                      \/ seq = 2 * stage[RoleA] + 2 /\ stage[RoleB] = stage[RoleA] + 1
        /\ hpc[RoleA] = "b_spin" => tmp[RoleA] >= 2 * stage[RoleA] + 1

BakeryLabels == {"choose", "look", "take", "chosen", "wait_choice", "wait_turn"}
OwnLabels == {"free", "claim", "confirm"}
CsLabels == {"cs", "cs_write", "check", "unlock"}
LockLabels == BakeryLabels \cup {"cas"} \cup OwnLabels \cup CsLabels

\* Where host h can be in stage s with loop variable i.
ProgramOK(h, l, s, i) ==
    /\ l \in {"clear", "b_target", "b_spin"} => h = RoleA
    /\ l \in {"clear", "ready", "wait", "magic"} => s = 0
    /\ l = "b_odd" => h = RoleB
    /\ l = "done" <=> s = LastStage
    /\ l = "init" => InitStage(s)
    /\ l = "report" => ReportStage(s)
    /\ l \in LockLabels \cup {"loop"} => LoopStage(s)
    /\ l \in LockLabels => i < Iters
    /\ l \in BakeryLabels \cup {"check"} => Kind(s) = "bakery"
    /\ l = "cas" => Kind(s) = "cas"
    /\ l \in OwnLabels => Kind(s) = "ownership"
    /\ LoopStage(s) /\ l \in {"b_odd", "b_add", "b_target", "b_spin"} => i = Iters

ProgramInv == \A h \in Hosts : ProgramOK(h, hpc[h], stage[h], iter[h])

\* A has initialised the words of its current test.
Live ==
    /\ hpc[RoleA] # "clear" /\ ~wiped
    /\ \/ InitStage(stage[RoleA]) /\ hpc[RoleA] \in {"b_add", "b_target", "b_spin"}
       \/ LoopStage(stage[RoleA])
       \/ ReportStage(stage[RoleA]) /\ hpc[RoleA] = "report"

TakenLabels == {"chosen", "wait_choice", "wait_turn"} \cup CsLabels

\* Acquisitions a host has begun and increments it has made in its test, from
\* its label l, stage s and loop variable i.
Tally(labels, l, s, i) ==
    IF LoopStage(s) THEN IF l \in labels THEN i + 1 ELSE i
    ELSE IF ReportStage(s) THEN Iters ELSE 0
Begun(h) == Tally(TakenLabels, hpc[h], stage[h], iter[h])
Added(h) == Tally({"check", "unlock"}, hpc[h], stage[h], iter[h])

\* Tickets never wrap, and who is in the critical section has the lower one.
BakeryAt(h) ==
    /\ choosing[h] <=> hpc[h] \in {"look", "take", "chosen"}
    /\ ticket[h] # 0 <=> hpc[h] \in TakenLabels
    /\ ticket[h] <= Begun(RoleA) + Begun(RoleB)
    /\ hpc[h] = "take" => tmp[h] <= Begun(RoleA) + Begun(RoleB)
    /\ hpc[h] \in CsLabels \cup {"wait_turn"} /\ hpc[Other(h)] = "take"
           => tmp[Other(h)] >= ticket[h]
    /\ hpc[h] \in CsLabels => ~OtherFirst(h)

BakeryInv ==
    Live /\ Kind(stage[RoleA]) = "bakery" => \A h \in Hosts : BakeryAt(h)

CasAt ==
    /\ lock <=> (InCS(RoleA) \/ InCS(RoleB))
    /\ ~(InCS(RoleA) /\ InCS(RoleB))
CasInv == Live /\ Kind(stage[RoleA]) = "cas" => CasAt

OwnershipAt == stolen \/ \A h \in Hosts : InCS(h) => owner = h
OwnershipInv == Live /\ Kind(stage[RoleA]) = "ownership" => OwnershipAt

Sound == Kind(stage[RoleA]) # "ownership" \/ ~stolen

\* The counter is what both hosts added, and nobody else moves it under a host
\* that is between its load and its check.
SumInv == Live /\ Sound => counter = Added(RoleA) + Added(RoleB)
LocalAt == \A h \in Hosts : /\ hpc[h] = "cs_write" => tmp[h] = counter
                            /\ hpc[h] = "check" => counter = tmp[h] + 1
LocalInv == wiped \/ (Live /\ Sound) => LocalAt

BenchInv ==
    /\ BenchTypeOK /\ HandshakeInv /\ BarrierInv /\ ProgramInv
    /\ BakeryInv /\ CasInv /\ OwnershipInv /\ SumInv /\ LocalInv /\ CountsEveryIncrement

----------------------------------------------------------------------------
\* The stages of main: the three stages of a test follow each other and run
\* the same test.
LEMMA StageFacts ==
    ASSUME NEW s \in 0 .. LastStage
    PROVE  /\ LastStage \in Nat /\ LastStage > 0 /\ Len(Tests) \in Nat
           /\ InitStage(s) => s < LastStage /\ LoopStage(s + 1) /\ ~LoopStage(s) /\ ~ReportStage(s)
           /\ LoopStage(s) => /\ s < LastStage /\ s >= 2 /\ ReportStage(s + 1) /\ ~LoopStage(s + 1)
                              /\ s + 1 < LastStage /\ InitStage(s - 1) /\ ~ReportStage(s)
                              /\ ~InitStage(s + 1) /\ ~InitStage(s) /\ Kind(s) = Kind(s - 1)
           /\ ReportStage(s) => s < LastStage /\ s >= 3 /\ ~LoopStage(s + 1) /\ ~ReportStage(s + 1)
                              /\ ~LoopStage(s)
           /\ s = 0 => ~InitStage(s) /\ ~LoopStage(s) /\ ~ReportStage(s) /\ ~LoopStage(s + 1)
           /\ s < LastStage => s = 0 \/ InitStage(s) \/ LoopStage(s) \/ ReportStage(s)
           /\ s < LastStage /\ s > 0 => Kind(s) \in LockKinds /\ TestOf(s) \in 1 .. Len(Tests)
           /\ InitStage(s) \/ LoopStage(s) => Kind(s + 1) = Kind(s)
<1>1. Len(Tests) \in Nat /\ Tests \in [1 .. Len(Tests) -> LockKinds]
  BY BenchAssumption
<1>2. /\ LastStage \in Nat /\ LastStage > 0
      /\ InitStage(s) => s < LastStage /\ LoopStage(s + 1) /\ ~LoopStage(s) /\ ~ReportStage(s)
      /\ LoopStage(s) => /\ s < LastStage /\ s >= 2 /\ ReportStage(s + 1) /\ ~LoopStage(s + 1)
                         /\ s + 1 < LastStage /\ InitStage(s - 1) /\ ~ReportStage(s)
                         /\ ~InitStage(s + 1) /\ ~InitStage(s)
      /\ ReportStage(s) => s < LastStage /\ s >= 3 /\ ~LoopStage(s + 1) /\ ~ReportStage(s + 1)
                         /\ ~LoopStage(s)
      /\ s = 0 => ~InitStage(s) /\ ~LoopStage(s) /\ ~ReportStage(s) /\ ~LoopStage(s + 1)
      /\ s < LastStage => s = 0 \/ InitStage(s) \/ LoopStage(s) \/ ReportStage(s)
  BY <1>1, SMT DEF LastStage, InitStage, LoopStage, ReportStage
<1>3. s < LastStage /\ s > 0 => TestOf(s) \in 1 .. Len(Tests)
  BY <1>1, SMT DEF LastStage, TestOf
<1>4. /\ LoopStage(s) => TestOf(s) = TestOf(s - 1)
      /\ InitStage(s) \/ LoopStage(s) => TestOf(s + 1) = TestOf(s)
  BY <1>1, SMT DEF LastStage, InitStage, LoopStage, TestOf
<1>. QED
  BY <1>1, <1>2, <1>3, <1>4, Zenon DEF Kind

\* A step of host h.
Step(h) ==
    \/ HostStep(h)
    \/ h = RoleA /\ (Clear \/ BarrierTarget \/ BarrierSpin)
    \/ h = RoleB /\ BarrierOdd

\* Every step is a step of one host.
LEMMA NextIsStep == BenchNext => \E h \in Hosts : Step(h)
  BY Zenon DEF BenchNext, StepA, StepB, Step, Hosts, RoleA, RoleB

\* The stage of each host and the lock of its test, for the leaves below.
LEMMA HostFacts ==
    ASSUME BenchInv, NEW h \in Hosts
    PROVE  /\ stage[h] \in 0 .. LastStage /\ LastStage \in Nat
           /\ hpc[h] \in BenchLabels
           /\ ProgramOK(h, hpc[h], stage[h], iter[h])
           /\ LoopStage(stage[h]) => Kind(stage[h]) \in LockKinds
           /\ hpc[h] = "loop" => FirstStep[Kind(stage[h])] \in {"choose", "cas", "free"}
<1>1. stage[h] \in 0 .. LastStage /\ hpc[h] \in BenchLabels /\ ProgramOK(h, hpc[h], stage[h], iter[h])
  BY Zenon DEF BenchInv, BenchTypeOK, ProgramInv
<1>2. LoopStage(stage[h]) => Kind(stage[h]) \in LockKinds
  BY <1>1, StageFacts
<1>3. hpc[h] = "loop" => LoopStage(stage[h])
  BY <1>1, Zenon DEF ProgramOK
<1>. QED
  BY <1>1, <1>2, <1>3, StageFacts, Zenon DEF FirstStep, LockKinds

\* A step moves one host only.
LEMMA FrameStep ==
    ASSUME BenchInv, NEW h \in Hosts, Step(h)
    PROVE  \A g \in Hosts \ {h} : hpc'[g] = hpc[g] /\ stage'[g] = stage[g] /\ iter'[g] = iter[g] /\ tmp'[g] = tmp[g]
<1>. USE SMTT(40) DEF Goto, Hosts, RoleA, RoleB, Other, ctrlVars, lockVars, countVars
<1>1. CASE Ready(h)
  BY <1>1, Zenon DEF Ready, BenchInv, BenchTypeOK
<1>2. CASE WaitReady(h)
  BY <1>2, Zenon DEF WaitReady, BenchInv, BenchTypeOK
<1>3. CASE Magic(h)
  BY <1>3, Zenon DEF Magic, EnterBarrier, BenchInv, BenchTypeOK
<1>4. CASE BarrierAdd(h)
  BY <1>4, Zenon DEF BarrierAdd, LeaveBarrier, Entry, BenchInv, BenchTypeOK
<1>5. CASE InitTest(h)
  BY <1>5, Zenon DEF InitTest, EnterBarrier, BenchInv, BenchTypeOK
<1>6. CASE Loop(h)
  BY <1>6, Zenon DEF Loop, EnterBarrier, BenchInv, BenchTypeOK
<1>7. CASE CsRead(h)
  BY <1>7, Zenon DEF CsRead, BenchInv, BenchTypeOK
<1>8. CASE CsWrite(h)
  BY <1>8, Zenon DEF CsWrite, BenchInv, BenchTypeOK
<1>9. CASE Check(h)
  BY <1>9, Zenon DEF Check, BenchInv, BenchTypeOK
<1>10. CASE Report(h)
  BY <1>10, Zenon DEF Report, EnterBarrier, BenchInv, BenchTypeOK
<1>11. CASE BakeryChoose(h)
  BY <1>11, Zenon DEF BakeryChoose, BenchInv, BenchTypeOK
<1>12. CASE BakeryLook(h)
  BY <1>12, Zenon DEF BakeryLook, BenchInv, BenchTypeOK
<1>13. CASE BakeryTake(h)
  BY <1>13, Zenon DEF BakeryTake, BenchInv, BenchTypeOK
<1>14. CASE BakeryChosen(h)
  BY <1>14, Zenon DEF BakeryChosen, BenchInv, BenchTypeOK
<1>15. CASE BakeryWaitChoice(h)
  BY <1>15, Zenon DEF BakeryWaitChoice, BenchInv, BenchTypeOK
<1>16. CASE BakeryWaitTurn(h)
  BY <1>16, Zenon DEF BakeryWaitTurn, BenchInv, BenchTypeOK
<1>17. CASE CasLock(h)
  BY <1>17, Zenon DEF CasLock, BenchInv, BenchTypeOK
<1>18. CASE OwnershipFree(h)
  BY <1>18, Zenon DEF OwnershipFree, BenchInv, BenchTypeOK
<1>19. CASE OwnershipClaim(h)
  BY <1>19, Zenon DEF OwnershipClaim, BenchInv, BenchTypeOK
<1>20. CASE OwnershipConfirm(h)
  BY <1>20, Zenon DEF OwnershipConfirm, BenchInv, BenchTypeOK
<1>21. CASE Unlock(h)
  BY <1>21, Zenon DEF Unlock, BenchInv, BenchTypeOK
<1>22. CASE h = RoleA /\ Clear
  BY <1>22, Zenon DEF Clear, BenchInv, BenchTypeOK
<1>23. CASE h = RoleA /\ BarrierTarget
  BY <1>23, Zenon DEF BarrierTarget, BenchInv, BenchTypeOK
<1>24. CASE h = RoleA /\ BarrierSpin
  BY <1>24, Zenon DEF BarrierSpin, LeaveBarrier, Entry, BenchInv, BenchTypeOK
<1>25. CASE h = RoleB /\ BarrierOdd
  BY <1>25, Zenon DEF BarrierOdd, BenchInv, BenchTypeOK
<1>. QED
  BY <1>1, <1>2, <1>3, <1>4, <1>5, <1>6, <1>7, <1>8, <1>9, <1>10, <1>11, <1>12, <1>13, <1>14, <1>15, <1>16, <1>17, <1>18, <1>19, <1>20, <1>21, <1>22, <1>23, <1>24, <1>25, Zenon DEF Step, HostStep

\* Every step keeps the types.
LEMMA TypeStep ==
    ASSUME BenchInv, NEW h \in Hosts, Step(h)
    PROVE  BenchTypeOK'
<1>. USE SMTT(40) DEF Goto, Hosts, RoleA, RoleB, Other, ctrlVars, lockVars, countVars
<1>a. stage \in [Hosts -> 0 .. LastStage]
  BY ZenonT(40) DEF BenchInv, BenchTypeOK
<1>b. iter \in [Hosts -> 0 .. Iters]
  BY ZenonT(40) DEF BenchInv, BenchTypeOK
<1>c. hpc \in [Hosts -> BenchLabels]
  BY ZenonT(40) DEF BenchInv, BenchTypeOK
<1>d. tmp \in [Hosts -> Nat]
  BY ZenonT(40) DEF BenchInv, BenchTypeOK
<1>1. CASE Ready(h)
  BY <1>1, BenchAssumption, ZenonT(40) DEF Ready, BenchInv, BenchTypeOK, BenchLabels, Free
<1>2. CASE WaitReady(h)
  BY <1>2, BenchAssumption, ZenonT(40) DEF WaitReady, BenchInv, BenchTypeOK, BenchLabels, Free
<1>3. CASE Magic(h)
  BY <1>3, BenchAssumption, ZenonT(40) DEF Magic, EnterBarrier, BenchInv, BenchTypeOK, BenchLabels, Free
<1>4. CASE BarrierAdd(h)
  <2>1. stage[h] \in 0 .. LastStage /\ stage[h] # LastStage /\ LastStage \in Nat
    BY <1>4, HostFacts, Zenon DEF BarrierAdd, ProgramOK
  <2>2. seq + 1 \in Nat
    BY DEF BenchInv, BenchTypeOK
  <2>3. stage[h] + 1 \in 0 .. LastStage
    BY <2>1
  <2>4. 0 \in 0 .. Iters
    BY BenchAssumption
  <2>5. Entry(stage[h] + 1) \in BenchLabels /\ "b_target" \in BenchLabels
    BY ZenonT(40) DEF Entry, BenchLabels
  <2>6. /\ stage' = stage \/ stage' = [stage EXCEPT ![h] = stage[h] + 1]
        /\ iter' = iter \/ iter' = [iter EXCEPT ![h] = 0]
        /\ \E l \in {"b_target", Entry(stage[h] + 1)} : hpc' = [hpc EXCEPT ![h] = l]
    BY <1>4, Zenon DEF BarrierAdd, LeaveBarrier
  <2>7. stage' \in [Hosts -> 0 .. LastStage]
    BY <1>a, <2>3, <2>6, ZenonT(40)
  <2>8. iter' \in [Hosts -> 0 .. Iters]
    BY <1>b, <2>4, <2>6, ZenonT(40)
  <2>9. hpc' \in [Hosts -> BenchLabels]
    BY <1>c, <2>5, <2>6, ZenonT(40)
  <2>. QED
    BY <1>4, <2>2, <2>7, <2>8, <2>9, ZenonT(40) DEF BarrierAdd, BenchInv, BenchTypeOK
<1>5. CASE InitTest(h)
  <2>1. choosing' \in [Hosts -> BOOLEAN]
    BY <1>5, ZenonT(40) DEF InitTest, BenchInv, BenchTypeOK
  <2>2. ticket' \in [Hosts -> 0 .. TicketMod - 1]
    <3>1. [g \in Hosts |-> 0] \in [Hosts -> 0 .. TicketMod - 1]
      BY BenchAssumption
    <3>. QED
      BY <1>5, <3>1, ZenonT(40) DEF InitTest, BenchInv, BenchTypeOK
  <2>3. lock' \in BOOLEAN
    BY <1>5, ZenonT(40) DEF InitTest, BenchInv, BenchTypeOK
  <2>4. owner' \in Hosts \cup {Free}
    BY <1>5, ZenonT(40) DEF InitTest, BenchInv, BenchTypeOK
  <2>5. counter' \in Nat
    <3>1. counter' = 0 \/ counter' = counter
      BY <1>5, ZenonT(40) DEF InitTest
    <3>. QED
      BY <3>1 DEF BenchInv, BenchTypeOK
  <2>. QED
    BY <1>5, <2>1, <2>2, <2>3, <2>4, <2>5, ZenonT(40) DEF InitTest, EnterBarrier, BenchInv, BenchTypeOK, BenchLabels
<1>6. CASE Loop(h)
  BY <1>6, HostFacts DEF Loop, EnterBarrier, BenchInv, BenchTypeOK, BenchLabels, Free
<1>7. CASE CsRead(h)
  BY <1>7, BenchAssumption, ZenonT(40) DEF CsRead, BenchInv, BenchTypeOK, BenchLabels, Free
<1>8. CASE CsWrite(h)
  <2>1. tmp[h] + 1 \in Nat /\ 0 \in Nat
    BY DEF BenchInv, BenchTypeOK
  <2>2. tmp' \in [Hosts -> Nat]
    <3>1. tmp' = tmp \/ tmp' = [tmp EXCEPT ![h] = 0]
      BY <1>8, Zenon DEF CsWrite
    <3>. QED
      BY <1>d, <3>1, <2>1, ZenonT(40)
  <2>3. hpc' \in [Hosts -> BenchLabels]
    <3>1. \E l \in {"check", "unlock"} : hpc' = [hpc EXCEPT ![h] = l]
      BY <1>8, Zenon DEF CsWrite
    <3>. QED
      BY <1>c, <3>1, ZenonT(40) DEF BenchLabels
  <2>. QED
    BY <1>8, <2>1, <2>2, <2>3, ZenonT(40) DEF CsWrite, BenchInv, BenchTypeOK
<1>9. CASE Check(h)
  <2>1. violations' \in [Hosts -> Nat]
    <3>1. violations \in [Hosts -> Nat] /\ violations[h] + 1 \in Nat
      BY DEF BenchInv, BenchTypeOK
    <3>. QED
      BY <1>9, <3>1, ZenonT(40) DEF Check
  <2>. QED
    BY <1>9, <2>1, ZenonT(40) DEF Check, BenchInv, BenchTypeOK, BenchLabels, Free
<1>10. CASE Report(h)
  <2>1. TestOf(stage[h]) \in 1 .. Len(Tests)
    BY <1>10, HostFacts, StageFacts DEF Report, ProgramOK
  <2>. QED
    BY <1>10, <2>1, ZenonT(40) DEF Report, EnterBarrier, BenchInv, BenchTypeOK, BenchLabels, Free
<1>11. CASE BakeryChoose(h)
  BY <1>11, BenchAssumption, ZenonT(40) DEF BakeryChoose, BenchInv, BenchTypeOK, BenchLabels, Free
<1>12. CASE BakeryLook(h)
  BY <1>12, BenchAssumption DEF BakeryLook, BenchInv, BenchTypeOK, BenchLabels, Free
<1>13. CASE BakeryTake(h)
  <2>1. tmp[h] \in Nat /\ 0 \in Nat
    BY Zenon DEF BenchInv, BenchTypeOK
  <2>2. (tmp[h] + 1) % TicketMod \in 0 .. TicketMod - 1
    BY <2>1, BenchAssumption
  <2>. QED
    BY <1>13, <2>1, <2>2, ZenonT(40) DEF BakeryTake, BenchInv, BenchTypeOK, BenchLabels, Free
<1>14. CASE BakeryChosen(h)
  BY <1>14, BenchAssumption, ZenonT(40) DEF BakeryChosen, BenchInv, BenchTypeOK, BenchLabels, Free
<1>15. CASE BakeryWaitChoice(h)
  BY <1>15, BenchAssumption, ZenonT(40) DEF BakeryWaitChoice, BenchInv, BenchTypeOK, BenchLabels, Free
<1>16. CASE BakeryWaitTurn(h)
  BY <1>16, BenchAssumption, ZenonT(40) DEF BakeryWaitTurn, BenchInv, BenchTypeOK, BenchLabels, Free
<1>17. CASE CasLock(h)
  BY <1>17, BenchAssumption, ZenonT(40) DEF CasLock, BenchInv, BenchTypeOK, BenchLabels, Free
<1>18. CASE OwnershipFree(h)
  BY <1>18, BenchAssumption, ZenonT(40) DEF OwnershipFree, BenchInv, BenchTypeOK, BenchLabels, Free
<1>19. CASE OwnershipClaim(h)
  BY <1>19, BenchAssumption, ZenonT(40) DEF OwnershipClaim, BenchInv, BenchTypeOK, BenchLabels, Free
<1>20. CASE OwnershipConfirm(h)
  BY <1>20, BenchAssumption, ZenonT(40) DEF OwnershipConfirm, BenchInv, BenchTypeOK, BenchLabels, Free
<1>21. CASE Unlock(h)
  <2>1. ticket' \in [Hosts -> 0 .. TicketMod - 1]
    <3>1. 0 \in 0 .. TicketMod - 1
      BY BenchAssumption
    <3>. QED
      BY <1>21, <3>1, ZenonT(40) DEF Unlock, BenchInv, BenchTypeOK
  <2>2. iter' \in [Hosts -> 0 .. Iters]
    <3>1. iter[h] < Iters
      BY <1>21, HostFacts, Zenon DEF Unlock, ProgramOK, LockLabels, CsLabels
    <3>2. iter[h] + 1 \in 0 .. Iters
      BY <1>b, <3>1, BenchAssumption
    <3>. QED
      BY <1>21, <3>2, ZenonT(40) DEF Unlock, BenchInv, BenchTypeOK
  <2>3. lock' \in BOOLEAN
    BY <1>21, ZenonT(40) DEF Unlock, BenchInv, BenchTypeOK
  <2>4. owner' \in Hosts \cup {Free}
    BY <1>21, Zenon DEF Unlock, BenchInv, BenchTypeOK
  <2>. QED
    BY <1>21, <2>1, <2>2, <2>3, <2>4, ZenonT(40) DEF Unlock, BenchInv, BenchTypeOK, BenchLabels
<1>22. CASE h = RoleA /\ Clear
  BY <1>22, BenchAssumption, ZenonT(40) DEF Clear, BenchInv, BenchTypeOK, BenchLabels, Free
<1>23. CASE h = RoleA /\ BarrierTarget
  BY <1>23, BenchAssumption, ZenonT(40) DEF BarrierTarget, BenchInv, BenchTypeOK, BenchLabels, Free
<1>24. CASE h = RoleA /\ BarrierSpin
  <2>1. stage[h] \in 0 .. LastStage /\ stage[h] # LastStage /\ LastStage \in Nat
    BY <1>24, HostFacts, Zenon DEF BarrierSpin, ProgramOK
  <2>2. stage[h] + 1 \in 0 .. LastStage
    BY <2>1
  <2>3. 0 \in 0 .. Iters /\ 0 \in Nat
    BY BenchAssumption
  <2>. QED
    BY <1>24, <2>2, <2>3, ZenonT(40) DEF BarrierSpin, LeaveBarrier, Entry, BenchInv, BenchTypeOK, BenchLabels, Free
<1>25. CASE h = RoleB /\ BarrierOdd
  BY <1>25, BenchAssumption, ZenonT(40) DEF BarrierOdd, BenchInv, BenchTypeOK, BenchLabels, Free
<1>. QED
  BY <1>1, <1>2, <1>3, <1>4, <1>5, <1>6, <1>7, <1>8, <1>9, <1>10, <1>11, <1>12, <1>13, <1>14, <1>15, <1>16, <1>17, <1>18, <1>19, <1>20, <1>21, <1>22, <1>23, <1>24, <1>25, Zenon DEF Step, HostStep

\* Every step keeps the sequence word and the handshake as the invariant says.
LEMMA BarrierStep ==
    ASSUME BenchInv, NEW h \in Hosts, Step(h)
    PROVE  HandshakeInv' /\ BarrierInv'
<1>. USE SMTT(40) DEF Goto, Hosts, RoleA, RoleB, Other, ctrlVars, lockVars, countVars
<1>c. hpc \in [Hosts -> BenchLabels]
  BY ZenonT(40) DEF BenchInv, BenchTypeOK
<1>i. HandshakeInv /\ BarrierInv
  BY Zenon DEF BenchInv
<1>q. ASSUME UNCHANGED <<ready, wiped, seq, stage>>,
             hpc[h] \notin {"clear", "ready", "wait", "b_target", "b_spin"},
             hpc'[h] \notin {"clear", "ready", "b_target", "b_spin"},
             hpc'[h] = "b_add" => h = RoleA
      PROVE  HandshakeInv' /\ BarrierInv'
  <2>1. CASE h = RoleA
    <3>1. hpc'[RoleB] = hpc[RoleB]
      BY <2>1, FrameStep
    <3>. QED
      BY <1>q, <1>i, <2>1, <3>1, Zenon DEF HandshakeInv, BarrierInv, Waiting
  <2>2. CASE h = RoleB
    <3>1. hpc'[RoleA] = hpc[RoleA] /\ tmp'[RoleA] = tmp[RoleA]
      BY <2>2, FrameStep
    <3>. QED
      BY <1>q, <1>i, <2>2, <3>1, Zenon DEF HandshakeInv, BarrierInv, Waiting
  <2>. QED
    BY <2>1, <2>2, Zenon
<1>1. CASE Ready(h)
  BY <1>1, Zenon DEF Ready, BenchInv, BenchTypeOK, BenchLabels, HandshakeInv, BarrierInv, Waiting
<1>2. CASE WaitReady(h)
  BY <1>2 DEF WaitReady, BenchInv, BenchTypeOK, BenchLabels, HandshakeInv, BarrierInv, Waiting
<1>3. CASE Magic(h)
  BY <1>3, <1>c, <1>q, Zenon DEF Magic, EnterBarrier
<1>4. CASE BarrierAdd(h)
  <2>1. CASE h = RoleA
    <3>1. /\ hpc'[RoleA] = "b_target" /\ hpc'[RoleB] = hpc[RoleB] /\ tmp' = tmp
          /\ seq' = seq + 1 /\ UNCHANGED <<ready, wiped, stage>>
      BY <1>4, <2>1 DEF BarrierAdd, BenchInv, BenchTypeOK
    <3>2. ~wiped /\ seq = 2 * stage[RoleA] /\ stage[RoleB] = stage[RoleA] /\ stage[RoleA] \in Nat
      BY <1>4, <2>1, HostFacts DEF BarrierAdd, BenchInv, BenchTypeOK, HandshakeInv, BarrierInv, Waiting
    <3>3. seq' = 2 * stage[RoleA] + 1 /\ seq' % 2 = 1
      BY <3>1, <3>2
    <3>. QED
      BY <3>1, <3>2, <3>3, Zenon DEF HandshakeInv, BarrierInv, Waiting
  <2>2. CASE h = RoleB
    <3>1. /\ hpc'[RoleA] = hpc[RoleA] /\ tmp' = tmp /\ UNCHANGED <<ready, wiped>>
          /\ stage'[RoleA] = stage[RoleA] /\ stage'[RoleB] = stage[RoleB] + 1 /\ seq' = seq + 1
          /\ hpc'[RoleB] \in {"done", "init", "loop", "report"}
      BY <1>4, <2>2 DEF BarrierAdd, LeaveBarrier, Entry, BenchInv, BenchTypeOK
    <3>2. /\ stage[RoleA] \in Nat /\ stage[RoleB] \in Nat /\ seq \in Nat /\ hpc[RoleB] = "b_add"
          /\ tmp[RoleA] \in Nat
      BY <1>4, <2>2, HostFacts DEF BarrierAdd, BenchInv, BenchTypeOK
    <3>3. CASE hpc[RoleA] = "clear"
      BY <3>1, <3>2, <3>3 DEF BenchInv, HandshakeInv, BarrierInv
    <3>4. CASE wiped
      BY <3>1, <3>2, <3>4, Zenon DEF BenchInv, HandshakeInv, BarrierInv
    <3>5. CASE hpc[RoleA] # "clear" /\ ~wiped
      <4>1. seq % 2 = 1
        BY <3>2, <3>5, Zenon DEF BenchInv, BarrierInv
      <4>2. Waiting /\ seq = 2 * stage[RoleA] + 1 /\ stage[RoleB] = stage[RoleA]
        BY <4>1, <3>2, <3>5 DEF BenchInv, BarrierInv
      <4>3. (Waiting <=> Waiting') /\ seq' = 2 * stage[RoleA] + 2
        BY <4>2, <3>1, <3>2 DEF Waiting
      <4>. QED
        BY <3>1, <3>2, <3>5, <4>2, <4>3, Zenon DEF BenchInv, HandshakeInv, BarrierInv
    <3>. QED
      BY <3>3, <3>4, <3>5, Zenon
  <2>. QED
    BY <2>1, <2>2, Zenon DEF Hosts
<1>5. CASE InitTest(h)
  BY <1>5, <1>c, <1>q, Zenon DEF InitTest, EnterBarrier
<1>6. CASE Loop(h)
  <2>1. hpc'[h] \in {"choose", "cas", "free", "b_add", "b_odd"} /\ (h = RoleA => hpc'[h] # "b_odd")
        /\ (hpc'[h] = "b_add" => h = RoleA)
    BY <1>6, <1>c, HostFacts, Zenon DEF Loop, EnterBarrier
  <2>2. UNCHANGED <<ready, wiped, seq, stage, tmp>>
    BY <1>6, Zenon DEF Loop
  <2>. QED
    BY <1>6, <1>q, <2>1, <2>2, Zenon DEF Loop
<1>7. CASE CsRead(h)
  BY <1>7, <1>c, <1>q, Zenon DEF CsRead
<1>8. CASE CsWrite(h)
  BY <1>8, <1>c, <1>q, Zenon DEF CsWrite
<1>9. CASE Check(h)
  BY <1>9, <1>c, <1>q, Zenon DEF Check
<1>10. CASE Report(h)
  BY <1>10, <1>c, <1>q, Zenon DEF Report, EnterBarrier
<1>11. CASE BakeryChoose(h)
  BY <1>11, <1>c, <1>q, Zenon DEF BakeryChoose
<1>12. CASE BakeryLook(h)
  BY <1>12, <1>c, <1>q, Zenon DEF BakeryLook
<1>13. CASE BakeryTake(h)
  BY <1>13, <1>c, <1>q, Zenon DEF BakeryTake
<1>14. CASE BakeryChosen(h)
  BY <1>14, <1>c, <1>q, Zenon DEF BakeryChosen
<1>15. CASE BakeryWaitChoice(h)
  BY <1>15, <1>c, <1>q, Zenon DEF BakeryWaitChoice
<1>16. CASE BakeryWaitTurn(h)
  BY <1>16, <1>c, <1>q, Zenon DEF BakeryWaitTurn
<1>17. CASE CasLock(h)
  BY <1>17, <1>c, <1>q, Zenon DEF CasLock
<1>18. CASE OwnershipFree(h)
  BY <1>18, <1>c, <1>q, Zenon DEF OwnershipFree
<1>19. CASE OwnershipClaim(h)
  BY <1>19, <1>c, <1>q, Zenon DEF OwnershipClaim
<1>20. CASE OwnershipConfirm(h)
  BY <1>20, <1>c, <1>q, Zenon DEF OwnershipConfirm
<1>21. CASE Unlock(h)
  BY <1>21, <1>c, <1>q, Zenon DEF Unlock
<1>22. CASE h = RoleA /\ Clear
  <2>1. /\ hpc'[RoleB] = hpc[RoleB] /\ hpc'[RoleA] = "ready" /\ stage' = stage
        /\ seq' = 0 /\ ready'[RoleB] = FALSE
    BY <1>22 DEF Clear, BenchInv, BenchTypeOK
  <2>2. wiped' = (hpc[RoleB] # "ready")
    BY <1>22, Zenon DEF Clear
  <2>3. stage[RoleA] = 0 /\ (hpc[RoleB] = "ready" => stage[RoleB] = 0)
    BY <1>22, HostFacts, Zenon DEF Clear, ProgramOK
  <2>4. CASE hpc[RoleB] = "ready"
    <3>1. ~wiped'
      BY <2>2, <2>4, ZenonT(40)
    <3>. QED
      BY <2>1, <2>3, <2>4, <3>1 DEF HandshakeInv, BarrierInv, Waiting
  <2>5. CASE hpc[RoleB] # "ready"
    <3>1. wiped'
      BY <2>2, <2>5, ZenonT(40)
    <3>. QED
      BY <2>1, <2>5, <3>1, Zenon DEF HandshakeInv, BarrierInv
  <2>. QED
    BY <2>4, <2>5, Zenon
<1>23. CASE h = RoleA /\ BarrierTarget
  BY <1>23 DEF BarrierTarget, BenchInv, BenchTypeOK, BenchLabels, HandshakeInv, BarrierInv, Waiting
<1>24. CASE h = RoleA /\ BarrierSpin
  <2>1. /\ hpc'[RoleB] = hpc[RoleB] /\ UNCHANGED <<ready, wiped, seq>>
        /\ stage'[RoleB] = stage[RoleB] /\ stage'[RoleA] = stage[RoleA] + 1
        /\ hpc'[RoleA] \in {"done", "init", "loop", "report"}
    BY <1>24 DEF BarrierSpin, LeaveBarrier, Entry, BenchInv, BenchTypeOK
  <2>2. /\ stage[RoleA] \in Nat /\ stage[RoleB] \in Nat /\ seq \in Nat /\ hpc[RoleA] = "b_spin"
        /\ tmp[RoleA] \in Nat /\ seq >= tmp[RoleA] + 1
    BY <1>24, HostFacts DEF BarrierSpin, BenchInv, BenchTypeOK
  <2>3. ~wiped
    BY <2>2, Zenon DEF BenchInv, HandshakeInv
  <2>4. seq = 2 * stage[RoleA] + 2 /\ stage[RoleB] = stage[RoleA] + 1
    BY <2>2, <2>3 DEF BenchInv, BarrierInv, Waiting
  <2>5. ~Waiting' /\ seq' = 2 * stage'[RoleA]
    BY <2>1, <2>2, <2>4 DEF Waiting
  <2>. QED
    BY <2>1, <2>2, <2>3, <2>4, <2>5, Zenon DEF BenchInv, HandshakeInv, BarrierInv
<1>25. CASE h = RoleB /\ BarrierOdd
  <2>1. /\ hpc'[RoleB] = "b_add" /\ hpc'[RoleA] = hpc[RoleA] /\ seq % 2 = 1
        /\ UNCHANGED <<ready, wiped, seq, stage, tmp>>
    BY <1>c, <1>25 DEF BarrierOdd
  <2>. QED
    BY <1>i, <2>1, Zenon DEF HandshakeInv, BarrierInv, Waiting
<1>. QED
  BY <1>1, <1>2, <1>3, <1>4, <1>5, <1>6, <1>7, <1>8, <1>9, <1>10, <1>11, <1>12, <1>13, <1>14, <1>15, <1>16, <1>17, <1>18, <1>19, <1>20, <1>21, <1>22, <1>23, <1>24, <1>25, Zenon DEF Step, HostStep

\* Every step keeps hosts where their stage allows.
LEMMA ProgramStep ==
    ASSUME BenchInv, NEW h \in Hosts, Step(h)
    PROVE  ProgramInv'
<1>. USE SMTT(40) DEF Goto, Hosts, RoleA, RoleB, Other, ctrlVars, lockVars, countVars
<1>f. ProgramOK(h, hpc'[h], stage'[h], iter'[h]) => ProgramInv'
  BY FrameStep, Zenon DEF BenchInv, ProgramInv
<1>0. /\ hpc \in [Hosts -> BenchLabels] /\ stage \in [Hosts -> 0 .. LastStage] /\ LastStage \in Nat
      /\ iter \in [Hosts -> 0 .. Iters] /\ HandshakeInv /\ BenchTypeOK
  BY HostFacts, Zenon DEF BenchInv, BenchTypeOK
<1>1. CASE Ready(h)
  <2>1. ProgramOK(h, hpc'[h], stage'[h], iter'[h])
    BY <1>1, <1>0, HostFacts, Zenon DEF Ready, ProgramOK, LockLabels, BakeryLabels, OwnLabels, CsLabels
  <2>. QED
    BY <2>1, <1>f, Zenon
<1>2. CASE WaitReady(h)
  <2>1. ProgramOK(h, hpc'[h], stage'[h], iter'[h])
    BY <1>2, <1>0, HostFacts, Zenon DEF WaitReady, ProgramOK, LockLabels, BakeryLabels, OwnLabels, CsLabels
  <2>. QED
    BY <2>1, <1>f, Zenon
<1>3. CASE Magic(h)
  <2>1. ProgramOK(h, hpc'[h], stage'[h], iter'[h])
    BY <1>3, <1>0, HostFacts, StageFacts, Zenon DEF Magic, EnterBarrier, ProgramOK, LockLabels, BakeryLabels, OwnLabels, CsLabels
  <2>. QED
    BY <2>1, <1>f, Zenon
<1>4. CASE BarrierAdd(h)
  <2>1. CASE h = RoleA
    BY <1>4, <2>1, <1>0, <1>f, HostFacts, Zenon DEF BarrierAdd, ProgramOK, LockLabels, BakeryLabels, OwnLabels, CsLabels
  <2>2. CASE h = RoleB
    <3>1. /\ hpc'[h] = Entry(stage[h] + 1) /\ stage'[h] = stage[h] + 1 /\ iter'[h] = 0
          /\ stage[h] \in 0 .. LastStage /\ stage[h] < LastStage
      BY <1>4, <2>2, <1>0, HostFacts DEF BarrierAdd, LeaveBarrier, ProgramOK
    <3>2. ProgramOK(h, Entry(stage[h] + 1), stage[h] + 1, 0)
      BY <3>1, <1>0, StageFacts DEF Entry, ProgramOK, LockLabels, BakeryLabels, OwnLabels, CsLabels
    <3>. QED
      BY <3>1, <3>2, <1>f, Zenon
  <2>. QED
    BY <2>1, <2>2, Zenon
<1>5. CASE InitTest(h)
  <2>1. ProgramOK(h, hpc'[h], stage'[h], iter'[h])
    BY <1>5, <1>0, HostFacts, StageFacts, Zenon DEF InitTest, EnterBarrier, ProgramOK, LockLabels, BakeryLabels, OwnLabels, CsLabels
  <2>. QED
    BY <2>1, <1>f, Zenon
<1>6. CASE Loop(h)
  <2>1. ProgramOK(h, hpc'[h], stage'[h], iter'[h])
    <3>1. CASE iter[h] < Iters
      BY <1>6, <3>1, <1>0, HostFacts, Zenon DEF Loop, ProgramOK, LockLabels, BakeryLabels, OwnLabels, CsLabels, FirstStep, LockKinds
    <3>2. CASE ~(iter[h] < Iters)
      BY <1>6, <3>2, <1>0, HostFacts, BenchAssumption DEF Loop, EnterBarrier, ProgramOK, LockLabels, BakeryLabels, OwnLabels, CsLabels
    <3>. QED
      BY <3>1, <3>2, Zenon
  <2>. QED
    BY <2>1, <1>f, Zenon
<1>7. CASE CsRead(h)
  <2>1. ProgramOK(h, hpc'[h], stage'[h], iter'[h])
    BY <1>7, <1>0, HostFacts, Zenon DEF CsRead, ProgramOK, LockLabels, BakeryLabels, OwnLabels, CsLabels
  <2>. QED
    BY <2>1, <1>f, Zenon
<1>8. CASE CsWrite(h)
  <2>1. ProgramOK(h, hpc'[h], stage'[h], iter'[h])
    BY <1>8, <1>0, HostFacts DEF CsWrite, ProgramOK, LockLabels, BakeryLabels, OwnLabels, CsLabels
  <2>. QED
    BY <2>1, <1>f, Zenon
<1>9. CASE Check(h)
  <2>1. ProgramOK(h, hpc'[h], stage'[h], iter'[h])
    BY <1>9, <1>0, HostFacts, Zenon DEF Check, ProgramOK, LockLabels, BakeryLabels, OwnLabels, CsLabels
  <2>. QED
    BY <2>1, <1>f, Zenon
<1>10. CASE Report(h)
  <2>1. ProgramOK(h, hpc'[h], stage'[h], iter'[h])
    BY <1>10, <1>0, HostFacts, StageFacts, Zenon DEF Report, EnterBarrier, ProgramOK, LockLabels, BakeryLabels, OwnLabels, CsLabels
  <2>. QED
    BY <2>1, <1>f, Zenon
<1>11. CASE BakeryChoose(h)
  <2>1. ProgramOK(h, hpc'[h], stage'[h], iter'[h])
    BY <1>11, <1>0, HostFacts, Zenon DEF BakeryChoose, ProgramOK, LockLabels, BakeryLabels, OwnLabels, CsLabels
  <2>. QED
    BY <2>1, <1>f, Zenon
<1>12. CASE BakeryLook(h)
  <2>1. ProgramOK(h, hpc'[h], stage'[h], iter'[h])
    BY <1>12, <1>0, HostFacts, Zenon DEF BakeryLook, ProgramOK, LockLabels, BakeryLabels, OwnLabels, CsLabels
  <2>. QED
    BY <2>1, <1>f, Zenon
<1>13. CASE BakeryTake(h)
  <2>1. ProgramOK(h, hpc'[h], stage'[h], iter'[h])
    BY <1>13, <1>0, HostFacts, Zenon DEF BakeryTake, ProgramOK, LockLabels, BakeryLabels, OwnLabels, CsLabels
  <2>. QED
    BY <2>1, <1>f, Zenon
<1>14. CASE BakeryChosen(h)
  <2>1. ProgramOK(h, hpc'[h], stage'[h], iter'[h])
    BY <1>14, <1>0, HostFacts, Zenon DEF BakeryChosen, ProgramOK, LockLabels, BakeryLabels, OwnLabels, CsLabels
  <2>. QED
    BY <2>1, <1>f, Zenon
<1>15. CASE BakeryWaitChoice(h)
  <2>1. ProgramOK(h, hpc'[h], stage'[h], iter'[h])
    BY <1>15, <1>0, HostFacts, Zenon DEF BakeryWaitChoice, ProgramOK, LockLabels, BakeryLabels, OwnLabels, CsLabels
  <2>. QED
    BY <2>1, <1>f, Zenon
<1>16. CASE BakeryWaitTurn(h)
  <2>1. ProgramOK(h, hpc'[h], stage'[h], iter'[h])
    BY <1>16, <1>0, HostFacts, Zenon DEF BakeryWaitTurn, ProgramOK, LockLabels, BakeryLabels, OwnLabels, CsLabels
  <2>. QED
    BY <2>1, <1>f, Zenon
<1>17. CASE CasLock(h)
  <2>1. ProgramOK(h, hpc'[h], stage'[h], iter'[h])
    BY <1>17, <1>0, HostFacts, Zenon DEF CasLock, ProgramOK, LockLabels, BakeryLabels, OwnLabels, CsLabels
  <2>. QED
    BY <2>1, <1>f, Zenon
<1>18. CASE OwnershipFree(h)
  <2>1. ProgramOK(h, hpc'[h], stage'[h], iter'[h])
    BY <1>18, <1>0, HostFacts, Zenon DEF OwnershipFree, ProgramOK, LockLabels, BakeryLabels, OwnLabels, CsLabels
  <2>. QED
    BY <2>1, <1>f, Zenon
<1>19. CASE OwnershipClaim(h)
  <2>1. ProgramOK(h, hpc'[h], stage'[h], iter'[h])
    BY <1>19, <1>0, HostFacts, Zenon DEF OwnershipClaim, ProgramOK, LockLabels, BakeryLabels, OwnLabels, CsLabels
  <2>. QED
    BY <2>1, <1>f, Zenon
<1>20. CASE OwnershipConfirm(h)
  <2>1. ProgramOK(h, hpc'[h], stage'[h], iter'[h])
    BY <1>20, <1>0, HostFacts, Zenon DEF OwnershipConfirm, ProgramOK, LockLabels, BakeryLabels, OwnLabels, CsLabels
  <2>. QED
    BY <2>1, <1>f, Zenon
<1>21. CASE Unlock(h)
  <2>1. ProgramOK(h, hpc'[h], stage'[h], iter'[h])
    BY <1>21, <1>0, HostFacts, Zenon DEF Unlock, ProgramOK, LockLabels, BakeryLabels, OwnLabels, CsLabels
  <2>. QED
    BY <2>1, <1>f, Zenon
<1>22. CASE h = RoleA /\ Clear
  <2>1. ProgramOK(h, hpc'[h], stage'[h], iter'[h])
    BY <1>22, <1>0, HostFacts, Zenon DEF Clear, ProgramOK, LockLabels, BakeryLabels, OwnLabels, CsLabels
  <2>. QED
    BY <2>1, <1>f, Zenon
<1>23. CASE h = RoleA /\ BarrierTarget
  <2>1. ProgramOK(h, hpc'[h], stage'[h], iter'[h])
    BY <1>23, <1>0, HostFacts, StageFacts, Zenon DEF BarrierTarget, ProgramOK, LockLabels, BakeryLabels, OwnLabels, CsLabels
  <2>. QED
    BY <2>1, <1>f, Zenon
<1>24. CASE h = RoleA /\ BarrierSpin
  <2>1. ProgramOK(h, hpc'[h], stage'[h], iter'[h])
    BY <1>24, <1>0, HostFacts, StageFacts DEF BarrierSpin, LeaveBarrier, Entry, ProgramOK, LockLabels, BakeryLabels, OwnLabels, CsLabels
  <2>. QED
    BY <2>1, <1>f, Zenon
<1>25. CASE h = RoleB /\ BarrierOdd
  <2>1. ProgramOK(h, hpc'[h], stage'[h], iter'[h])
    BY <1>25, <1>0, HostFacts, StageFacts, Zenon DEF BarrierOdd, ProgramOK, LockLabels, BakeryLabels, OwnLabels, CsLabels
  <2>. QED
    BY <2>1, <1>f, Zenon
<1>. QED
  BY <1>1, <1>2, <1>3, <1>4, <1>5, <1>6, <1>7, <1>8, <1>9, <1>10, <1>11, <1>12, <1>13, <1>14, <1>15, <1>16, <1>17, <1>18, <1>19, <1>20, <1>21, <1>22, <1>23, <1>24, <1>25, Zenon DEF Step, HostStep

\* Who is inside the lock loop runs the test whose words A has initialised.
LEMMA SameTest ==
    ASSUME BenchInv, NEW h \in Hosts, hpc[h] \in LockLabels \cup {"loop"}
    PROVE  wiped \/ (Live /\ Kind(stage[h]) = Kind(stage[RoleA]))
<1>. USE SMTT(40) DEF Hosts, RoleA, RoleB
<1>1. LoopStage(stage[h]) /\ stage[h] \in 0 .. LastStage /\ stage[h] \in Nat
  BY HostFacts DEF ProgramOK
<1>2. InitStage(stage[h] - 1) /\ Kind(stage[h]) = Kind(stage[h] - 1) /\ stage[h] >= 2
  BY <1>1, StageFacts, Zenon
<1>3. hpc[RoleA] # "clear"
  BY <1>2, HostFacts DEF BenchInv, HandshakeInv, ProgramOK
<1>4. CASE ~wiped /\ stage[RoleA] = stage[h]
  BY <1>1, <1>3, <1>4, Zenon DEF Live
<1>5. CASE ~wiped /\ stage[RoleA] # stage[h]
  <2>1. h = RoleB /\ Waiting /\ stage[h] = stage[RoleA] + 1
    BY <1>3, <1>5, Zenon DEF BenchInv, BarrierInv
  <2>2. stage[RoleA] = stage[h] - 1
    BY <2>1, <1>1, HostFacts
  <2>. QED
    BY <2>1, <2>2, <1>2, <1>3, <1>5, Zenon DEF Live, Waiting
<1>. QED
  BY <1>4, <1>5, Zenon

\* The words of a test are initialised by A's InitTest and by no other step.
LEMMA LiveStep ==
    ASSUME BenchInv, Live', NEW h \in Hosts, Step(h)
    PROVE  (InitTest(h) /\ h = RoleA) \/ (Live /\ Kind(stage'[RoleA]) = Kind(stage[RoleA]))
<1>. USE SMTT(40) DEF Goto, Hosts, RoleA, RoleB, ctrlVars, lockVars, countVars
<1>0. /\ hpc \in [Hosts -> BenchLabels] /\ stage \in [Hosts -> 0 .. LastStage] /\ LastStage \in Nat
      /\ iter \in [Hosts -> 0 .. Iters] /\ wiped \in BOOLEAN
  BY HostFacts, Zenon DEF BenchInv, BenchTypeOK
<1>l. Live'
  OBVIOUS
<1>1. CASE Ready(h)
  BY <1>1, <1>0, HostFacts, FrameStep, StageFacts, Zenon DEF Ready, EnterBarrier, Live, ProgramOK
<1>2. CASE WaitReady(h)
  BY <1>2, <1>0, HostFacts, FrameStep, StageFacts, Zenon DEF WaitReady, EnterBarrier, Live, ProgramOK
<1>3. CASE Magic(h)
  BY <1>3, <1>0, HostFacts, FrameStep, StageFacts, Zenon DEF Magic, EnterBarrier, Live, ProgramOK
<1>4. CASE BarrierAdd(h)
  <2>1. CASE h = RoleA
    BY <1>4, <2>1, <1>0, <1>l, Zenon DEF BarrierAdd, Live
  <2>2. CASE h = RoleB
    BY <1>4, <2>2, <1>0, <1>l, FrameStep, Zenon DEF BarrierAdd, Live
  <2>. QED
    BY <2>1, <2>2, Zenon
<1>5. CASE InitTest(h)
  BY <1>5, <1>0, HostFacts, FrameStep, ZenonT(40) DEF InitTest, EnterBarrier, Live, LockLabels, BakeryLabels, OwnLabels, CsLabels, ProgramOK
<1>6. CASE Loop(h)
  BY <1>6, <1>0, HostFacts, FrameStep, Zenon DEF Loop, EnterBarrier, Live, LockLabels, BakeryLabels, OwnLabels, CsLabels, ProgramOK
<1>7. CASE CsRead(h)
  BY <1>7, <1>0, HostFacts, FrameStep, Zenon DEF CsRead, Live, LockLabels, BakeryLabels, OwnLabels, CsLabels, ProgramOK
<1>8. CASE CsWrite(h)
  BY <1>8, <1>0, HostFacts, FrameStep, Zenon DEF CsWrite, Live, LockLabels, BakeryLabels, OwnLabels, CsLabels, ProgramOK
<1>9. CASE Check(h)
  BY <1>9, <1>0, HostFacts, FrameStep, Zenon DEF Check, Live, LockLabels, BakeryLabels, OwnLabels, CsLabels, ProgramOK
<1>10. CASE Report(h)
  BY <1>10, <1>0, HostFacts, FrameStep, Zenon DEF Report, EnterBarrier, Live, LockLabels, BakeryLabels, OwnLabels, CsLabels, ProgramOK
<1>11. CASE BakeryChoose(h)
  BY <1>11, <1>0, HostFacts, FrameStep, Zenon DEF BakeryChoose, Live, LockLabels, BakeryLabels, OwnLabels, CsLabels, ProgramOK
<1>12. CASE BakeryLook(h)
  BY <1>12, <1>0, HostFacts, FrameStep, Zenon DEF BakeryLook, Live, LockLabels, BakeryLabels, OwnLabels, CsLabels, ProgramOK
<1>13. CASE BakeryTake(h)
  BY <1>13, <1>0, HostFacts, FrameStep, Zenon DEF BakeryTake, Live, LockLabels, BakeryLabels, OwnLabels, CsLabels, ProgramOK
<1>14. CASE BakeryChosen(h)
  BY <1>14, <1>0, HostFacts, FrameStep, Zenon DEF BakeryChosen, Live, LockLabels, BakeryLabels, OwnLabels, CsLabels, ProgramOK
<1>15. CASE BakeryWaitChoice(h)
  BY <1>15, <1>0, HostFacts, FrameStep, Zenon DEF BakeryWaitChoice, Live, LockLabels, BakeryLabels, OwnLabels, CsLabels, ProgramOK
<1>16. CASE BakeryWaitTurn(h)
  BY <1>16, <1>0, HostFacts, FrameStep, Zenon DEF BakeryWaitTurn, Live, LockLabels, BakeryLabels, OwnLabels, CsLabels, ProgramOK
<1>17. CASE CasLock(h)
  BY <1>17, <1>0, HostFacts, FrameStep, Zenon DEF CasLock, Live, LockLabels, BakeryLabels, OwnLabels, CsLabels, ProgramOK
<1>18. CASE OwnershipFree(h)
  BY <1>18, <1>0, HostFacts, FrameStep, Zenon DEF OwnershipFree, Live, LockLabels, BakeryLabels, OwnLabels, CsLabels, ProgramOK
<1>19. CASE OwnershipClaim(h)
  BY <1>19, <1>0, HostFacts, FrameStep, Zenon DEF OwnershipClaim, Live, LockLabels, BakeryLabels, OwnLabels, CsLabels, ProgramOK
<1>20. CASE OwnershipConfirm(h)
  BY <1>20, <1>0, HostFacts, FrameStep, Zenon DEF OwnershipConfirm, Live, LockLabels, BakeryLabels, OwnLabels, CsLabels, ProgramOK
<1>21. CASE Unlock(h)
  BY <1>21, <1>0, HostFacts, FrameStep, Zenon DEF Unlock, Live, LockLabels, BakeryLabels, OwnLabels, CsLabels, ProgramOK
<1>22. CASE h = RoleA /\ Clear
  BY <1>22, <1>0, HostFacts, StageFacts, Zenon DEF Clear, Live, ProgramOK
<1>23. CASE h = RoleA /\ BarrierTarget
  BY <1>23, <1>0, HostFacts, FrameStep, Zenon DEF BarrierTarget, Live, LockLabels, BakeryLabels, OwnLabels, CsLabels, ProgramOK
<1>24. CASE h = RoleA /\ BarrierSpin
  <2>1. hpc'[RoleA] = Entry(stage[RoleA] + 1) /\ stage'[RoleA] = stage[RoleA] + 1 /\ wiped' = wiped
    BY <1>24, <1>0, Zenon DEF BarrierSpin, LeaveBarrier
  <2>2. stage[RoleA] \in 0 .. LastStage /\ stage[RoleA] < LastStage
    BY <1>24, <1>0, HostFacts DEF BarrierSpin, ProgramOK
  <2>3. InitStage(stage[RoleA]) \/ LoopStage(stage[RoleA])
    BY <2>1, <2>2, <1>l, StageFacts DEF Live, Entry
  <2>. QED
    BY <1>24, <2>1, <2>2, <2>3, <1>l, StageFacts DEF Live, BarrierSpin
<1>25. CASE h = RoleB /\ BarrierOdd
  BY <1>25, <1>0, HostFacts, FrameStep DEF BarrierOdd, Live, LockLabels, BakeryLabels, OwnLabels, CsLabels, ProgramOK
<1>. QED
  BY <1>1, <1>2, <1>3, <1>4, <1>5, <1>6, <1>7, <1>8, <1>9, <1>10, <1>11, <1>12, <1>13, <1>14, <1>15, <1>16, <1>17, <1>18, <1>19, <1>20, <1>21, <1>22, <1>23, <1>24, <1>25, Zenon DEF Step, HostStep

\* No host begins or adds more than Iters.
LEMMA TallyRange ==
    ASSUME NEW g \in Hosts, NEW l \in BenchLabels, NEW t \in 0 .. LastStage, NEW i \in 0 .. Iters,
           ProgramOK(g, l, t, i)
    PROVE  /\ Tally(TakenLabels, l, t, i) \in 0 .. Iters
           /\ Tally({"check", "unlock"}, l, t, i) \in 0 .. Iters
  BY BenchAssumption DEF Tally, ProgramOK, TakenLabels, LockLabels, BakeryLabels, OwnLabels, CsLabels

\* How a step of host h changes the tallies while the words of the test are
\* initialised: only CsWrite adds an increment, and none is taken back.
Grows(h) ==
    /\ hpc[h] = "take" => Begun(h)' = Begun(h) + 1
    /\ Begun(h)' >= Begun(h)
    /\ Added(h)' = IF hpc[h] = "cs_write" THEN Added(h) + 1 ELSE Added(h)
Evolves(h) ==
    /\ \A g \in Hosts : /\ Begun(g) \in 0 .. Iters /\ Added(g) \in 0 .. Iters
                        /\ Begun(g)' \in 0 .. Iters /\ Added(g)' \in 0 .. Iters
                        /\ g # h => Begun(g)' = Begun(g) /\ Added(g)' = Added(g)
    /\ Grows(h)

\* The tallies evolve as the loops of the test runners do.
LEMMA TallyStep ==
    ASSUME BenchInv, Live, Live', NEW h \in Hosts, Step(h)
    PROVE  Evolves(h)
<1>. USE SMTT(40) DEF Goto, Hosts, RoleA, RoleB, ctrlVars, lockVars, countVars
<1>0. /\ hpc \in [Hosts -> BenchLabels] /\ stage \in [Hosts -> 0 .. LastStage] /\ LastStage \in Nat
      /\ iter \in [Hosts -> 0 .. Iters] /\ wiped \in BOOLEAN
  BY HostFacts, Zenon DEF BenchInv, BenchTypeOK
<1>b. \A g \in Hosts : /\ Begun(g) \in 0 .. Iters /\ Added(g) \in 0 .. Iters
                        /\ Begun(g)' \in 0 .. Iters /\ Added(g)' \in 0 .. Iters
  <2>1. \A g \in Hosts : ProgramOK(g, hpc[g], stage[g], iter[g]) /\ ProgramOK(g, hpc'[g], stage'[g], iter'[g])
    BY HostFacts, ProgramStep, Zenon DEF ProgramInv
  <2>2. \A g \in Hosts : hpc'[g] \in BenchLabels /\ stage'[g] \in 0 .. LastStage /\ iter'[g] \in 0 .. Iters
    BY TypeStep, Zenon DEF BenchTypeOK
  <2>. QED
    BY <1>0, <2>1, <2>2, TallyRange, Zenon DEF Begun, Added
<1>c. \A g \in Hosts : g # h => Begun(g)' = Begun(g) /\ Added(g)' = Added(g)
  BY FrameStep, Zenon DEF Begun, Added
<1>d. SUFFICES Grows(h)
  BY <1>b, <1>c, Zenon DEF Evolves
<1>e. /\ Begun(h) = Tally(TakenLabels, hpc[h], stage[h], iter[h])
      /\ Begun(h)' = Tally(TakenLabels, hpc'[h], stage'[h], iter'[h])
      /\ Added(h) = Tally({"check", "unlock"}, hpc[h], stage[h], iter[h])
      /\ Added(h)' = Tally({"check", "unlock"}, hpc'[h], stage'[h], iter'[h])
      /\ Begun(h) \in Nat /\ Added(h) \in Nat /\ iter[h] \in Nat
  <2>1. Begun(h) \in Nat /\ Added(h) \in Nat
    BY <1>b, BenchAssumption
  <2>2. iter[h] \in Nat
    BY <1>0, BenchAssumption
  <2>. QED
    BY <2>1, <2>2, ZenonT(40) DEF Begun, Added
<1>k. hpc[h] \in LockLabels => LoopStage(stage[h])
  BY HostFacts, Zenon DEF ProgramOK
<1>q. ASSUME stage'[h] = stage[h], iter'[h] = iter[h], hpc[h] \notin {"take", "cs_write"},
             hpc'[h] \in TakenLabels <=> hpc[h] \in TakenLabels,
             hpc'[h] \in {"check", "unlock"} <=> hpc[h] \in {"check", "unlock"}
      PROVE  Grows(h)
  <2>1. Begun(h)' = Begun(h) /\ Added(h)' = Added(h)
    BY <1>q, <1>e, SMTT(30) DEF Tally
  <2>. QED
    BY <1>q, <1>e, <2>1 DEF Grows
<1>1. CASE Ready(h)
  BY <1>1, <1>0, <1>q, Zenon DEF Ready, TakenLabels, CsLabels
<1>2. CASE WaitReady(h)
  BY <1>2, <1>0, <1>q, Zenon DEF WaitReady, TakenLabels, CsLabels
<1>3. CASE Magic(h)
  BY <1>3, <1>0, <1>q, Zenon DEF Magic, EnterBarrier, TakenLabels, CsLabels
<1>4. CASE BarrierAdd(h)
  <2>1. CASE h = RoleA
    <3>1. hpc[h] = "b_add" /\ hpc'[h] = "b_target" /\ stage'[h] = stage[h] /\ iter'[h] = iter[h]
      BY <1>4, <2>1, <1>0, Zenon DEF BarrierAdd
    <3>. QED
      BY <3>1, <1>q, Zenon DEF TakenLabels, CsLabels
  <2>2. CASE h = RoleB
    <3>1. /\ hpc[h] = "b_add" /\ hpc'[h] = Entry(stage[h] + 1) /\ stage'[h] = stage[h] + 1 /\ iter'[h] = 0
      BY <1>4, <2>2, <1>0 DEF BarrierAdd, LeaveBarrier
    <3>2. /\ stage[h] \in 0 .. LastStage /\ stage[h] < LastStage
          /\ LoopStage(stage[h]) => iter[h] = Iters
      BY <1>4, <2>2, <3>1, <1>0, HostFacts DEF ProgramOK
    <3>3. ~ReportStage(stage[h])
      BY <1>4, <2>2, <3>1, <3>2, HostFacts, StageFacts DEF BarrierAdd, Live, Waiting, BenchInv, BarrierInv, HandshakeInv
    <3>4. hpc'[h] \in {"done", "init", "loop", "report"}
      BY <3>1, Zenon DEF Entry
    <3>. QED
      BY <3>1, <3>2, <3>3, <3>4, <1>e, StageFacts DEF Grows, Tally, TakenLabels, CsLabels
  <2>. QED
    BY <1>4, <2>1, <2>2, Zenon
<1>5. CASE InitTest(h)
  BY <1>5, <1>0, <1>q, Zenon DEF InitTest, EnterBarrier, TakenLabels, CsLabels
<1>6. CASE Loop(h)
  <2>1. hpc'[h] \in {"choose", "cas", "free", "b_add", "b_odd"} /\ hpc[h] = "loop"
    BY <1>6, <1>0, HostFacts, Zenon DEF Loop, EnterBarrier
  <2>. QED
    BY <1>6, <1>q, <2>1, Zenon DEF Loop, TakenLabels, CsLabels
<1>7. CASE CsRead(h)
  BY <1>7, <1>0, <1>q, Zenon DEF CsRead, TakenLabels, CsLabels
<1>8. CASE CsWrite(h)
  <2>1. /\ LoopStage(stage[h]) /\ stage'[h] = stage[h] /\ iter'[h] = iter[h]
        /\ hpc[h] = "cs_write" /\ hpc'[h] \in {"check", "unlock"}
    BY <1>8, <1>0, <1>k, Zenon DEF CsWrite, LockLabels, CsLabels
  <2>. QED
    BY <2>1, <1>e DEF Grows, Tally, TakenLabels, CsLabels
<1>9. CASE Check(h)
  BY <1>9, <1>0, <1>q, Zenon DEF Check, TakenLabels, CsLabels
<1>10. CASE Report(h)
  BY <1>10, <1>0, <1>q, Zenon DEF Report, EnterBarrier, TakenLabels, CsLabels
<1>11. CASE BakeryChoose(h)
  BY <1>11, <1>0, <1>q, Zenon DEF BakeryChoose, TakenLabels, CsLabels
<1>12. CASE BakeryLook(h)
  BY <1>12, <1>0, <1>q, Zenon DEF BakeryLook, TakenLabels, CsLabels
<1>13. CASE BakeryTake(h)
  <2>1. /\ LoopStage(stage[h]) /\ stage'[h] = stage[h] /\ iter'[h] = iter[h]
        /\ hpc[h] = "take" /\ hpc'[h] = "chosen"
    BY <1>13, <1>0, <1>k, Zenon DEF BakeryTake, LockLabels, BakeryLabels
  <2>. QED
    BY <2>1, <1>e DEF Grows, Tally, TakenLabels, CsLabels
<1>14. CASE BakeryChosen(h)
  BY <1>14, <1>0, <1>q, Zenon DEF BakeryChosen, TakenLabels, CsLabels
<1>15. CASE BakeryWaitChoice(h)
  BY <1>15, <1>0, <1>q, Zenon DEF BakeryWaitChoice, TakenLabels, CsLabels
<1>16. CASE BakeryWaitTurn(h)
  BY <1>16, <1>0, <1>q, Zenon DEF BakeryWaitTurn, TakenLabels, CsLabels
<1>17. CASE CasLock(h)
  <2>1. /\ LoopStage(stage[h]) /\ stage'[h] = stage[h] /\ iter'[h] = iter[h]
        /\ hpc[h] = "cas" /\ hpc'[h] = "cs"
    BY <1>17, <1>0, <1>k, Zenon DEF CasLock, LockLabels
  <2>. QED
    BY <2>1, <1>e DEF Grows, Tally, TakenLabels, CsLabels
<1>18. CASE OwnershipFree(h)
  BY <1>18, <1>0, <1>q, Zenon DEF OwnershipFree, TakenLabels, CsLabels
<1>19. CASE OwnershipClaim(h)
  BY <1>19, <1>0, <1>q, Zenon DEF OwnershipClaim, TakenLabels, CsLabels
<1>20. CASE OwnershipConfirm(h)
  <2>1. /\ LoopStage(stage[h]) /\ stage'[h] = stage[h] /\ iter'[h] = iter[h]
        /\ hpc[h] = "confirm" /\ hpc'[h] \in {"cs", "free"}
    BY <1>20, <1>0, <1>k, Zenon DEF OwnershipConfirm, LockLabels, OwnLabels
  <2>. QED
    BY <2>1, <1>e DEF Grows, Tally, TakenLabels, CsLabels
<1>21. CASE Unlock(h)
  <2>1. /\ LoopStage(stage[h]) /\ stage'[h] = stage[h] /\ iter'[h] = iter[h] + 1
        /\ hpc[h] = "unlock" /\ hpc'[h] = "loop"
    BY <1>21, <1>0, <1>k, Zenon DEF Unlock, LockLabels, CsLabels
  <2>. QED
    BY <2>1, <1>e DEF Grows, Tally, TakenLabels, CsLabels
<1>22. CASE h = RoleA /\ Clear
  BY <1>22, <1>0, <1>q, Zenon DEF Clear, TakenLabels, CsLabels
<1>23. CASE h = RoleA /\ BarrierTarget
  BY <1>23, <1>0, <1>q, Zenon DEF BarrierTarget, TakenLabels, CsLabels
<1>24. CASE h = RoleA /\ BarrierSpin
  <2>1. /\ hpc[h] = "b_spin" /\ hpc'[h] = Entry(stage[h] + 1) /\ stage'[h] = stage[h] + 1 /\ iter'[h] = 0
    BY <1>24, <1>0, Zenon DEF BarrierSpin, LeaveBarrier
  <2>2. /\ stage[h] \in 0 .. LastStage /\ stage[h] < LastStage
        /\ LoopStage(stage[h]) => iter[h] = Iters
    BY <1>24, <2>1, <1>0, HostFacts DEF ProgramOK
  <2>3. ~ReportStage(stage[h])
    BY <1>24, <2>1, <2>2, HostFacts, StageFacts, Zenon DEF BarrierSpin, Live, Waiting, BenchInv, BarrierInv, HandshakeInv
  <2>4. hpc'[h] \in {"done", "init", "loop", "report"}
    BY <2>1, Zenon DEF Entry
  <2>. QED
    BY <2>1, <2>2, <2>3, <2>4, <1>e, StageFacts DEF Grows, Tally, TakenLabels, CsLabels
<1>25. CASE h = RoleB /\ BarrierOdd
  BY <1>25, <1>0, <1>q, Zenon DEF BarrierOdd, TakenLabels, CsLabels
<1>. QED
  BY <1>1, <1>2, <1>3, <1>4, <1>5, <1>6, <1>7, <1>8, <1>9, <1>10, <1>11, <1>12, <1>13, <1>14, <1>15, <1>16, <1>17, <1>18, <1>19, <1>20, <1>21, <1>22, <1>23, <1>24, <1>25, Zenon DEF Step, HostStep

\* Every step keeps the bakery's tickets ordered.
LEMMA BakeryStep ==
    ASSUME BenchInv, Live', Kind(stage'[RoleA]) = "bakery", NEW h \in Hosts, Step(h)
    PROVE  \A g \in Hosts : BakeryAt(g)'
<1>. USE SMTT(40) DEF Goto, Hosts, RoleA, RoleB, Other, ctrlVars, lockVars, countVars
<1>g. hpc[h] # "init" => /\ Live /\ Kind(stage[RoleA]) = "bakery" /\ Evolves(h)
                         /\ \A g \in Hosts : BakeryAt(g)
  BY LiveStep, TallyStep, ZenonT(40) DEF InitTest, BenchInv, BakeryInv
<1>n. hpc[h] # "init" =>
        /\ Begun(RoleA) \in Nat /\ Begun(RoleB) \in Nat
        /\ Begun(RoleA)' \in Nat /\ Begun(RoleB)' \in Nat
        /\ Begun(RoleA)' + Begun(RoleB)' >= Begun(RoleA) + Begun(RoleB)
        /\ hpc[h] = "take" => Begun(RoleA)' + Begun(RoleB)' >= Begun(RoleA) + Begun(RoleB) + 1
        /\ Begun(RoleA)' + Begun(RoleB)' < TicketMod
  BY <1>g, BenchAssumption DEF Evolves, Grows
<1>o. hpc'[Other(h)] = hpc[Other(h)] /\ tmp'[Other(h)] = tmp[Other(h)] /\ Other(h) \in Hosts /\ Other(Other(h)) = h /\ Other(h) # h
  BY FrameStep
<1>t. /\ hpc \in [Hosts -> BenchLabels] /\ ticket \in [Hosts -> Nat] /\ tmp \in [Hosts -> Nat]
      /\ choosing \in [Hosts -> BOOLEAN]
  BY BenchAssumption DEF BenchInv, BenchTypeOK
<1>k. hpc[h] \in LockLabels => Kind(stage[h]) = "bakery"
  BY <1>g, SameTest, Zenon DEF Live, LockLabels, BakeryLabels, OwnLabels, CsLabels
<1>q. ASSUME hpc[h] # "init", ticket' = ticket, choosing' = choosing,
             hpc[h] \notin TakenLabels \cup {"look", "take"},
             hpc'[h] \notin TakenLabels \cup {"look", "take"}
      PROVE  \A g \in Hosts : BakeryAt(g)'
  <2>1. BakeryAt(h)'
    BY <1>q, <1>g, <1>n, <1>o, <1>t DEF BakeryAt, TakenLabels, CsLabels
  <2>2. BakeryAt(Other(h))'
    BY <1>q, <1>g, <1>n, <1>o, <1>t DEF BakeryAt, OtherFirst, TakenLabels, CsLabels
  <2>. QED
    BY <2>1, <2>2
<1>r. ASSUME hpc[h] \in CsLabels, hpc'[h] \in CsLabels, ticket' = ticket, choosing' = choosing
      PROVE  \A g \in Hosts : BakeryAt(g)'
  <2>1. BakeryAt(h)'
    BY <1>r, <1>g, <1>n, <1>o, <1>t DEF BakeryAt, OtherFirst, TakenLabels, CsLabels
  <2>2. BakeryAt(Other(h))'
    BY <1>r, <1>g, <1>n, <1>o, <1>t DEF BakeryAt, OtherFirst, TakenLabels, CsLabels
  <2>. QED
    BY <2>1, <2>2
<1>1. CASE Ready(h)
  BY <1>1, <1>q, <1>t, Zenon DEF Ready, TakenLabels, CsLabels
<1>2. CASE WaitReady(h)
  BY <1>2, <1>q, <1>t, Zenon DEF WaitReady, TakenLabels, CsLabels
<1>3. CASE Magic(h)
  BY <1>3, <1>q, <1>t, Zenon DEF Magic, EnterBarrier, TakenLabels, CsLabels
<1>4. CASE BarrierAdd(h)
  BY <1>4, <1>q, <1>t, Zenon DEF BarrierAdd, LeaveBarrier, Entry, TakenLabels, CsLabels
<1>5. CASE InitTest(h)
  <2>1. CASE h = RoleA
    <3>1. InitStage(stage[RoleA]) /\ ~wiped /\ hpc[RoleA] = "init"
      BY <1>5, <2>1, HostFacts, Zenon DEF InitTest, ProgramOK, BenchInv, HandshakeInv
    <3>2. stage[RoleB] = stage[RoleA]
      BY <3>1, Zenon DEF BenchInv, BarrierInv, Waiting
    <3>3. /\ hpc[RoleB] \notin LockLabels
          /\ InitStage(stage[RoleA]) /\ ~LoopStage(stage[RoleA]) /\ ~ReportStage(stage[RoleA])
      BY <3>1, <3>2, HostFacts, StageFacts, Zenon DEF ProgramOK
    <3>4. Kind(stage[RoleA]) = "bakery" /\ stage' = stage /\ iter' = iter /\ hpc'[RoleA] = "b_add"
      BY <1>5, <2>1, <1>t, Zenon DEF InitTest, EnterBarrier
    <3>5. choosing' = [g \in Hosts |-> FALSE] /\ ticket' = [g \in Hosts |-> 0]
      BY <1>5, <2>1, <3>4, Zenon DEF InitTest
    <3>6. Begun(RoleA)' = 0 /\ Begun(RoleB)' = 0
      BY <3>2, <3>3, <3>4, Zenon DEF Begun, Tally
    <3>. QED
      BY <2>1, <3>3, <3>4, <3>5, <3>6, <1>o DEF BakeryAt, OtherFirst, TakenLabels, LockLabels, BakeryLabels, CsLabels
  <2>2. CASE h = RoleB
    <3>1. Live /\ Kind(stage[RoleA]) = "bakery" /\ Evolves(h) /\ \A g \in Hosts : BakeryAt(g)
      BY <2>2, LiveStep, TallyStep DEF BenchInv, BakeryInv
    <3>2. /\ choosing' = choosing /\ ticket' = ticket /\ hpc[h] = "init" /\ hpc'[h] = "b_odd" /\ tmp' = tmp
      BY <1>5, <2>2, <1>t DEF InitTest, EnterBarrier
    <3>3. /\ Begun(RoleA) \in Nat /\ Begun(RoleB) \in Nat
          /\ Begun(RoleA)' \in Nat /\ Begun(RoleB)' \in Nat
          /\ Begun(RoleA)' + Begun(RoleB)' >= Begun(RoleA) + Begun(RoleB)
      BY <3>1, BenchAssumption DEF Evolves, Grows
    <3>. QED
      BY <2>2, <3>1, <3>2, <3>3, <1>o, <1>t DEF BakeryAt, OtherFirst, TakenLabels, CsLabels
  <2>. QED
    BY <2>1, <2>2, Zenon
<1>6. CASE Loop(h)
  <2>1. hpc'[h] \in {"choose", "cas", "free", "b_add", "b_odd"} /\ hpc[h] = "loop"
    BY <1>6, <1>t, HostFacts, Zenon DEF Loop, EnterBarrier
  <2>. QED
    BY <1>6, <1>q, <2>1, Zenon DEF Loop, TakenLabels, CsLabels
<1>7. CASE CsRead(h)
  BY <1>7, <1>r, <1>t, Zenon DEF CsRead, CsLabels
<1>8. CASE CsWrite(h)
  BY <1>8, <1>r, <1>t, Zenon DEF CsWrite, CsLabels
<1>9. CASE Check(h)
  BY <1>9, <1>r, <1>t, Zenon DEF Check, CsLabels
<1>10. CASE Report(h)
  BY <1>10, <1>q, <1>t, Zenon DEF Report, EnterBarrier, TakenLabels, CsLabels
<1>11. CASE BakeryChoose(h)
  <2>1. BakeryAt(h)'
    BY <1>11, <1>g, <1>n, <1>o, <1>t DEF BakeryChoose, BakeryAt, OtherFirst, TakenLabels, CsLabels
  <2>2. BakeryAt(Other(h))'
    BY <1>11, <1>g, <1>n, <1>o, <1>t DEF BakeryChoose, BakeryAt, OtherFirst, TakenLabels, CsLabels
  <2>. QED
    BY <2>1, <2>2
<1>12. CASE BakeryLook(h)
  <2>1. BakeryAt(h)'
    BY <1>12, <1>g, <1>n, <1>o, <1>t DEF BakeryLook, BakeryAt, OtherFirst, TakenLabels, CsLabels
  <2>2. BakeryAt(Other(h))'
    BY <1>12, <1>g, <1>n, <1>o, <1>t DEF BakeryLook, BakeryAt, OtherFirst, TakenLabels, CsLabels
  <2>. QED
    BY <2>1, <2>2
<1>13. CASE BakeryTake(h)
  <2>a. hpc[h] = "take"
    BY <1>13, Zenon DEF BakeryTake
  <2>b. tmp[h] <= Begun(RoleA) + Begun(RoleB)
    BY <2>a, <1>g, Zenon DEF BakeryAt
  <2>c. tmp[h] \in Nat /\ TicketMod \in Nat
    BY <1>t, BenchAssumption, Zenon
  <2>0. /\ hpc[h] = "take" /\ tmp[h] + 1 <= Begun(RoleA)' + Begun(RoleB)' /\ tmp[h] + 1 < TicketMod
        /\ tmp[h] \in Nat /\ TicketMod \in Nat
    BY <2>a, <2>b, <2>c, <1>n
  <2>3. (tmp[h] + 1) % TicketMod = tmp[h] + 1
    BY <2>0
  <2>4. /\ ticket' = [ticket EXCEPT ![h] = tmp[h] + 1] /\ choosing' = choosing
        /\ hpc'[h] = "chosen" /\ tmp'[h] = 0
    BY <1>13, <2>3, <1>t, ZenonT(40) DEF BakeryTake
  <2>5. choosing[h] /\ ticket'[h] = tmp[h] + 1
    BY <2>0, <2>4, <1>g, <1>t, Zenon DEF BakeryAt
  <2>1. BakeryAt(h)'
    <3>1. (choosing[h])' <=> (hpc[h])' \in {"look", "take", "chosen"}
      BY <2>4, <2>5, Zenon
    <3>2. (ticket[h] # 0)' <=> (hpc[h])' \in TakenLabels
      BY <2>0, <2>4, <2>5 DEF TakenLabels
    <3>3. (ticket[h])' <= (Begun(RoleA) + Begun(RoleB))'
      BY <2>0, <2>5, Zenon
    <3>4. (hpc[h])' # "take" /\ (hpc[h])' \notin CsLabels \cup {"wait_turn"}
      BY <2>4, Zenon DEF CsLabels
    <3>. QED
      BY <3>1, <3>2, <3>3, <3>4, Zenon DEF BakeryAt
  <2>2. BakeryAt(Other(h))'
    BY <2>0, <2>4, <1>g, <1>n, <1>o, <1>t DEF BakeryAt, OtherFirst, TakenLabels, CsLabels
  <2>. QED
    BY <2>1, <2>2
<1>14. CASE BakeryChosen(h)
  <2>1. BakeryAt(h)'
    BY <1>14, <1>g, <1>n, <1>o, <1>t DEF BakeryChosen, BakeryAt, OtherFirst, TakenLabels, CsLabels
  <2>2. BakeryAt(Other(h))'
    BY <1>14, <1>g, <1>n, <1>o, <1>t DEF BakeryChosen, BakeryAt, OtherFirst, TakenLabels, CsLabels
  <2>. QED
    BY <2>1, <2>2
<1>15. CASE BakeryWaitChoice(h)
  <2>1. BakeryAt(h)'
    BY <1>15, <1>g, <1>n, <1>o, <1>t DEF BakeryWaitChoice, BakeryAt, OtherFirst, TakenLabels, CsLabels
  <2>2. BakeryAt(Other(h))'
    BY <1>15, <1>g, <1>n, <1>o, <1>t DEF BakeryWaitChoice, BakeryAt, OtherFirst, TakenLabels, CsLabels
  <2>. QED
    BY <2>1, <2>2
<1>16. CASE BakeryWaitTurn(h)
  <2>1. BakeryAt(h)'
    BY <1>16, <1>g, <1>n, <1>o, <1>t DEF BakeryWaitTurn, BakeryAt, OtherFirst, TakenLabels, CsLabels
  <2>2. BakeryAt(Other(h))'
    BY <1>16, <1>g, <1>n, <1>o, <1>t DEF BakeryWaitTurn, BakeryAt, OtherFirst, TakenLabels, CsLabels
  <2>. QED
    BY <2>1, <2>2
<1>17. CASE CasLock(h)
  BY <1>17, <1>k, HostFacts, Zenon DEF CasLock, ProgramOK, LockLabels, BakeryLabels, OwnLabels, CsLabels
<1>18. CASE OwnershipFree(h)
  BY <1>18, <1>k, HostFacts, Zenon DEF OwnershipFree, ProgramOK, LockLabels, BakeryLabels, OwnLabels, CsLabels
<1>19. CASE OwnershipClaim(h)
  BY <1>19, <1>k, HostFacts, Zenon DEF OwnershipClaim, ProgramOK, LockLabels, BakeryLabels, OwnLabels, CsLabels
<1>20. CASE OwnershipConfirm(h)
  BY <1>20, <1>k, HostFacts, Zenon DEF OwnershipConfirm, ProgramOK, LockLabels, BakeryLabels, OwnLabels, CsLabels
<1>21. CASE Unlock(h)
  <2>1. BakeryAt(h)'
    BY <1>21, <1>k, <1>g, <1>n, <1>o, <1>t DEF Unlock, LockLabels, BakeryLabels, OwnLabels, CsLabels, BakeryAt, OtherFirst, TakenLabels, CsLabels
  <2>2. BakeryAt(Other(h))'
    BY <1>21, <1>k, <1>g, <1>n, <1>o, <1>t DEF Unlock, LockLabels, BakeryLabels, OwnLabels, CsLabels, BakeryAt, OtherFirst, TakenLabels, CsLabels
  <2>. QED
    BY <2>1, <2>2
<1>22. CASE h = RoleA /\ Clear
  BY <1>22, <1>q, <1>t, Zenon DEF Clear, TakenLabels, CsLabels
<1>23. CASE h = RoleA /\ BarrierTarget
  BY <1>23, <1>q, <1>t, Zenon DEF BarrierTarget, TakenLabels, CsLabels
<1>24. CASE h = RoleA /\ BarrierSpin
  BY <1>24, <1>q, <1>t, Zenon DEF BarrierSpin, LeaveBarrier, Entry, TakenLabels, CsLabels
<1>25. CASE h = RoleB /\ BarrierOdd
  BY <1>25, <1>q, <1>t, Zenon DEF BarrierOdd, TakenLabels, CsLabels
<1>. QED
  BY <1>1, <1>2, <1>3, <1>4, <1>5, <1>6, <1>7, <1>8, <1>9, <1>10, <1>11, <1>12, <1>13, <1>14, <1>15, <1>16, <1>17, <1>18, <1>19, <1>20, <1>21, <1>22, <1>23, <1>24, <1>25, Zenon DEF Step, HostStep

\* Every step keeps the CAS lock word equal to the occupancy of the critical section.
LEMMA CasStep ==
    ASSUME BenchInv, Live', Kind(stage'[RoleA]) = "cas", NEW h \in Hosts, Step(h)
    PROVE  CasAt'
<1>. USE SMTT(40) DEF Goto, Hosts, RoleA, RoleB, Other, ctrlVars, lockVars, countVars
<1>g. hpc[h] # "init" => Live /\ Kind(stage[RoleA]) = "cas" /\ CasAt
  BY LiveStep, ZenonT(40) DEF InitTest, BenchInv, CasInv
<1>o. hpc'[Other(h)] = hpc[Other(h)] /\ Other(h) \in Hosts /\ Other(h) # h
  BY FrameStep
<1>t. hpc \in [Hosts -> BenchLabels] /\ lock \in BOOLEAN /\ stolen \in BOOLEAN
  BY Zenon DEF BenchInv, BenchTypeOK
<1>k. hpc[h] \in LockLabels => Kind(stage[h]) = "cas"
  BY <1>g, SameTest, ZenonT(40) DEF Live, LockLabels, BakeryLabels, OwnLabels, CsLabels
<1>1. CASE Ready(h)
  BY <1>1, <1>g, <1>o, <1>t, Zenon DEF Ready, CasAt, InCS
<1>2. CASE WaitReady(h)
  BY <1>2, <1>g, <1>o, <1>t, Zenon DEF WaitReady, CasAt, InCS
<1>3. CASE Magic(h)
  BY <1>3, <1>g, <1>o, <1>t, Zenon DEF Magic, EnterBarrier, CasAt, InCS
<1>4. CASE BarrierAdd(h)
  BY <1>4, <1>g, <1>o, <1>t, Zenon DEF BarrierAdd, LeaveBarrier, Entry, CasAt, InCS
<1>5. CASE InitTest(h)
  <2>1. CASE h = RoleA
    <3>1. InitStage(stage[RoleA]) /\ ~wiped /\ hpc[RoleA] = "init"
      BY <1>5, <2>1, HostFacts, Zenon DEF InitTest, ProgramOK, BenchInv, HandshakeInv
    <3>2. stage[RoleB] = stage[RoleA]
      BY <3>1, Zenon DEF BenchInv, BarrierInv, Waiting
    <3>3. hpc[RoleB] \notin LockLabels
      BY <3>1, <3>2, HostFacts, StageFacts, Zenon DEF ProgramOK
    <3>4. Kind(stage[RoleA]) = "cas" /\ hpc'[RoleA] = "b_add"
      BY <1>5, <2>1, <1>t, Zenon DEF InitTest, EnterBarrier
    <3>. QED
      BY <1>5, <2>1, <3>3, <3>4, <1>o, Zenon DEF InitTest, LockLabels, CsLabels, CasAt, InCS
  <2>2. CASE h = RoleB
    <3>1. Live /\ CasAt
      BY <2>2, LiveStep DEF BenchInv, CasInv
    <3>. QED
      BY <1>5, <2>2, <3>1, <1>o, <1>t, Zenon DEF InitTest, EnterBarrier, CasAt, InCS
  <2>. QED
    BY <2>1, <2>2, Zenon
<1>6. CASE Loop(h)
  <2>0. hpc'[h] \in {"choose", "cas", "free", "b_add", "b_odd"}
    BY <1>6, <1>t, HostFacts, Zenon DEF Loop, EnterBarrier
  <2>. QED
    BY <1>6, <2>0, <1>g, <1>o, <1>t DEF Loop, CasAt, InCS
<1>7. CASE CsRead(h)
  BY <1>7, <1>g, <1>o, <1>t, Zenon DEF CsRead, CasAt, InCS
<1>8. CASE CsWrite(h)
  <2>1. Kind(stage[h]) = "cas"
    BY <1>8, <1>k, Zenon DEF CsWrite, LockLabels, BakeryLabels, OwnLabels, CsLabels
  <2>. QED
    BY <1>8, <2>1, <1>g, <1>o, <1>t, Zenon DEF CsWrite, CasAt, InCS
<1>9. CASE Check(h)
  BY <1>9, <1>k, HostFacts, Zenon DEF Check, ProgramOK, LockLabels, BakeryLabels, OwnLabels, CsLabels
<1>10. CASE Report(h)
  BY <1>10, <1>g, <1>o, <1>t, Zenon DEF Report, EnterBarrier, CasAt, InCS
<1>11. CASE BakeryChoose(h)
  BY <1>11, <1>k, HostFacts, Zenon DEF BakeryChoose, ProgramOK, LockLabels, BakeryLabels, OwnLabels, CsLabels
<1>12. CASE BakeryLook(h)
  BY <1>12, <1>k, HostFacts, Zenon DEF BakeryLook, ProgramOK, LockLabels, BakeryLabels, OwnLabels, CsLabels
<1>13. CASE BakeryTake(h)
  BY <1>13, <1>k, HostFacts, Zenon DEF BakeryTake, ProgramOK, LockLabels, BakeryLabels, OwnLabels, CsLabels
<1>14. CASE BakeryChosen(h)
  BY <1>14, <1>k, HostFacts, Zenon DEF BakeryChosen, ProgramOK, LockLabels, BakeryLabels, OwnLabels, CsLabels
<1>15. CASE BakeryWaitChoice(h)
  BY <1>15, <1>k, HostFacts, Zenon DEF BakeryWaitChoice, ProgramOK, LockLabels, BakeryLabels, OwnLabels, CsLabels
<1>16. CASE BakeryWaitTurn(h)
  BY <1>16, <1>k, HostFacts, Zenon DEF BakeryWaitTurn, ProgramOK, LockLabels, BakeryLabels, OwnLabels, CsLabels
<1>17. CASE CasLock(h)
  BY <1>17, <1>g, <1>o, <1>t, Zenon DEF CasLock, CasAt, InCS
<1>18. CASE OwnershipFree(h)
  BY <1>18, <1>k, HostFacts, Zenon DEF OwnershipFree, ProgramOK, LockLabels, BakeryLabels, OwnLabels, CsLabels
<1>19. CASE OwnershipClaim(h)
  BY <1>19, <1>k, HostFacts, Zenon DEF OwnershipClaim, ProgramOK, LockLabels, BakeryLabels, OwnLabels, CsLabels
<1>20. CASE OwnershipConfirm(h)
  BY <1>20, <1>k, HostFacts, Zenon DEF OwnershipConfirm, ProgramOK, LockLabels, BakeryLabels, OwnLabels, CsLabels
<1>21. CASE Unlock(h)
  <2>1. Kind(stage[h]) = "cas"
    BY <1>21, <1>k, Zenon DEF Unlock, LockLabels, BakeryLabels, OwnLabels, CsLabels
  <2>. QED
    BY <1>21, <2>1, <1>g, <1>o, <1>t, Zenon DEF Unlock, CasAt, InCS
<1>22. CASE h = RoleA /\ Clear
  BY <1>22, <1>g, <1>o, <1>t, Zenon DEF Clear, CasAt, InCS
<1>23. CASE h = RoleA /\ BarrierTarget
  BY <1>23, <1>g, <1>o, <1>t, Zenon DEF BarrierTarget, CasAt, InCS
<1>24. CASE h = RoleA /\ BarrierSpin
  BY <1>24, <1>g, <1>o, <1>t, Zenon DEF BarrierSpin, LeaveBarrier, Entry, CasAt, InCS
<1>25. CASE h = RoleB /\ BarrierOdd
  BY <1>25, <1>g, <1>o, <1>t, Zenon DEF BarrierOdd, CasAt, InCS
<1>. QED
  BY <1>1, <1>2, <1>3, <1>4, <1>5, <1>6, <1>7, <1>8, <1>9, <1>10, <1>11, <1>12, <1>13, <1>14, <1>15, <1>16, <1>17, <1>18, <1>19, <1>20, <1>21, <1>22, <1>23, <1>24, <1>25, Zenon DEF Step, HostStep

\* Every step keeps the owner word at the host in the critical section.
LEMMA OwnershipStep ==
    ASSUME BenchInv, Live', Kind(stage'[RoleA]) = "ownership", NEW h \in Hosts, Step(h)
    PROVE  OwnershipAt'
<1>. USE SMTT(40) DEF Goto, Hosts, RoleA, RoleB, Other, ctrlVars, lockVars, countVars
<1>g. hpc[h] # "init" => Live /\ Kind(stage[RoleA]) = "ownership" /\ OwnershipAt
  BY LiveStep, ZenonT(40) DEF InitTest, BenchInv, OwnershipInv
<1>o. hpc'[Other(h)] = hpc[Other(h)] /\ Other(h) \in Hosts /\ Other(h) # h
  BY FrameStep
<1>t. hpc \in [Hosts -> BenchLabels] /\ lock \in BOOLEAN /\ stolen \in BOOLEAN
  BY Zenon DEF BenchInv, BenchTypeOK
<1>k. hpc[h] \in LockLabels => Kind(stage[h]) = "ownership"
  BY <1>g, SameTest, ZenonT(40) DEF Live, LockLabels, BakeryLabels, OwnLabels, CsLabels
<1>1. CASE Ready(h)
  BY <1>1, <1>g, <1>o, <1>t, Zenon DEF Ready, OwnershipAt, InCS, Free
<1>2. CASE WaitReady(h)
  BY <1>2, <1>g, <1>o, <1>t, Zenon DEF WaitReady, OwnershipAt, InCS, Free
<1>3. CASE Magic(h)
  BY <1>3, <1>g, <1>o, <1>t, Zenon DEF Magic, EnterBarrier, OwnershipAt, InCS, Free
<1>4. CASE BarrierAdd(h)
  BY <1>4, <1>g, <1>o, <1>t, Zenon DEF BarrierAdd, LeaveBarrier, Entry, OwnershipAt, InCS, Free
<1>5. CASE InitTest(h)
  <2>1. CASE h = RoleA
    <3>1. InitStage(stage[RoleA]) /\ ~wiped /\ hpc[RoleA] = "init"
      BY <1>5, <2>1, HostFacts, Zenon DEF InitTest, ProgramOK, BenchInv, HandshakeInv
    <3>2. stage[RoleB] = stage[RoleA]
      BY <3>1, Zenon DEF BenchInv, BarrierInv, Waiting
    <3>3. hpc[RoleB] \notin LockLabels
      BY <3>1, <3>2, HostFacts, StageFacts, Zenon DEF ProgramOK
    <3>4. Kind(stage[RoleA]) = "ownership" /\ hpc'[RoleA] = "b_add"
      BY <1>5, <2>1, <1>t, Zenon DEF InitTest, EnterBarrier
    <3>. QED
      BY <1>5, <2>1, <3>3, <3>4, <1>o, Zenon DEF InitTest, LockLabels, CsLabels, OwnershipAt, InCS, Free
  <2>2. CASE h = RoleB
    <3>1. Live /\ OwnershipAt
      BY <2>2, LiveStep DEF BenchInv, OwnershipInv
    <3>. QED
      BY <1>5, <2>2, <3>1, <1>o, <1>t, Zenon DEF InitTest, EnterBarrier, OwnershipAt, InCS, Free
  <2>. QED
    BY <2>1, <2>2, Zenon
<1>6. CASE Loop(h)
  <2>0. hpc'[h] \in {"choose", "cas", "free", "b_add", "b_odd"}
    BY <1>6, <1>t, HostFacts, Zenon DEF Loop, EnterBarrier
  <2>. QED
    BY <1>6, <2>0, <1>g, <1>o, <1>t DEF Loop, OwnershipAt, InCS, Free
<1>7. CASE CsRead(h)
  BY <1>7, <1>g, <1>o, <1>t, Zenon DEF CsRead, OwnershipAt, InCS, Free
<1>8. CASE CsWrite(h)
  <2>1. Kind(stage[h]) = "ownership"
    BY <1>8, <1>k, Zenon DEF CsWrite, LockLabels, BakeryLabels, OwnLabels, CsLabels
  <2>. QED
    BY <1>8, <2>1, <1>g, <1>o, <1>t, Zenon DEF CsWrite, OwnershipAt, InCS, Free
<1>9. CASE Check(h)
  BY <1>9, <1>k, HostFacts, Zenon DEF Check, ProgramOK, LockLabels, BakeryLabels, OwnLabels, CsLabels
<1>10. CASE Report(h)
  BY <1>10, <1>g, <1>o, <1>t, Zenon DEF Report, EnterBarrier, OwnershipAt, InCS, Free
<1>11. CASE BakeryChoose(h)
  BY <1>11, <1>k, HostFacts, Zenon DEF BakeryChoose, ProgramOK, LockLabels, BakeryLabels, OwnLabels, CsLabels
<1>12. CASE BakeryLook(h)
  BY <1>12, <1>k, HostFacts, Zenon DEF BakeryLook, ProgramOK, LockLabels, BakeryLabels, OwnLabels, CsLabels
<1>13. CASE BakeryTake(h)
  BY <1>13, <1>k, HostFacts, Zenon DEF BakeryTake, ProgramOK, LockLabels, BakeryLabels, OwnLabels, CsLabels
<1>14. CASE BakeryChosen(h)
  BY <1>14, <1>k, HostFacts, Zenon DEF BakeryChosen, ProgramOK, LockLabels, BakeryLabels, OwnLabels, CsLabels
<1>15. CASE BakeryWaitChoice(h)
  BY <1>15, <1>k, HostFacts, Zenon DEF BakeryWaitChoice, ProgramOK, LockLabels, BakeryLabels, OwnLabels, CsLabels
<1>16. CASE BakeryWaitTurn(h)
  BY <1>16, <1>k, HostFacts, Zenon DEF BakeryWaitTurn, ProgramOK, LockLabels, BakeryLabels, OwnLabels, CsLabels
<1>17. CASE CasLock(h)
  BY <1>17, <1>k, HostFacts, Zenon DEF CasLock, ProgramOK, LockLabels, BakeryLabels, OwnLabels, CsLabels
<1>18. CASE OwnershipFree(h)
  BY <1>18, <1>g, <1>o, <1>t, Zenon DEF OwnershipFree, OwnershipAt, InCS, Free
<1>19. CASE OwnershipClaim(h)
  <2>1. stolen' = (stolen \/ InCS(Other(h))) /\ owner' = h /\ hpc'[h] = "confirm" /\ hpc[h] = "claim"
    BY <1>19, <1>t, Zenon DEF OwnershipClaim
  <2>2. CASE InCS(Other(h))
    <3>1. stolen'
      BY <2>1, <2>2, ZenonT(40)
    <3>. QED
      BY <3>1, Zenon DEF OwnershipAt
  <2>3. CASE ~InCS(Other(h))
    BY <2>1, <2>3, <1>o DEF OwnershipAt, InCS
  <2>. QED
    BY <2>2, <2>3, Zenon
<1>20. CASE OwnershipConfirm(h)
  BY <1>20, <1>g, <1>o, <1>t DEF OwnershipConfirm, OwnershipAt, InCS, Free
<1>21. CASE Unlock(h)
  <2>1. Kind(stage[h]) = "ownership"
    BY <1>21, <1>k, Zenon DEF Unlock, LockLabels, BakeryLabels, OwnLabels, CsLabels
  <2>. QED
    BY <1>21, <2>1, <1>g, <1>o, <1>t, Zenon DEF Unlock, OwnershipAt, InCS, Free
<1>22. CASE h = RoleA /\ Clear
  BY <1>22, <1>g, <1>o, <1>t, Zenon DEF Clear, OwnershipAt, InCS, Free
<1>23. CASE h = RoleA /\ BarrierTarget
  BY <1>23, <1>g, <1>o, <1>t, Zenon DEF BarrierTarget, OwnershipAt, InCS, Free
<1>24. CASE h = RoleA /\ BarrierSpin
  BY <1>24, <1>g, <1>o, <1>t, Zenon DEF BarrierSpin, LeaveBarrier, Entry, OwnershipAt, InCS, Free
<1>25. CASE h = RoleB /\ BarrierOdd
  BY <1>25, <1>g, <1>o, <1>t, Zenon DEF BarrierOdd, OwnershipAt, InCS, Free
<1>. QED
  BY <1>1, <1>2, <1>3, <1>4, <1>5, <1>6, <1>7, <1>8, <1>9, <1>10, <1>11, <1>12, <1>13, <1>14, <1>15, <1>16, <1>17, <1>18, <1>19, <1>20, <1>21, <1>22, <1>23, <1>24, <1>25, Zenon DEF Step, HostStep

\* The invariant excludes the two hosts from each other.
LEMMA Exclusion ==
    ASSUME BenchInv, Sound \/ wiped
    PROVE  ~(InCS(RoleA) /\ InCS(RoleB))
<1>. USE SMTT(40) DEF Hosts, RoleA, RoleB, Other
<1>. SUFFICES ASSUME InCS(RoleA), InCS(RoleB)
              PROVE  FALSE
  OBVIOUS
<1>1. hpc[RoleA] \in CsLabels /\ hpc[RoleB] \in CsLabels
  BY Zenon DEF InCS, CsLabels
<1>2. Live /\ Sound /\ Kind(stage[RoleA]) \in LockKinds
  BY <1>1, SameTest, HostFacts, Zenon DEF BenchInv, HandshakeInv, ProgramOK, LockLabels, CsLabels
<1>3. CASE Kind(stage[RoleA]) = "bakery"
  <2>1. BakeryAt(RoleA) /\ BakeryAt(RoleB) /\ ticket[RoleA] \in Nat /\ ticket[RoleB] \in Nat
    BY <1>2, <1>3, BenchAssumption DEF BenchInv, BakeryInv, BenchTypeOK
  <2>. QED
    BY <1>1, <2>1 DEF BakeryAt, OtherFirst, TakenLabels
<1>4. CASE Kind(stage[RoleA]) = "cas"
  BY <1>2, <1>4, Zenon DEF BenchInv, CasInv, CasAt
<1>5. CASE Kind(stage[RoleA]) = "ownership"
  BY <1>2, <1>5 DEF BenchInv, OwnershipInv, OwnershipAt, Sound
<1>. QED
  BY <1>2, <1>3, <1>4, <1>5, Zenon DEF LockKinds

\* What was stolen stays so, and only A's clearing can lose B.
LEMMA StolenStep ==
    ASSUME BenchInv, NEW h \in Hosts, Step(h)
    PROVE  (stolen => stolen') /\ (wiped' => wiped \/ (h = RoleA /\ Clear)) /\ (wiped => wiped')
<1>. USE SMTT(40) DEF Goto, Hosts, RoleA, RoleB, Other, ctrlVars, lockVars, countVars
<1>1. CASE Ready(h)
  BY <1>1, Zenon DEF Ready, BenchInv, BenchTypeOK, HandshakeInv
<1>2. CASE WaitReady(h)
  BY <1>2, Zenon DEF WaitReady, BenchInv, BenchTypeOK, HandshakeInv
<1>3. CASE Magic(h)
  BY <1>3, Zenon DEF Magic, EnterBarrier, BenchInv, BenchTypeOK, HandshakeInv
<1>4. CASE BarrierAdd(h)
  BY <1>4, Zenon DEF BarrierAdd, LeaveBarrier, Entry, BenchInv, BenchTypeOK, HandshakeInv
<1>5. CASE InitTest(h)
  BY <1>5, Zenon DEF InitTest, EnterBarrier, BenchInv, BenchTypeOK, HandshakeInv
<1>6. CASE Loop(h)
  BY <1>6, Zenon DEF Loop, EnterBarrier, BenchInv, BenchTypeOK, HandshakeInv
<1>7. CASE CsRead(h)
  BY <1>7, Zenon DEF CsRead, BenchInv, BenchTypeOK, HandshakeInv
<1>8. CASE CsWrite(h)
  BY <1>8, Zenon DEF CsWrite, BenchInv, BenchTypeOK, HandshakeInv
<1>9. CASE Check(h)
  BY <1>9, Zenon DEF Check, BenchInv, BenchTypeOK, HandshakeInv
<1>10. CASE Report(h)
  BY <1>10, Zenon DEF Report, EnterBarrier, BenchInv, BenchTypeOK, HandshakeInv
<1>11. CASE BakeryChoose(h)
  BY <1>11, Zenon DEF BakeryChoose, BenchInv, BenchTypeOK, HandshakeInv
<1>12. CASE BakeryLook(h)
  BY <1>12, Zenon DEF BakeryLook, BenchInv, BenchTypeOK, HandshakeInv
<1>13. CASE BakeryTake(h)
  BY <1>13, Zenon DEF BakeryTake, BenchInv, BenchTypeOK, HandshakeInv
<1>14. CASE BakeryChosen(h)
  BY <1>14, Zenon DEF BakeryChosen, BenchInv, BenchTypeOK, HandshakeInv
<1>15. CASE BakeryWaitChoice(h)
  BY <1>15, Zenon DEF BakeryWaitChoice, BenchInv, BenchTypeOK, HandshakeInv
<1>16. CASE BakeryWaitTurn(h)
  BY <1>16, Zenon DEF BakeryWaitTurn, BenchInv, BenchTypeOK, HandshakeInv
<1>17. CASE CasLock(h)
  BY <1>17, Zenon DEF CasLock, BenchInv, BenchTypeOK, HandshakeInv
<1>18. CASE OwnershipFree(h)
  BY <1>18, Zenon DEF OwnershipFree, BenchInv, BenchTypeOK, HandshakeInv
<1>19. CASE OwnershipClaim(h)
  BY <1>19, Zenon DEF OwnershipClaim, BenchInv, BenchTypeOK
<1>20. CASE OwnershipConfirm(h)
  BY <1>20, Zenon DEF OwnershipConfirm, BenchInv, BenchTypeOK, HandshakeInv
<1>21. CASE Unlock(h)
  BY <1>21, Zenon DEF Unlock, BenchInv, BenchTypeOK, HandshakeInv
<1>22. CASE h = RoleA /\ Clear
  BY <1>22, Zenon DEF Clear, BenchInv, BenchTypeOK, HandshakeInv
<1>23. CASE h = RoleA /\ BarrierTarget
  BY <1>23, Zenon DEF BarrierTarget, BenchInv, BenchTypeOK, HandshakeInv
<1>24. CASE h = RoleA /\ BarrierSpin
  BY <1>24, Zenon DEF BarrierSpin, LeaveBarrier, Entry, BenchInv, BenchTypeOK, HandshakeInv
<1>25. CASE h = RoleB /\ BarrierOdd
  BY <1>25, Zenon DEF BarrierOdd, BenchInv, BenchTypeOK, HandshakeInv
<1>. QED
  BY <1>1, <1>2, <1>3, <1>4, <1>5, <1>6, <1>7, <1>8, <1>9, <1>10, <1>11, <1>12, <1>13, <1>14, <1>15, <1>16, <1>17, <1>18, <1>19, <1>20, <1>21, <1>22, <1>23, <1>24, <1>25, ZenonT(40) DEF Step, HostStep

\* What holds before a step that ends with the words initialised.
LEMMA SoundStep ==
    ASSUME BenchInv, NEW h \in Hosts, Step(h), Live', Sound'
    PROVE  \/ InitTest(h) /\ h = RoleA
           \/ /\ Live /\ Sound /\ Evolves(h) /\ LocalAt
              /\ counter = Added(RoleA) + Added(RoleB)
              /\ ~(InCS(RoleA) /\ InCS(RoleB))
  BY LiveStep, TallyStep, StolenStep, Exclusion, ZenonT(40) DEF Sound, BenchInv, SumInv, LocalInv

\* Every step keeps the counter equal to the increments made.
LEMMA SumStep ==
    ASSUME BenchInv, Live', Sound', NEW h \in Hosts, Step(h)
    PROVE  counter' = Added(RoleA)' + Added(RoleB)'
<1>. USE SMTT(40) DEF Goto, Hosts, RoleA, RoleB, Other, ctrlVars, lockVars, countVars
<1>g. (hpc[h] = "init" /\ h = RoleA) \/
        /\ counter = Added(RoleA) + Added(RoleB) /\ LocalAt
        /\ Added(RoleA) \in Nat /\ Added(RoleB) \in Nat
        /\ Added(h)' = IF hpc[h] = "cs_write" THEN Added(h) + 1 ELSE Added(h)
        /\ h = RoleA => Added(RoleB)' = Added(RoleB)
        /\ h = RoleB => Added(RoleA)' = Added(RoleA)
  <2>1. CASE hpc[h] = "init" /\ h = RoleA
    BY <2>1, Zenon
  <2>2. CASE Evolves(h) /\ LocalAt /\ counter = Added(RoleA) + Added(RoleB)
    <3>1. \A g \in Hosts : Added(g) \in 0 .. Iters /\ (g # h => Added(g)' = Added(g))
      BY <2>2, Zenon DEF Evolves, Grows
    <3>2. Added(h)' = IF hpc[h] = "cs_write" THEN Added(h) + 1 ELSE Added(h)
      BY <2>2, Zenon DEF Evolves, Grows
    <3>. QED
      BY <2>2, <3>1, <3>2, BenchAssumption
  <2>. QED
    BY <2>1, <2>2, SoundStep, ZenonT(40) DEF InitTest
<1>t. hpc \in [Hosts -> BenchLabels]
  BY Zenon DEF BenchInv, BenchTypeOK
<1>1. CASE Ready(h)
  BY <1>1, <1>g, <1>t, Zenon DEF Ready
<1>2. CASE WaitReady(h)
  BY <1>2, <1>g, <1>t, Zenon DEF WaitReady
<1>3. CASE Magic(h)
  BY <1>3, <1>g, <1>t, Zenon DEF Magic
<1>4. CASE BarrierAdd(h)
  BY <1>4, <1>g, <1>t, Zenon DEF BarrierAdd
<1>5. CASE InitTest(h)
  <2>1. CASE h = RoleA
    <3>1. InitStage(stage[RoleA]) /\ ~wiped /\ hpc[RoleA] = "init"
      BY <1>5, <2>1, HostFacts, Zenon DEF InitTest, ProgramOK, BenchInv, HandshakeInv
    <3>2. stage[RoleB] = stage[RoleA]
      BY <3>1, Zenon DEF BenchInv, BarrierInv, Waiting
    <3>3. ~LoopStage(stage[RoleA]) /\ ~ReportStage(stage[RoleA])
      BY <3>1, HostFacts, StageFacts, Zenon
    <3>4. stage' = stage /\ counter' = 0
      BY <1>5, <2>1, Zenon DEF InitTest
    <3>. QED
      BY <3>2, <3>3, <3>4 DEF Added, Tally
  <2>2. CASE h = RoleB
    BY <1>5, <2>2, <1>g, <1>t DEF InitTest
  <2>. QED
    BY <2>1, <2>2, Zenon
<1>6. CASE Loop(h)
  BY <1>6, <1>g, <1>t, Zenon DEF Loop
<1>7. CASE CsRead(h)
  BY <1>7, <1>g, <1>t, Zenon DEF CsRead
<1>8. CASE CsWrite(h)
  BY <1>8, <1>g, <1>t DEF CsWrite, LocalAt
<1>9. CASE Check(h)
  BY <1>9, <1>g, <1>t, Zenon DEF Check
<1>10. CASE Report(h)
  BY <1>10, <1>g, <1>t, Zenon DEF Report
<1>11. CASE BakeryChoose(h)
  BY <1>11, <1>g, <1>t, Zenon DEF BakeryChoose
<1>12. CASE BakeryLook(h)
  BY <1>12, <1>g, <1>t, Zenon DEF BakeryLook
<1>13. CASE BakeryTake(h)
  BY <1>13, <1>g, <1>t, Zenon DEF BakeryTake
<1>14. CASE BakeryChosen(h)
  BY <1>14, <1>g, <1>t, Zenon DEF BakeryChosen
<1>15. CASE BakeryWaitChoice(h)
  BY <1>15, <1>g, <1>t, Zenon DEF BakeryWaitChoice
<1>16. CASE BakeryWaitTurn(h)
  BY <1>16, <1>g, <1>t, Zenon DEF BakeryWaitTurn
<1>17. CASE CasLock(h)
  BY <1>17, <1>g, <1>t, Zenon DEF CasLock
<1>18. CASE OwnershipFree(h)
  BY <1>18, <1>g, <1>t, Zenon DEF OwnershipFree
<1>19. CASE OwnershipClaim(h)
  BY <1>19, <1>g, <1>t, Zenon DEF OwnershipClaim
<1>20. CASE OwnershipConfirm(h)
  BY <1>20, <1>g, <1>t, Zenon DEF OwnershipConfirm
<1>21. CASE Unlock(h)
  BY <1>21, <1>g, <1>t, Zenon DEF Unlock
<1>22. CASE h = RoleA /\ Clear
  BY <1>22, <1>g, <1>t, Zenon DEF Clear
<1>23. CASE h = RoleA /\ BarrierTarget
  BY <1>23, <1>g, <1>t, Zenon DEF BarrierTarget
<1>24. CASE h = RoleA /\ BarrierSpin
  BY <1>24, <1>g, <1>t, Zenon DEF BarrierSpin
<1>25. CASE h = RoleB /\ BarrierOdd
  BY <1>25, <1>g, <1>t, Zenon DEF BarrierOdd
<1>. QED
  BY <1>1, <1>2, <1>3, <1>4, <1>5, <1>6, <1>7, <1>8, <1>9, <1>10, <1>11, <1>12, <1>13, <1>14, <1>15, <1>16, <1>17, <1>18, <1>19, <1>20, <1>21, <1>22, <1>23, <1>24, <1>25, Zenon DEF Step, HostStep

\* No step moves the counter under the other host.
LEMMA LocalStep ==
    ASSUME BenchInv, wiped' \/ (Live' /\ Sound'), NEW h \in Hosts, Step(h)
    PROVE  LocalAt'
<1>. USE SMTT(40) DEF Goto, Hosts, RoleA, RoleB, Other, ctrlVars, lockVars, countVars
<1>g. \/ hpc[h] = "init" /\ h = RoleA
      \/ h = RoleA /\ hpc[h] = "clear"
      \/ LocalAt /\ ~(InCS(RoleA) /\ InCS(RoleB))
  BY SoundStep, StolenStep, Exclusion, ZenonT(40) DEF BenchInv, LocalInv, InitTest, Clear
<1>o. hpc'[Other(h)] = hpc[Other(h)] /\ tmp'[Other(h)] = tmp[Other(h)] /\ Other(h) \in Hosts
  BY FrameStep
<1>t. hpc \in [Hosts -> BenchLabels] /\ tmp \in [Hosts -> Nat] /\ counter \in Nat
  BY Zenon DEF BenchInv, BenchTypeOK
<1>1. CASE Ready(h)
  BY <1>1, <1>g, <1>o, <1>t, Zenon DEF Ready, LocalAt
<1>2. CASE WaitReady(h)
  BY <1>2, <1>g, <1>o, <1>t, Zenon DEF WaitReady, LocalAt
<1>3. CASE Magic(h)
  BY <1>3, <1>g, <1>o, <1>t, Zenon DEF Magic, EnterBarrier, LocalAt
<1>4. CASE BarrierAdd(h)
  BY <1>4, <1>g, <1>o, <1>t, Zenon DEF BarrierAdd, LeaveBarrier, Entry, LocalAt
<1>5. CASE InitTest(h)
  <2>1. CASE h = RoleA
    <3>1. InitStage(stage[RoleA]) /\ ~wiped /\ hpc[RoleA] = "init"
      BY <1>5, <2>1, HostFacts, Zenon DEF InitTest, ProgramOK, BenchInv, HandshakeInv
    <3>2. stage[RoleB] = stage[RoleA]
      BY <3>1, Zenon DEF BenchInv, BarrierInv, Waiting
    <3>3. hpc[RoleB] \notin LockLabels
      BY <3>1, <3>2, HostFacts, StageFacts, Zenon DEF ProgramOK
    <3>. QED
      BY <1>5, <2>1, <3>3, <1>o, <1>t, Zenon DEF InitTest, EnterBarrier, LocalAt, LockLabels, CsLabels
  <2>2. CASE h = RoleB
    BY <1>5, <2>2, <1>g, <1>o, <1>t, Zenon DEF InitTest, EnterBarrier, LocalAt
  <2>. QED
    BY <2>1, <2>2, Zenon
<1>6. CASE Loop(h)
  <2>0. hpc'[h] \in {"choose", "cas", "free", "b_add", "b_odd"}
    BY <1>6, <1>t, HostFacts, Zenon DEF Loop, EnterBarrier
  <2>. QED
    BY <1>6, <2>0, <1>g, <1>o, <1>t, Zenon DEF Loop, LocalAt
<1>7. CASE CsRead(h)
  BY <1>7, <1>g, <1>o, <1>t, Zenon DEF CsRead, LocalAt
<1>8. CASE CsWrite(h)
  BY <1>8, <1>g, <1>o, <1>t DEF CsWrite, LocalAt, InCS
<1>9. CASE Check(h)
  BY <1>9, <1>g, <1>o, <1>t, Zenon DEF Check, LocalAt
<1>10. CASE Report(h)
  BY <1>10, <1>g, <1>o, <1>t, Zenon DEF Report, EnterBarrier, LocalAt
<1>11. CASE BakeryChoose(h)
  BY <1>11, <1>g, <1>o, <1>t, Zenon DEF BakeryChoose, LocalAt
<1>12. CASE BakeryLook(h)
  BY <1>12, <1>g, <1>o, <1>t, Zenon DEF BakeryLook, LocalAt
<1>13. CASE BakeryTake(h)
  BY <1>13, <1>g, <1>o, <1>t, Zenon DEF BakeryTake, LocalAt
<1>14. CASE BakeryChosen(h)
  BY <1>14, <1>g, <1>o, <1>t, Zenon DEF BakeryChosen, LocalAt
<1>15. CASE BakeryWaitChoice(h)
  BY <1>15, <1>g, <1>o, <1>t, Zenon DEF BakeryWaitChoice, LocalAt
<1>16. CASE BakeryWaitTurn(h)
  BY <1>16, <1>g, <1>o, <1>t, Zenon DEF BakeryWaitTurn, LocalAt
<1>17. CASE CasLock(h)
  BY <1>17, <1>g, <1>o, <1>t, Zenon DEF CasLock, LocalAt
<1>18. CASE OwnershipFree(h)
  BY <1>18, <1>g, <1>o, <1>t, Zenon DEF OwnershipFree, LocalAt
<1>19. CASE OwnershipClaim(h)
  BY <1>19, <1>g, <1>o, <1>t, Zenon DEF OwnershipClaim, LocalAt
<1>20. CASE OwnershipConfirm(h)
  BY <1>20, <1>g, <1>o, <1>t, Zenon DEF OwnershipConfirm, LocalAt
<1>21. CASE Unlock(h)
  BY <1>21, <1>g, <1>o, <1>t, Zenon DEF Unlock, LocalAt
<1>22. CASE h = RoleA /\ Clear
  <2>1. hpc[RoleA] = "clear"
    BY <1>22, Zenon DEF Clear
  <2>2. stage[RoleB] \in 0 .. LastStage /\ stage[RoleB] < 2
    BY <2>1, HostFacts DEF BenchInv, HandshakeInv
  <2>3. hpc[RoleB] \notin LockLabels
    BY <2>2, HostFacts, StageFacts DEF ProgramOK
  <2>. QED
    BY <1>22, <2>3, <1>o, <1>t, Zenon DEF Clear, LocalAt, LockLabels, CsLabels
<1>23. CASE h = RoleA /\ BarrierTarget
  BY <1>23, <1>g, <1>o, <1>t, Zenon DEF BarrierTarget, LocalAt
<1>24. CASE h = RoleA /\ BarrierSpin
  BY <1>24, <1>g, <1>o, <1>t, Zenon DEF BarrierSpin, LeaveBarrier, Entry, LocalAt
<1>25. CASE h = RoleB /\ BarrierOdd
  BY <1>25, <1>g, <1>o, <1>t, Zenon DEF BarrierOdd, LocalAt
<1>. QED
  BY <1>1, <1>2, <1>3, <1>4, <1>5, <1>6, <1>7, <1>8, <1>9, <1>10, <1>11, <1>12, <1>13, <1>14, <1>15, <1>16, <1>17, <1>18, <1>19, <1>20, <1>21, <1>22, <1>23, <1>24, <1>25, Zenon DEF Step, HostStep

\* No step counts a violation or reports a failure that no theft explains.
LEMMA VerdictStep ==
    ASSUME BenchInv, NEW h \in Hosts, Step(h)
    PROVE  CountsEveryIncrement'
<1>. USE SMTT(40) DEF Goto, Hosts, RoleA, RoleB, Other, ctrlVars, lockVars, countVars
<1>. USE DEF CountsEveryIncrement
<1>t. /\ violations \in [Hosts -> Nat] /\ CountsEveryIncrement
      /\ verdict \in [1 .. Len(Tests) -> {"none", "PASS", "FAIL"}]
  BY Zenon DEF BenchInv, BenchTypeOK
<1>1. CASE Ready(h)
  BY <1>1, <1>t, StolenStep, Zenon DEF Ready
<1>2. CASE WaitReady(h)
  BY <1>2, <1>t, StolenStep, Zenon DEF WaitReady
<1>3. CASE Magic(h)
  BY <1>3, <1>t, StolenStep, Zenon DEF Magic
<1>4. CASE BarrierAdd(h)
  BY <1>4, <1>t, StolenStep, Zenon DEF BarrierAdd
<1>5. CASE InitTest(h)
  BY <1>5, <1>t, StolenStep, Zenon DEF InitTest
<1>6. CASE Loop(h)
  BY <1>6, <1>t, StolenStep, Zenon DEF Loop
<1>7. CASE CsRead(h)
  BY <1>7, <1>t, StolenStep, Zenon DEF CsRead
<1>8. CASE CsWrite(h)
  BY <1>8, <1>t, StolenStep, Zenon DEF CsWrite
<1>9. CASE Check(h)
  <2>1. hpc[h] = "check" /\ Kind(stage[h]) = "bakery"
    BY <1>9, HostFacts, Zenon DEF Check, ProgramOK
  <2>2. wiped \/ (Live /\ Sound)
    BY <2>1, SameTest, Zenon DEF Sound, LockLabels, CsLabels
  <2>3. counter = tmp[h] + 1
    BY <2>1, <2>2, Zenon DEF BenchInv, LocalInv, LocalAt
  <2>. QED
    BY <1>9, <2>3, <1>t, StolenStep, Zenon DEF Check
<1>10. CASE Report(h)
  <2>1. CASE h = RoleB
    BY <1>10, <2>1, <1>t, StolenStep DEF Report
  <2>2. CASE h = RoleA
    <3>1. hpc[RoleA] = "report" /\ ReportStage(stage[RoleA]) /\ ~wiped
      BY <1>10, <2>2, HostFacts, Zenon DEF Report, ProgramOK, BenchInv, HandshakeInv
    <3>2. stage[RoleB] = stage[RoleA] /\ Live
      BY <3>1, Zenon DEF BenchInv, BarrierInv, Waiting, Live
    <3>3. ~LoopStage(stage[RoleA]) /\ Iters \in Nat /\ TestOf(stage[RoleA]) \in 1 .. Len(Tests)
      BY <3>1, HostFacts, StageFacts, BenchAssumption
    <3>4. Added(RoleA) = Iters /\ Added(RoleB) = Iters
      BY <3>1, <3>2, <3>3, Zenon DEF Added, Tally
    <3>5. Sound => counter = 2 * Iters
      BY <3>2, <3>3, <3>4 DEF BenchInv, SumInv
    <3>6. counter = 2 * Iters \/ (Tests[TestOf(stage[RoleA])] = "ownership" /\ stolen)
      BY <3>5, Zenon DEF Sound, Kind
    <3>. QED
      BY <1>10, <2>2, <3>3, <3>6, <1>t, StolenStep, Zenon DEF Report
  <2>. QED
    BY <2>1, <2>2, Zenon
<1>11. CASE BakeryChoose(h)
  BY <1>11, <1>t, StolenStep, Zenon DEF BakeryChoose
<1>12. CASE BakeryLook(h)
  BY <1>12, <1>t, StolenStep, Zenon DEF BakeryLook
<1>13. CASE BakeryTake(h)
  BY <1>13, <1>t, StolenStep, Zenon DEF BakeryTake
<1>14. CASE BakeryChosen(h)
  BY <1>14, <1>t, StolenStep, Zenon DEF BakeryChosen
<1>15. CASE BakeryWaitChoice(h)
  BY <1>15, <1>t, StolenStep, Zenon DEF BakeryWaitChoice
<1>16. CASE BakeryWaitTurn(h)
  BY <1>16, <1>t, StolenStep, Zenon DEF BakeryWaitTurn
<1>17. CASE CasLock(h)
  BY <1>17, <1>t, StolenStep, Zenon DEF CasLock
<1>18. CASE OwnershipFree(h)
  BY <1>18, <1>t, StolenStep, Zenon DEF OwnershipFree
<1>19. CASE OwnershipClaim(h)
  BY <1>19, <1>t, StolenStep, Zenon DEF OwnershipClaim
<1>20. CASE OwnershipConfirm(h)
  BY <1>20, <1>t, StolenStep, Zenon DEF OwnershipConfirm
<1>21. CASE Unlock(h)
  BY <1>21, <1>t, StolenStep, Zenon DEF Unlock
<1>22. CASE h = RoleA /\ Clear
  BY <1>22, <1>t, StolenStep, Zenon DEF Clear
<1>23. CASE h = RoleA /\ BarrierTarget
  BY <1>23, <1>t, StolenStep, Zenon DEF BarrierTarget
<1>24. CASE h = RoleA /\ BarrierSpin
  BY <1>24, <1>t, StolenStep, Zenon DEF BarrierSpin
<1>25. CASE h = RoleB /\ BarrierOdd
  BY <1>25, <1>t, StolenStep, Zenon DEF BarrierOdd
<1>. QED
  BY <1>1, <1>2, <1>3, <1>4, <1>5, <1>6, <1>7, <1>8, <1>9, <1>10, <1>11, <1>12, <1>13, <1>14, <1>15, <1>16, <1>17, <1>18, <1>19, <1>20, <1>21, <1>22, <1>23, <1>24, <1>25, ZenonT(40) DEF Step, HostStep

\* The start of the program: before A clears the control block anything may be
\* in it.
LEMMA BenchStart == BenchInit => BenchInv
<1>. SUFFICES ASSUME BenchInit
              PROVE  BenchInv
  OBVIOUS
<1>. USE SMTT(40) DEF Hosts, RoleA, RoleB, Other
<1>0. LastStage \in Nat /\ LastStage > 0 /\ ~LoopStage(0) /\ ~ReportStage(0) /\ ~InitStage(0)
  BY BenchAssumption DEF LastStage, LoopStage, ReportStage, InitStage
<1>1. BenchTypeOK
  <2>1. /\ magic \in BOOLEAN /\ ready \in [Hosts -> BOOLEAN] /\ seq \in Nat
        /\ wiped \in BOOLEAN /\ late \in BOOLEAN /\ stolen \in BOOLEAN
    BY BenchAssumption, ZenonT(40) DEF BenchInit
  <2>2. /\ choosing \in [Hosts -> BOOLEAN] /\ lock \in BOOLEAN
        /\ ticket \in [Hosts -> 0 .. TicketMod - 1]
        /\ owner \in Hosts \cup {Free} /\ counter \in Nat
    <3>1. choosing \in [Hosts -> BOOLEAN] /\ lock \in BOOLEAN
      BY Zenon DEF BenchInit
    <3>2. 0 \in 0 .. TicketMod - 1
      BY BenchAssumption
    <3>3. ticket \in [Hosts -> 0 .. TicketMod - 1]
      BY <3>2, Zenon DEF BenchInit
    <3>4. owner \in Hosts \cup {Free} /\ counter \in Nat
      BY Zenon DEF BenchInit
    <3>. QED
      BY <3>1, <3>3, <3>4, Zenon
  <2>3. /\ hpc \in [Hosts -> BenchLabels] /\ stage \in [Hosts -> 0 .. LastStage]
        /\ iter \in [Hosts -> 0 .. Iters] /\ tmp \in [Hosts -> Nat]
    BY <1>0, BenchAssumption DEF BenchInit, BenchLabels
  <2>4. /\ violations \in [Hosts -> Nat]
        /\ verdict \in [1 .. Len(Tests) -> {"none", "PASS", "FAIL"}]
    BY Zenon DEF BenchInit
  <2>. QED
    BY <2>1, <2>2, <2>3, <2>4, Zenon DEF BenchTypeOK
<1>2. HandshakeInv /\ BarrierInv
  BY Zenon DEF BenchInit, HandshakeInv, BarrierInv, Waiting
<1>3. \A h \in Hosts : hpc[h] \in {"clear", "ready"} /\ (hpc[h] = "clear" => h = RoleA) /\ stage[h] = 0
  BY Zenon DEF BenchInit
<1>4. ProgramInv
  BY <1>0, <1>3 DEF ProgramInv, ProgramOK, LockLabels, BakeryLabels, OwnLabels, CsLabels
<1>5. ~Live /\ ~wiped
  BY Zenon DEF BenchInit, Live
<1>6. CountsEveryIncrement
  BY Zenon DEF BenchInit, CountsEveryIncrement
<1>. QED
  BY <1>1, <1>2, <1>4, <1>5, <1>6, Zenon DEF BenchInv, BakeryInv, CasInv, OwnershipInv, SumInv, LocalInv

\* The invariant is inductive.
LEMMA BenchStep == BenchInv /\ [BenchNext]_benchVars => BenchInv'
<1>1. ASSUME BenchInv, NEW h \in Hosts, Step(h)
      PROVE  BenchInv'
  <2>1. BenchTypeOK' /\ HandshakeInv' /\ BarrierInv' /\ ProgramInv' /\ CountsEveryIncrement'
    BY <1>1, TypeStep, BarrierStep, ProgramStep, VerdictStep, Zenon
  <2>2. BakeryInv' /\ CasInv' /\ OwnershipInv'
    BY <1>1, BakeryStep, CasStep, OwnershipStep, Zenon DEF BakeryInv, CasInv, OwnershipInv
  <2>3. SumInv'
    BY <1>1, SumStep, Zenon DEF SumInv
  <2>4. LocalInv'
    BY <1>1, LocalStep, Zenon DEF LocalInv
  <2>. QED
    BY <2>1, <2>2, <2>3, <2>4, Zenon DEF BenchInv
<1>2. ASSUME BenchInv, UNCHANGED benchVars
      PROVE  BenchInv'
  <2>. USE <1>2, SMTT(40) DEF benchVars, ctrlVars, lockVars, countVars
  <2>0. BenchTypeOK' /\ CountsEveryIncrement'
    BY Zenon DEF BenchInv, BenchTypeOK, CountsEveryIncrement
  <2>1. HandshakeInv' /\ BarrierInv' /\ ProgramInv'
    BY ZenonT(40) DEF BenchInv, HandshakeInv, BarrierInv, Waiting, ProgramInv
  <2>2. (Live' <=> Live) /\ (Sound' <=> Sound) /\ Kind(stage[RoleA])' = Kind(stage[RoleA])
    BY ZenonT(40) DEF Live, Sound
  <2>3. \A h \in Hosts : Begun(h)' = Begun(h) /\ Added(h)' = Added(h)
    BY ZenonT(40) DEF Begun, Added
  <2>4. BakeryInv'
    BY <2>2, <2>3, Zenon DEF BenchInv, BakeryInv, BakeryAt, OtherFirst, Hosts, RoleA, RoleB
  <2>5. CasInv' /\ OwnershipInv'
    BY <2>2, ZenonT(40) DEF BenchInv, CasInv, CasAt, OwnershipInv, OwnershipAt, InCS
  <2>6. SumInv' /\ LocalInv'
    BY <2>2, <2>3, Zenon DEF BenchInv, SumInv, LocalInv, LocalAt, Hosts, RoleA, RoleB
  <2>. QED
    BY <2>0, <2>1, <2>4, <2>5, <2>6, Zenon DEF BenchInv
<1>. QED
  BY <1>1, <1>2, NextIsStep, Zenon

\* The inductive invariant holds in every run of the benchmark.
LEMMA BenchInvariant == BenchSpec => []BenchInv
  BY BenchStart, BenchStep, PTL DEF BenchSpec

\* At most one of the two hosts is inside a lock, for the bakery and the
\* compare-and-swap lock always, for the ownership lock unless a confirmed
\* ownership was overwritten: for every list of tests, iteration count and
\* ticket width above 2 * Iters.
THEOREM BenchMutex == BenchSpec => []BenchMutualExclusion
<1>1. BenchInv => BenchMutualExclusion
  BY Exclusion, Zenon DEF BenchMutualExclusion, Sound, BenchInv, BenchTypeOK
<1>. QED
  BY <1>1, BenchInvariant, PTL

\* run_q1_bakery counts no violation, and run_q1_bakery, run_q2b_cas and
\* run_q2a_ownership find the counter at 2 * Iters, unless an ownership was
\* stolen.
THEOREM BenchCounts == BenchSpec => []CountsEveryIncrement
<1>1. BenchInv => CountsEveryIncrement
  BY Zenon DEF BenchInv
<1>. QED
  BY <1>1, BenchInvariant, PTL

\* barrier keeps the hosts within one stage of each other, and A never ahead,
\* whatever the sequence word held before the run.
THEOREM BenchBarrier == BenchSpec => []BarrierSeparates
<1>1. BenchInv => BarrierSeparates
  <2>. SUFFICES ASSUME BenchInv
                PROVE  BarrierSeparates
    OBVIOUS
  <2>. USE SMTT(40)
  <2>1. stage[RoleA] \in Nat /\ stage[RoleB] \in Nat
    BY HostFacts DEF BenchInv, BenchTypeOK, Hosts, RoleA, RoleB
  <2>2. hpc[RoleA] \in {"clear", "ready", "wait"} => stage[RoleA] = 0
    BY HostFacts, Zenon DEF ProgramOK, Hosts, RoleA, RoleB
  <2>3. CASE wiped
    <3>1. stage[RoleA] = 0
      BY <2>2, <2>3, Zenon DEF BenchInv, HandshakeInv
    <3>. QED
      BY <2>1, <2>3, <3>1 DEF BarrierSeparates
  <2>4. CASE ~wiped /\ hpc[RoleA] = "clear"
    <3>1. stage[RoleA] = 0 /\ (stage[RoleB] = 0 \/ stage[RoleB] = 1)
      BY <2>2, <2>4, Zenon DEF BenchInv, HandshakeInv
    <3>. QED
      BY <3>1 DEF BarrierSeparates
  <2>5. CASE ~wiped /\ hpc[RoleA] # "clear"
    <3>1. stage[RoleB] = stage[RoleA] \/ stage[RoleB] = stage[RoleA] + 1
      BY <2>5, Zenon DEF BenchInv, BarrierInv
    <3>. QED
      BY <2>1, <3>1 DEF BarrierSeparates
  <2>. QED
    BY <2>3, <2>4, <2>5, Zenon
<1>. QED
  BY <1>1, BenchInvariant, PTL
=============================================================================
