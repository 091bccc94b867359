------------------------- MODULE EpochTurnsProofs -------------------------
(***************************************************************************)
(* The scheduler's coroutines, left to themselves, implement EpochTurns:   *)
(* in both advance paths, for any players, phase layout and faults.        *)
(***************************************************************************)
EXTENDS EpochCycleProofs

\* What EpochTurns calls due.
Due == {loc[p].cycle + 1 : p \in {q \in Proc : pc[q] \in AfterAdvance}}

\* The steps EpochTurns does not see, and those that only drop a turn: a
\* coroutine in the middle of its calls returns, or goes on.
LEMMA Shrinks ==
    ASSUME UNCHANGED <<status, current_cycle, deadline, instances, piped>>,
           \A q \in Proc : pc'[q] \in AfterAdvance =>
               pc[q] \in AfterAdvance /\ loc'[q].cycle = loc[q].cycle
    PROVE  [Turns!Next]_Turns!turns
<1>1. Due' \subseteq Due
    BY DEF Due
<1>2. PICK lost \in SUBSET Due : Due' = Due \ lost
    BY <1>1
<1>3. Turns!Lose(lost)
    BY <1>2 DEF Turns!Lose, Due
<1> QED
    BY <1>3 DEF Turns!Next, Due

\* A coroutine stays past the increment, with its cycle, and so do the others.
LEMMA DueKept ==
    ASSUME \A q \in Proc : pc'[q] \in AfterAdvance <=> pc[q] \in AfterAdvance,
           \A q \in Proc : pc[q] \in AfterAdvance => loc'[q].cycle = loc[q].cycle
    PROVE  Due' = Due
BY DEF Due

\* What a coroutine holds in its locals still is what the row says, for nobody
\* else can have changed the row since it was read.
Coherent(p) ==
    /\ pc[p] \notin AfterAdvance => loc[p].number = 0
    /\ pc[p] \in BeforeAdvance => loc[p].cycle = current_cycle /\ loc[p].status = status
                                  /\ status \in ActiveStatus
    /\ pc[p] = "phase" => loc[p].status = PhaseAfter(status, current_cycle)
    /\ pc[p] = "enter" => loc[p].status = status /\ loc[p].number \in {0, current_cycle}
    /\ pc[p] = "deadline" => loc[p].status = status /\ loc[p].number = current_cycle
    /\ pc[p] \in {"phase", "enter", "refetch", "deadline"} => loc[p].cycle + 1 = current_cycle
    /\ pc[p] \in {"phase", "rearm", "pipeline"} => loc[p].number = loc[p].cycle + 1

Unattended ==
    /\ TypeOK /\ OneScheduledResolver /\ WinnersDistinct
    /\ status \in ActiveStatus \cup {"completed"}
    /\ \A p \in Proc : Coherent(p)

\* A step that leaves the row alone, and the locals of whoever is at work.
LEMMA CoherentKept ==
    ASSUME Unattended, UNCHANGED <<status, current_cycle>>,
           NEW q \in Proc,
           \/ pc'[q] = pc[q] /\ loc'[q] = loc[q]
           \/ /\ pc'[q] \notin AfterAdvance \cup BeforeAdvance
              /\ loc'[q].number = 0
    PROVE  Coherent(q)'
BY DEF Unattended, Coherent, AfterAdvance, BeforeAdvance

\* The row may change under whoever is neither to read nor to write it.
LEMMA CoherentAside ==
    ASSUME Unattended, NEW q \in Proc, q \notin Holding,
           pc'[q] = pc[q], loc'[q] = loc[q]
    PROVE  Coherent(q)'
BY DEF Unattended, Coherent, Holding, AfterAdvance, BeforeAdvance

LEMMA CoherentStep ==
    ASSUME Unattended, [Next]_vars, Request = {}
    PROVE  /\ status' \in ActiveStatus \cup {"completed"}
           /\ \A q \in Proc : Coherent(q)'
<1> DEFINE Kept == /\ status' \in ActiveStatus \cup {"completed"}
                   /\ \A q \in Proc : Coherent(q)'
<1> SUFFICES Kept
    OBVIOUS
<1> USE DEF row, players, history, Goto, Return, Blank
<1>0. /\ TypeOK /\ OneScheduledResolver
      /\ status \in ActiveStatus \cup {"completed"}
      /\ \A q \in Proc : Coherent(q)
      /\ \A p, q \in Holding : p = q
      /\ loc \in [Proc -> Locals] /\ pc \in [Proc -> Label]
      /\ Timer \in Proc /\ Sweep \in Proc
    BY DEF Unattended, OneScheduledResolver, TypeOK, Proc
<1>1. CASE DeadlinePasses
    BY <1>0, <1>1, CoherentKept DEF DeadlinePasses
<1>2. CASE SweepExpiredCycles
    BY <1>0, <1>2, CoherentKept DEF SweepExpiredCycles, Coherent, AfterAdvance,
           BeforeAdvance, Locals
<1>3. CASE EagerWait
    BY <1>0, <1>3, CoherentKept DEF EagerWait, Coherent, AfterAdvance, BeforeAdvance, Locals
<1>4. CASE Restart
    BY <1>0, <1>4, CoherentKept DEF Restart, AfterAdvance, BeforeAdvance
<1>5. ASSUME NEW h \in Player, MarkActed(h) \/ WithdrawReady(h)
      PROVE  Kept
    BY <1>0, <1>5, CoherentKept DEF MarkActed, WithdrawReady
<1>6. ASSUME NEW p \in Proc, Schedule(p)
      PROVE  Kept
    BY <1>0, <1>6, CoherentKept DEF Schedule, ClaimDeadline, ClaimRefused, ProcessAfkBatch,
           ReplaceAfkWithBot, MercyReset, Coherent, AfterAdvance, BeforeAdvance, Locals
<1>7. CASE UNCHANGED vars
    BY <1>0, <1>7, CoherentKept DEF vars
<1>8. ASSUME NEW p \in Proc, ReadEpoch(p)
      PROVE  Kept
    BY <1>0, <1>8, CoherentKept DEF ReadEpoch, Coherent, AfterAdvance, BeforeAdvance, Locals
<1>9. ASSUME NEW p \in Proc, GrantRp(p) \/ ResetFlags(p) \/ AdvanceMissionTimers(p)
      PROVE  Kept
    BY <1>0, <1>9, CoherentKept DEF GrantRp, ResetFlags, AdvanceMissionTimers, Coherent,
           AfterAdvance, BeforeAdvance
<1>10. ASSUME NEW p \in Proc, AdvanceConflict(p) \/ RunPipeline(p) \/ CallFails(p)
       PROVE  Kept
    BY <1>0, <1>10, CoherentKept DEF AdvanceConflict, RunPipeline, CallFails,
           AfterAdvance, BeforeAdvance
<1>11. ASSUME NEW p \in Proc, AdvanceAtomic(p)
       PROVE  Kept
    <2>1. p \in Holding
        BY <1>11 DEF AdvanceAtomic, Holding, BeforeAdvance
    <2>2. \A q \in Proc \ {p} : Coherent(q)'
        BY <1>0, <1>11, <2>1, CoherentAside DEF AdvanceAtomic
    <2>3. /\ status' \in ActiveStatus \cup {"completed"}
          /\ loc'[p].status = status' /\ loc'[p].cycle = loc[p].cycle /\ loc'[p].number = 0
        BY <1>0, <1>11 DEF AdvanceAtomic, PhaseAfter, ActiveStatus, Locals, Coherent, AfterAdvance
    <2> QED
        BY <1>0, <1>11, <2>2, <2>3 DEF AdvanceAtomic, Coherent, AfterAdvance, BeforeAdvance
<1>12. ASSUME NEW p \in Proc, AdvanceLegacy(p)
       PROVE  Kept
    <2>1. p \in Holding
        BY <1>12 DEF AdvanceLegacy, Holding, BeforeAdvance
    <2>2. \A q \in Proc \ {p} : Coherent(q)'
        BY <1>0, <1>12, <2>1, CoherentAside DEF AdvanceLegacy
    <2>3. /\ status' = status /\ loc[p].status = status /\ current_cycle' = current_cycle + 1
          /\ loc[p].cycle = current_cycle
        BY <1>0, <1>12 DEF AdvanceLegacy, Coherent, BeforeAdvance
    <2>4. /\ loc'[p].status = PhaseAfter(status', current_cycle')
          /\ loc'[p].cycle = loc[p].cycle /\ loc'[p].number = current_cycle'
          /\ pc'[p] = IF loc'[p].status # status THEN "phase" ELSE "deadline"
        BY <1>0, <1>12, <2>3 DEF AdvanceLegacy, Locals
    <2> QED
        BY <1>0, <1>12, <2>2, <2>3, <2>4 DEF Coherent, AfterAdvance, BeforeAdvance
<1>13. ASSUME NEW p \in Proc, UpdatePhase(p)
       PROVE  Kept
    <2>1. p \in Holding
        BY <1>13 DEF UpdatePhase, Holding
    <2>2. \A q \in Proc \ {p} : Coherent(q)'
        BY <1>0, <1>13, <2>1, CoherentAside DEF UpdatePhase
    <2>3. loc[p].status \in ActiveStatus \cup {"completed"}
        BY <1>0, <1>13 DEF UpdatePhase, Coherent, PhaseAfter, ActiveStatus
    <2>4. CASE Return(p)
        BY <1>0, <1>13, <2>2, <2>3, <2>4 DEF UpdatePhase, Coherent, AfterAdvance, BeforeAdvance
    <2>5. CASE /\ Goto(p, "enter")
               /\ loc' = [loc EXCEPT ![p].number = current_cycle]
        BY <1>0, <1>13, <2>2, <2>3, <2>5
        DEF UpdatePhase, Coherent, AfterAdvance, BeforeAdvance, Locals
    <2> QED
        BY <1>13, <2>4, <2>5 DEF UpdatePhase
<1>14. ASSUME NEW p \in Proc, ApplyPhaseTransition(p)
       PROVE  Kept
    BY <1>0, <1>14, CoherentKept DEF ApplyPhaseTransition, Coherent, AfterAdvance, BeforeAdvance
<1>15. ASSUME NEW p \in Proc, RefetchEpoch(p)
       PROVE  Kept
    BY <1>0, <1>15, CoherentKept DEF RefetchEpoch, Coherent, AfterAdvance, BeforeAdvance, Locals
<1>16. ASSUME NEW p \in Proc, SetNextCycleDeadline(p)
       PROVE  Kept
    BY <1>0, <1>16, CoherentKept DEF SetNextCycleDeadline, Coherent, AfterAdvance, BeforeAdvance,
           Locals
<1>17. ASSUME NEW p \in Proc, ScheduleEagerTimer(p)
       PROVE  Kept
    BY <1>0, <1>17, CoherentKept DEF ScheduleEagerTimer, Coherent, AfterAdvance, BeforeAdvance
<1> QED
    BY <1>1, <1>2, <1>3, <1>4, <1>5, <1>6, <1>7, <1>8, <1>9, <1>10, <1>11, <1>12, <1>13,
       <1>14, <1>15, <1>16, <1>17
    DEF Next, Resolve

\* Every step of the coroutines is one of EpochTurns, or leaves it alone.
LEMMA TurnsStep ==
    ASSUME Unattended, [Next]_vars, Request = {}
    PROVE  [Turns!Next]_Turns!turns
<1> USE DEF row, players, history, Goto, Return, Blank
<1>0. /\ TypeOK /\ OneScheduledResolver /\ WinnersDistinct
      /\ status \in ActiveStatus \cup {"completed"}
      /\ \A q \in Proc : Coherent(q)
      /\ \A p, q \in Holding : p = q
      /\ Holding # {} => deadline = NoDeadline
      /\ loc \in [Proc -> Locals] /\ pc \in [Proc -> Label]
      /\ Timer \in Proc /\ Sweep \in Proc
    BY DEF Unattended, OneScheduledResolver, TypeOK, Proc
<1>1. CASE DeadlinePasses
    <2>1. Due' = Due
        BY <1>1 DEF DeadlinePasses, Due
    <2>2. deadline # NoDeadline /\ deadline' # NoDeadline
        BY <1>0, <1>1 DEF DeadlinePasses, NoDeadline, TypeOK, Deadline
    <2> QED
        BY <1>1, <2>1, <2>2 DEF DeadlinePasses, Turns!turns, Due
<1>2. CASE SweepExpiredCycles \/ EagerWait \/ Restart
    BY <1>0, <1>2, Shrinks DEF SweepExpiredCycles, EagerWait, Restart, AfterAdvance
<1>3. ASSUME NEW h \in Player, MarkActed(h) \/ WithdrawReady(h)
      PROVE  [Turns!Next]_Turns!turns
    BY <1>0, <1>3, Shrinks DEF MarkActed, WithdrawReady
<1>4. ASSUME NEW p \in Proc, ClaimDeadline(p)
      PROVE  [Turns!Next]_Turns!turns
    <2>1. Due' = Due
        BY <1>0, <1>4, DueKept DEF ClaimDeadline, AfterAdvance
    <2>2. Turns!Close
        BY <1>4, <2>1 DEF ClaimDeadline, Claimable, NoDeadline, Turns!Close, Due,
               Turns!ActiveStatus, ActiveStatus
    <2> QED
        BY <2>2 DEF Turns!Next
<1>5. ASSUME NEW p \in Proc,
             ClaimRefused(p) \/ ProcessAfkBatch(p) \/ ReplaceAfkWithBot(p) \/ MercyReset(p)
      PROVE  [Turns!Next]_Turns!turns
    BY <1>0, <1>5, Shrinks DEF ClaimRefused, ProcessAfkBatch, ReplaceAfkWithBot, MercyReset,
           AfterAdvance
<1>6. ASSUME NEW p \in Proc,
             \/ ReadEpoch(p) \/ GrantRp(p) \/ ResetFlags(p) \/ AdvanceMissionTimers(p)
             \/ AdvanceConflict(p)
      PROVE  [Turns!Next]_Turns!turns
    BY <1>0, <1>6, Shrinks DEF ReadEpoch, GrantRp, ResetFlags, AdvanceMissionTimers,
           AdvanceConflict, AfterAdvance
<1>7. ASSUME NEW p \in Proc, AdvanceAtomic(p) \/ AdvanceLegacy(p)
      PROVE  [Turns!Next]_Turns!turns
    <2>1. /\ loc[p].cycle = current_cycle /\ current_cycle' = current_cycle + 1
          /\ status \in ActiveStatus /\ status' \in {status, PhaseAfter(status, current_cycle + 1)}
          /\ pc[p] = "advance" /\ pc'[p] \in AfterAdvance /\ loc'[p].cycle = loc[p].cycle
          /\ \A q \in Proc \ {p} : pc'[q] = pc[q] /\ loc'[q] = loc[q]
          /\ UNCHANGED <<deadline, instances, piped>>
        <3>1. CASE AdvanceAtomic(p)
            BY <1>0, <3>1 DEF AdvanceAtomic, AfterAdvance, Coherent, BeforeAdvance, Locals
        <3>2. CASE AdvanceLegacy(p)
            BY <1>0, <3>2 DEF AdvanceLegacy, AfterAdvance, Coherent, BeforeAdvance, Locals
        <3> QED
            BY <1>7, <3>1, <3>2
    <2>2. Due' = Due \cup {current_cycle + 1}
        BY <1>0, <2>1 DEF Due, AfterAdvance
    <2>3. deadline = NoDeadline
        BY <1>0, <2>1 DEF Holding, BeforeAdvance
    <2>4. Turns!NextTurn
        BY <2>1, <2>2, <2>3 DEF Turns!NextTurn, Turns!PhaseAfter, PhaseAfter, Due,
               Turns!ActiveStatus, ActiveStatus, Turns!ReckoningStart, ReckoningStart
    <2> QED
        BY <2>4 DEF Turns!Next
<1>8. CASE UNCHANGED vars
    BY <1>0, <1>8, Shrinks DEF vars
<1>9. ASSUME NEW p \in Proc, UpdatePhase(p)
      PROVE  [Turns!Next]_Turns!turns
    <2>1. CASE Return(p) /\ UNCHANGED status
        BY <1>0, <1>9, <2>1, Shrinks DEF UpdatePhase, AfterAdvance
    <2>2. CASE /\ status' = loc[p].status
               /\ Goto(p, "enter")
               /\ loc' = [loc EXCEPT ![p].number = current_cycle]
        <3>1. Due' = Due
            BY <1>0, <1>9, <2>2, DueKept DEF UpdatePhase, AfterAdvance, Locals
        <3>2. /\ deadline = NoDeadline /\ current_cycle \in Due
              /\ status' = PhaseAfter(status, current_cycle)
            BY <1>0, <1>9, <2>2 DEF UpdatePhase, Holding, Coherent, Due, AfterAdvance
        <3>3. Turns!EnterPhase
            BY <1>9, <3>1, <3>2 DEF UpdatePhase, Turns!EnterPhase, Turns!PhaseAfter, PhaseAfter,
                   Due, Turns!ReckoningStart, ReckoningStart
        <3> QED
            BY <3>3 DEF Turns!Next
    <2> QED
        BY <1>9, <2>1, <2>2 DEF UpdatePhase
<1>10. ASSUME NEW p \in Proc, ApplyPhaseTransition(p)
       PROVE  [Turns!Next]_Turns!turns
    <2>1. Due' = Due
        BY <1>0, <1>10, DueKept DEF ApplyPhaseTransition, AfterAdvance
    <2>2. CASE instances' = instances
        BY <1>10, <2>1, <2>2 DEF ApplyPhaseTransition, Turns!turns, Due
    <2>3. CASE instances' # instances
        <3>1. /\ status = "completed" /\ instances' = "archived" /\ current_cycle \in Due
            BY <1>0, <1>10, <2>3 DEF ApplyPhaseTransition, Archived, Coherent, Due, AfterAdvance
        <3>2. Turns!Archive
            BY <1>10, <2>1, <3>1 DEF ApplyPhaseTransition, Turns!Archive, Due
        <3> QED
            BY <3>2 DEF Turns!Next
    <2> QED
        BY <2>2, <2>3
<1>11. ASSUME NEW p \in Proc, RefetchEpoch(p)
       PROVE  [Turns!Next]_Turns!turns
    BY <1>0, <1>11, Shrinks DEF RefetchEpoch, AfterAdvance, Locals
<1>12. ASSUME NEW p \in Proc, SetNextCycleDeadline(p)
       PROVE  [Turns!Next]_Turns!turns
    <2>1. Due' = Due
        BY <1>0, <1>12, DueKept DEF SetNextCycleDeadline, AfterAdvance
    <2>2. CASE deadline' = deadline
        BY <1>12, <2>1, <2>2 DEF SetNextCycleDeadline, Turns!turns, Due
    <2>3. CASE deadline' # deadline
        <3>1. /\ deadline = NoDeadline /\ deadline' # NoDeadline
              /\ current_cycle \in Due /\ status \in ActiveStatus
            BY <1>0, <1>12, <2>3 DEF SetNextCycleDeadline, NoDeadline, Holding, Coherent, Due,
                   AfterAdvance
        <3>2. Turns!Reopen
            BY <1>12, <2>1, <3>1 DEF SetNextCycleDeadline, Turns!Reopen, Due,
                   Turns!ActiveStatus, ActiveStatus
        <3> QED
            BY <3>2 DEF Turns!Next
    <2> QED
        BY <2>2, <2>3
<1>13. ASSUME NEW p \in Proc, ScheduleEagerTimer(p)
       PROVE  [Turns!Next]_Turns!turns
    BY <1>0, <1>13, Shrinks DEF ScheduleEagerTimer, AfterAdvance
<1>14. ASSUME NEW p \in Proc, RunPipeline(p)
       PROVE  [Turns!Next]_Turns!turns
    <2>1. PICK n : n = loc[p].cycle + 1
        OBVIOUS
    <2>2. /\ n \in Due /\ loc[p].number = n /\ pc[p] \in AfterAdvance
          /\ \A q \in Proc : loc[q].cycle \in Nat
        BY <1>0, <1>14, <2>1 DEF RunPipeline, Coherent, Due, AfterAdvance, Locals
    <2>3. \A q \in Proc \ {p} : pc[q] \in AfterAdvance => loc[q].cycle + 1 # n
        BY <1>0, <2>1, <2>2 DEF WinnersDistinct
    <2>4. /\ \A q \in Proc \ {p} : pc'[q] = pc[q] /\ loc'[q] = loc[q]
          /\ pc'[p] \notin AfterAdvance
        BY <1>0, <1>14 DEF RunPipeline, AfterAdvance
    <2>5. Due' = Due \ {n}
        BY <2>1, <2>2, <2>3, <2>4 DEF Due
    <2>6. Turns!PlayOut(n)
        BY <1>14, <2>2, <2>5 DEF RunPipeline, Turns!PlayOut, Due
    <2> QED
        BY <2>2, <2>6 DEF Turns!Next, Due
<1>15. ASSUME NEW p \in Proc, CallFails(p)
       PROVE  [Turns!Next]_Turns!turns
    BY <1>0, <1>15, Shrinks DEF CallFails, AfterAdvance
<1> QED
    BY <1>1, <1>2, <1>3, <1>4, <1>5, <1>6, <1>7, <1>8, <1>9, <1>10, <1>11, <1>12, <1>13,
       <1>14, <1>15
    DEF Next, Schedule, Resolve

LEMMA UnattendedInit == Init => Unattended
<1> SUFFICES ASSUME Init
             PROVE  Unattended
    OBVIOUS
<1>1. Holding = {}
    BY DEF Init, Holding, Claimed, BeforeAdvance
<1>2. TypeOK /\ OneScheduledResolver /\ WinnersDistinct
    BY <1>1, TypeInit DEF Init, OneScheduledResolver, WinnersDistinct, AfterAdvance
<1>3. \A p \in Proc : Coherent(p)
    BY DEF Init, Coherent, AfterAdvance, BeforeAdvance, Blank
<1> QED
    BY <1>1, <1>2, <1>3 DEF Init, Unattended, ActiveStatus

\* Left to itself the scheduler plays the game in turns of EpochTurns: each
\* turn is closed before it is moved on from, moved on from once, reopened by
\* whoever did it, and played out at most once.
THEOREM SchedulerPlaysInTurns ==
    ASSUME Request = {}
    PROVE  Spec => ImplementsTurns
<1>1. Init => Unattended /\ Turns!Init
    <2> SUFFICES ASSUME Init
                 PROVE  Turns!Init
        BY UnattendedInit
    <2>1. Due = {}
        BY DEF Init, Due, AfterAdvance
    <2>2. (deadline # NoDeadline) = AutoResolve
        <3>1. CASE AutoResolve
            <4>1. deadline # NoDeadline
                BY <3>1 DEF Init, NoDeadline
            <4> QED
                BY <3>1, <4>1, CycleAssumption
        <3>2. CASE ~AutoResolve
            <4>1. deadline = NoDeadline
                BY <3>2 DEF Init
            <4> QED
                BY <3>2, <4>1, CycleAssumption
        <3> QED
            BY <3>1, <3>2
    <2> QED
        BY <2>1, <2>2 DEF Init, Turns!Init, Due
<1>2. Unattended /\ TypeOK' /\ OneScheduledResolver' /\ WinnersDistinct' /\ [Next]_vars
          => Unattended'
    BY CoherentStep DEF Unattended
<1>3. Unattended /\ [Next]_vars => [Turns!Next]_Turns!turns
    BY TurnsStep
<1> QED
    BY <1>1, <1>2, <1>3, TypeCorrect, SchedulerExcludesItself, WinnersAreDistinct, PTL
    DEF Spec, ImplementsTurns, Turns!Spec

\* The turns still to be played out are not among those that have been, and
\* neither are turns to come.
PlayedBehind ==
    /\ \A n \in Due : n \notin piped /\ n <= current_cycle
    /\ \A n \in piped : n <= current_cycle

\* Any step of EpochTurns keeps it so.
LEMMA PlayedStaysBehind ==
    ASSUME TypeOK, PlayedBehind, [Turns!Next]_Turns!turns
    PROVE  PlayedBehind'
<1> USE DEF PlayedBehind, Due
<1>0. current_cycle \in Nat /\ piped \subseteq Nat
    BY DEF TypeOK
<1>1. CASE Turns!Close \/ Turns!EnterPhase \/ Turns!Archive \/ Turns!Reopen
    BY <1>1 DEF Turns!Close, Turns!EnterPhase, Turns!Archive, Turns!Reopen
<1>2. CASE Turns!NextTurn
    <2>1. /\ Due' = Due \cup {current_cycle + 1}
          /\ current_cycle' = current_cycle + 1 /\ piped' = piped
        BY <1>2 DEF Turns!NextTurn
    <2>2. \A n \in Due : n \in Int
        BY <1>0 DEF TypeOK, Locals
    <2> HIDE DEF Due
    <2> QED
        BY <1>0, <2>1, <2>2
<1>3. ASSUME NEW n \in Due, Turns!PlayOut(n)
      PROVE  PlayedBehind'
    BY <1>3 DEF Turns!PlayOut
<1>4. ASSUME NEW lost \in SUBSET Due, Turns!Lose(lost)
      PROVE  PlayedBehind'
    BY <1>4 DEF Turns!Lose
<1>5. CASE UNCHANGED Turns!turns
    BY <1>5 DEF Turns!turns
<1> QED
    BY <1>1, <1>2, <1>3, <1>4, <1>5 DEF Turns!Next

\* The scheduler runs no cycle's pipeline twice, whatever fails and whenever
\* the process restarts: a consequence of the game in turns.
THEOREM PipelinesRunOnce ==
    ASSUME Request = {}
    PROVE  Spec => PipelineOnce
<1> DEFINE Inv == Unattended /\ PlayedBehind
<1>1. Init => Inv
    <2> SUFFICES ASSUME Init
                 PROVE  PlayedBehind
        BY UnattendedInit
    <2>1. Due = {} /\ piped = {}
        BY DEF Init, Due, AfterAdvance
    <2> QED
        BY <2>1 DEF PlayedBehind
<1>2. Inv /\ TypeOK' /\ OneScheduledResolver' /\ WinnersDistinct' /\ [Next]_vars => Inv'
    <2>1. Unattended => TypeOK
        BY DEF Unattended
    <2> QED
        BY <2>1, CoherentStep, TurnsStep, PlayedStaysBehind DEF Unattended
<1>3. Inv /\ [Next]_vars => [\A p \in Proc : RunPipeline(p) => loc[p].number \notin piped]_vars
    <2> SUFFICES ASSUME Inv, NEW p \in Proc, RunPipeline(p)
                 PROVE  loc[p].number \notin piped
        OBVIOUS
    <2> QED
        BY DEF RunPipeline, Unattended, Coherent, AfterAdvance, PlayedBehind, Due
<1> QED
    BY <1>1, <1>2, <1>3, TypeCorrect, SchedulerExcludesItself, WinnersAreDistinct, PTL
    DEF Spec, PipelineOnce

=============================================================================
