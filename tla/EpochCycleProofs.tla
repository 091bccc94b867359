-------------------------- MODULE EpochCycleProofs --------------------------
(***************************************************************************)
(* Theorems about EpochCycle, for every set of players and of concurrent   *)
(* requests, every phase layout EpochConfig admits, every mode and any     *)
(* number of faults.                                                       *)
(***************************************************************************)
EXTENDS EpochCycle, TLAPS

USE CycleAssumption

(***************************************************************************)
(* The operators of EpochPhase.                                            *)
(***************************************************************************)
\* A cycle number never takes an epoch to something that is not a status.
LEMMA PhaseAfterType ==
    ASSUME NEW s \in Status, NEW n \in Nat
    PROVE  PhaseAfter(s, n) \in Status
BY DEF PhaseAfter, Status, ActiveStatus

LEMMA NextPhaseType ==
    ASSUME NEW s \in ActiveStatus
    PROVE  NextPhase[s] \in Status
BY DEF NextPhase, Status, ActiveStatus

(***************************************************************************)
(* Type correctness, one step per action.                                  *)
(***************************************************************************)
LEMMA TypeInit == Init => TypeOK
<1> SUFFICES ASSUME Init
             PROVE  TypeOK
    OBVIOUS
<1>1. deadline \in Deadline
    BY DEF Init, Deadline, NoDeadline
<1>2. pc \in [Proc -> Label]
    BY DEF Init, Label
<1>3. loc \in [Proc -> Locals]
    BY DEF Init, Blank, Locals, Status
<1>4. consecutive_afk \in [Player -> Nat]
    BY DEF Init
<1> QED
    BY <1>1, <1>2, <1>3, <1>4 DEF Init, TypeOK, Status, ActiveStatus

LEMMA ReturnType ==
    ASSUME TypeOK, NEW p \in Proc, Return(p)
    PROVE  pc' \in [Proc -> Label] /\ loc' \in [Proc -> Locals]
BY DEF TypeOK, Return, Goto, Blank, Locals, Status, ActiveStatus, Label

LEMMA TypeStep == TypeOK /\ [Next]_vars => TypeOK'
<1> SUFFICES ASSUME TypeOK, [Next]_vars
             PROVE  TypeOK'
    OBVIOUS
<1> USE DEF row, players, history
<1>1. CASE DeadlinePasses
    BY <1>1 DEF TypeOK, DeadlinePasses, Deadline
<1>2. CASE SweepExpiredCycles
    BY <1>2 DEF TypeOK, SweepExpiredCycles, Goto, Proc, Locals, Label
<1>3. CASE EagerWait
    <2>1. Timer \in Proc
        BY DEF Proc
    <2>2. CASE Return(Timer)
        BY <1>3, <2>1, <2>2, ReturnType DEF TypeOK, EagerWait
    <2>3. CASE /\ Goto(Timer, "selected")
               /\ loc' = [loc EXCEPT ![Timer].cycle = current_cycle]
        BY <1>3, <2>1, <2>3 DEF TypeOK, EagerWait, Goto, Locals, Label
    <2> QED
        BY <1>3, <2>2, <2>3 DEF EagerWait
<1>4. CASE Restart
    BY <1>4 DEF TypeOK, Restart, Label, Locals, Blank, Status
<1>5. ASSUME NEW h \in Player, MarkActed(h) \/ WithdrawReady(h)
      PROVE  TypeOK'
    BY <1>5 DEF TypeOK, MarkActed, WithdrawReady
<1>6. ASSUME NEW r \in Request, Start(r)
      PROVE  TypeOK'
    <2>1. r \in Proc
        BY DEF Proc
    <2>2. CASE \E h \in Player : SignalReady(r, h)
        BY <2>1, <2>2 DEF TypeOK, SignalReady, Goto, Locals, Label
    <2>3. CASE RequestResolve(r)
        BY <2>1, <2>3 DEF TypeOK, RequestResolve, Goto, Label, Claimed
    <2>4. CASE RequestAdvance(r)
        BY <2>1, <2>4, NextPhaseType DEF TypeOK, RequestAdvance, Goto, Locals, Label
    <2>5. CASE RequestCancel(r)
        BY <2>1, <2>5 DEF TypeOK, RequestCancel, Goto, Label
    <2> QED
        BY <1>6, <2>2, <2>3, <2>4, <2>5 DEF Start
<1>7. ASSUME NEW r \in Request, Finish(r)
      PROVE  TypeOK'
    <2>1. r \in Proc
        BY DEF Proc
    <2>2. CASE MarkReady(r)
        BY <2>1, <2>2 DEF TypeOK, MarkReady, Goto, Locals, Label
    <2>3. CASE TallyReady(r)
        BY <2>1, <2>3, ReturnType
        DEF TypeOK, TallyReady, Goto, Locals, Blank, Status, Label, Claimed
    <2>4. CASE AdvancePhase(r)
        BY <2>1, <2>4, ReturnType DEF TypeOK, AdvancePhase, Goto, Locals, Label
    <2>5. CASE ArchiveInstances(r)
        BY <2>1, <2>5, ReturnType DEF TypeOK, ArchiveInstances, Archived
    <2>6. CASE CancelEpoch(r)
        BY <2>1, <2>6, ReturnType DEF TypeOK, CancelEpoch, Goto, Status, Label
    <2>7. CASE DeleteInstances(r)
        BY <2>1, <2>7, ReturnType DEF TypeOK, DeleteInstances
    <2> QED
        BY <1>7, <2>2, <2>3, <2>4, <2>5, <2>6, <2>7 DEF Finish
<1>8. ASSUME NEW p \in Proc, Schedule(p)
      PROVE  TypeOK'
    <2>1. CASE ClaimDeadline(p)
        BY <2>1 DEF TypeOK, ClaimDeadline, Deadline, NoDeadline, Goto, Label, Claimed
    <2>2. CASE ClaimRefused(p)
        BY <2>2, ReturnType DEF TypeOK, ClaimRefused
    <2>3. CASE ProcessAfkBatch(p)
        BY <2>3 DEF TypeOK, ProcessAfkBatch, Absent, Locals, Goto, Label, Claimed
    <2>4. CASE ReplaceAfkWithBot(p)
        BY <2>4 DEF TypeOK, ReplaceAfkWithBot, Locals
    <2>5. CASE MercyReset(p)
        BY <2>5 DEF TypeOK, MercyReset, Goto, Label, Claimed
    <2> QED
        BY <1>8, <2>1, <2>2, <2>3, <2>4, <2>5 DEF Schedule
<1>9. ASSUME NEW p \in Proc, Resolve(p)
      PROVE  TypeOK'
    <2> USE DEF Goto, Label, Claimed, BeforeAdvance, AfterAdvance, Locals
    <2>1. CASE ReadEpoch(p)
        <3>1. CASE Return(p)
            BY <2>1, <3>1, ReturnType DEF TypeOK, ReadEpoch
        <3>2. CASE /\ Goto(p, "grant")
                   /\ loc' = [loc EXCEPT ![p].cycle = current_cycle, ![p].status = status]
            BY <2>1, <3>2 DEF TypeOK, ReadEpoch
        <3> QED
            BY <2>1, <3>1, <3>2 DEF ReadEpoch
    <2>2. CASE GrantRp(p)
        BY <2>2 DEF TypeOK, GrantRp
    <2>3. CASE ResetFlags(p)
        BY <2>3 DEF TypeOK, ResetFlags
    <2>4. CASE AdvanceMissionTimers(p)
        BY <2>4 DEF TypeOK, AdvanceMissionTimers
    <2>5. CASE AdvanceConflict(p)
        BY <2>5, ReturnType DEF TypeOK, AdvanceConflict
    <2>6. CASE AdvanceAtomic(p)
        <3>1. status' \in Status
            BY <2>6, PhaseAfterType DEF TypeOK, AdvanceAtomic
        <3> QED
            BY <2>6, <3>1 DEF TypeOK, AdvanceAtomic
    <2>7. CASE AdvanceLegacy(p)
        <3> DEFINE new == PhaseAfter(loc[p].status, current_cycle + 1)
        <3>1. /\ loc' = [loc EXCEPT ![p].status = new, ![p].number = current_cycle + 1]
              /\ pc' = [pc EXCEPT ![p] = IF new # loc[p].status THEN "phase" ELSE "deadline"]
            BY <2>7 DEF AdvanceLegacy
        <3>2. new \in Status
            BY PhaseAfterType DEF TypeOK
        <3> HIDE DEF new
        <3>3. loc' \in [Proc -> Locals]
            <4> DEFINE mine == [loc[p] EXCEPT !.status = new, !.number = current_cycle + 1]
            <4>1. loc \in [Proc -> Locals] /\ loc[p] \in Locals /\ current_cycle + 1 \in Nat
                BY DEF TypeOK
            <4>2. mine \in Locals
                BY <3>2, <4>1 DEF Locals
            <4>3. loc' = [loc EXCEPT ![p] = mine]
                BY <3>1, <4>1 DEF Locals
            <4> QED
                BY <4>1, <4>2, <4>3
        <3>4. pc' \in [Proc -> Label]
            BY <3>1 DEF TypeOK
        <3>5. faults' \in Nat
            BY <2>7 DEF TypeOK, AdvanceLegacy
        <3> QED
            BY <2>7, <3>3, <3>4, <3>5 DEF TypeOK, AdvanceLegacy
    <2>8. CASE UpdatePhase(p)
        BY <2>8, ReturnType DEF TypeOK, UpdatePhase
    <2>9. CASE ApplyPhaseTransition(p)
        BY <2>9 DEF TypeOK, ApplyPhaseTransition, Archived
    <2>10. CASE RefetchEpoch(p)
        BY <2>10 DEF TypeOK, RefetchEpoch
    <2>11. CASE SetNextCycleDeadline(p)
        BY <2>11 DEF TypeOK, SetNextCycleDeadline, Deadline
    <2>12. CASE ScheduleEagerTimer(p)
        BY <2>12 DEF TypeOK, ScheduleEagerTimer, Blank, Status
    <2>13. CASE RunPipeline(p)
        BY <2>13, ReturnType DEF TypeOK, RunPipeline
    <2> QED
        BY <1>9, <2>1, <2>2, <2>3, <2>4, <2>5, <2>6, <2>7, <2>8, <2>9, <2>10, <2>11,
           <2>12, <2>13 DEF Resolve
<1>10. ASSUME NEW p \in Proc, CallFails(p)
       PROVE  TypeOK'
    BY <1>10, ReturnType DEF TypeOK, CallFails
<1>11. CASE UNCHANGED vars
    BY <1>11 DEF TypeOK, vars
<1> QED
    BY <1>1, <1>2, <1>3, <1>4, <1>5, <1>6, <1>7, <1>8, <1>9, <1>10, <1>11 DEF Next

\* Every variable keeps its type: in particular a rejected or failed call
\* leaves no coroutine without a label or with half of its locals.
THEOREM TypeCorrect == Spec => []TypeOK
<1>1. Init => TypeOK
    BY TypeInit
<1>2. TypeOK /\ [Next]_vars => TypeOK'
    BY TypeStep
<1> QED
    BY <1>1, <1>2, PTL DEF Spec

(***************************************************************************)
(* Who may be past the increment.                                          *)
(***************************************************************************)
\* Only an increment takes a process past the increment; every other step
\* leaves the counter alone and the cycles of those already past it.
LEMMA OnlyAdvanceWins ==
    ASSUME TypeOK, [Next]_vars,
           \A p \in Proc : ~AdvanceAtomic(p) /\ ~AdvanceLegacy(p)
    PROVE  /\ current_cycle' = current_cycle
           /\ \A q \in Proc : pc'[q] \in AfterAdvance =>
                  pc[q] \in AfterAdvance /\ loc'[q].cycle = loc[q].cycle
<1> DEFINE Kept == /\ current_cycle' = current_cycle
                   /\ \A q \in Proc : pc'[q] \in AfterAdvance =>
                          pc[q] \in AfterAdvance /\ loc'[q].cycle = loc[q].cycle
<1> SUFFICES Kept
    OBVIOUS
<1> USE DEF TypeOK, row, players, history, AfterAdvance, Goto, Return
<1>1. CASE DeadlinePasses \/ SweepExpiredCycles \/ EagerWait \/ Restart
    BY <1>1 DEF DeadlinePasses, SweepExpiredCycles, EagerWait, Restart
<1>2. ASSUME NEW h \in Player, MarkActed(h) \/ WithdrawReady(h)
      PROVE  Kept
    BY <1>2 DEF MarkActed, WithdrawReady
<1>3. ASSUME NEW r \in Request, Start(r)
      PROVE  Kept
    BY <1>3 DEF Start, SignalReady, RequestResolve, RequestAdvance, RequestCancel
<1>4. ASSUME NEW r \in Request, MarkReady(r) \/ TallyReady(r)
      PROVE  Kept
    BY <1>4 DEF MarkReady, TallyReady
<1>5. ASSUME NEW r \in Request,
             \/ AdvancePhase(r) \/ ArchiveInstances(r) \/ CancelEpoch(r) \/ DeleteInstances(r)
      PROVE  Kept
    BY <1>5 DEF AdvancePhase, ArchiveInstances, CancelEpoch, DeleteInstances
<1>6. ASSUME NEW p \in Proc, Schedule(p)
      PROVE  Kept
    BY <1>6 DEF Schedule, ClaimDeadline, ClaimRefused, ProcessAfkBatch,
                ReplaceAfkWithBot, MercyReset
<1>7. ASSUME NEW p \in Proc,
             \/ ReadEpoch(p) \/ GrantRp(p) \/ ResetFlags(p) \/ AdvanceMissionTimers(p)
             \/ AdvanceConflict(p)
      PROVE  Kept
    BY <1>7 DEF ReadEpoch, GrantRp, ResetFlags, AdvanceMissionTimers, AdvanceConflict
<1>8. ASSUME NEW p \in Proc,
             UpdatePhase(p) \/ ApplyPhaseTransition(p) \/ RefetchEpoch(p)
      PROVE  Kept
    <2>1. CASE UpdatePhase(p)
        <3>1. CASE Return(p)
            BY <2>1, <3>1 DEF UpdatePhase
        <3>2. CASE /\ Goto(p, "enter")
                   /\ loc' = [loc EXCEPT ![p].number = current_cycle]
            BY <2>1, <3>2 DEF UpdatePhase
        <3> QED
            BY <2>1, <3>1, <3>2 DEF UpdatePhase
    <2>2. CASE ApplyPhaseTransition(p)
        BY <2>2 DEF ApplyPhaseTransition
    <2>3. CASE RefetchEpoch(p)
        BY <2>3 DEF RefetchEpoch
    <2> QED
        BY <1>8, <2>1, <2>2, <2>3
<1>9. ASSUME NEW p \in Proc,
             \/ SetNextCycleDeadline(p) \/ ScheduleEagerTimer(p) \/ RunPipeline(p)
             \/ CallFails(p)
      PROVE  Kept
    BY <1>9 DEF SetNextCycleDeadline, ScheduleEagerTimer, RunPipeline, CallFails
<1>10. CASE UNCHANGED vars
    BY <1>10 DEF vars
<1> QED
    BY <1>1, <1>2, <1>3, <1>4, <1>5, <1>6, <1>7, <1>8, <1>9, <1>10
    DEF Next, Finish, Resolve

\* No cycle is won twice: between two callers that read the same cycle, in
\* either advance path, the compare-and-swap lets one through.
THEOREM WinnersAreDistinct == Spec => []WinnersDistinct
<1> DEFINE Inv == TypeOK /\ WinnersDistinct
<1>1. Init => Inv
    BY TypeInit DEF Init, WinnersDistinct, AfterAdvance
<1>2. Inv /\ [Next]_vars => Inv'
    <2> SUFFICES ASSUME TypeOK, WinnersDistinct, [Next]_vars
                 PROVE  WinnersDistinct'
        BY TypeStep
    <2>1. ASSUME NEW w \in Proc, AdvanceAtomic(w) \/ AdvanceLegacy(w)
          PROVE  WinnersDistinct'
        <3>1. /\ loc[w].cycle = current_cycle
              /\ current_cycle' = current_cycle + 1
              /\ \A q \in Proc : loc'[q].cycle = loc[q].cycle
              /\ \A q \in Proc \ {w} : pc'[q] = pc[q]
            <4>1. CASE AdvanceAtomic(w)
                BY <4>1 DEF AdvanceAtomic, Goto, TypeOK, Locals
            <4>2. CASE AdvanceLegacy(w)
                BY <4>2 DEF AdvanceLegacy, Goto, TypeOK, Locals
            <4> QED
                BY <2>1, <4>1, <4>2
        <3>2. current_cycle \in Nat /\ \A q \in Proc : loc[q].cycle \in Nat
            BY DEF TypeOK, Locals
        <3> QED
            BY <3>1, <3>2 DEF WinnersDistinct
    <2>2. CASE \A p \in Proc : ~AdvanceAtomic(p) /\ ~AdvanceLegacy(p)
        BY <2>2, OnlyAdvanceWins DEF WinnersDistinct
    <2> QED
        BY <2>1, <2>2
<1>3. Inv => WinnersDistinct
    OBVIOUS
<1> QED
    BY <1>1, <1>2, <1>3, PTL DEF Spec

(***************************************************************************)
(* The counter and the phase.                                              *)
(***************************************************************************)
\* The phases fn_advance_epoch_cycle computes are ones the trigger accepts,
\* and it never brings an epoch back to its lobby.
LEMMA PhaseAfterAllowed ==
    ASSUME NEW s \in Status, NEW n \in Nat
    PROVE  /\ AllowsStatus(s, PhaseAfter(s, n))
           /\ s # "lobby" => PhaseAfter(s, n) # "lobby"
BY DEF AllowsStatus, PhaseAfter, NextPhase, Status, ActiveStatus

\* One call to fn_advance_epoch_cycle is enough to catch up with the counter.
LEMMA PhaseAfterInStep ==
    ASSUME NEW s \in Status, NEW n \in Nat, s # "lobby", InStep(s, n)
    PROVE  InStep(PhaseAfter(s, n + 1), n + 1)
BY PhaseAssumption DEF InStep, PhaseAfter, ReckoningStart, Status, ActiveStatus

\* A status change the trigger accepts does not put the phase behind.
LEMMA AllowedInStep ==
    ASSUME NEW s \in Status, NEW t \in Status, NEW n \in Nat, s # "lobby",
           InStep(s, n), AllowsStatus(s, t)
    PROVE  InStep(t, n) /\ t # "lobby"
BY PhaseAssumption
DEF InStep, AllowsStatus, NextPhase, ReckoningStart, Status, ActiveStatus

\* Outside the increments the row's counter stands, and its status moves only
\* as the trigger accepts.
LEMMA OthersKeepCounter ==
    ASSUME TypeOK, [Next]_vars,
           \A p \in Proc : ~AdvanceAtomic(p) /\ ~AdvanceLegacy(p)
    PROVE  /\ current_cycle' = current_cycle
           /\ AllowsStatus(status, status')
           /\ legacy' = legacy
<1> DEFINE Kept == AllowsStatus(status, status') /\ legacy' = legacy
<1>1. current_cycle' = current_cycle
    BY OnlyAdvanceWins
<1> USE DEF row, players, history, AllowsStatus
<1>2. CASE DeadlinePasses \/ SweepExpiredCycles \/ EagerWait \/ Restart
    BY <1>2 DEF DeadlinePasses, SweepExpiredCycles, EagerWait, Restart
<1>3. ASSUME NEW h \in Player, MarkActed(h) \/ WithdrawReady(h)
      PROVE  Kept
    BY <1>3 DEF MarkActed, WithdrawReady
<1>4. ASSUME NEW r \in Request, Start(r)
      PROVE  Kept
    BY <1>4 DEF Start, SignalReady, RequestResolve, RequestAdvance, RequestCancel
<1>5. ASSUME NEW r \in Request, Finish(r)
      PROVE  Kept
    BY <1>5 DEF Finish, MarkReady, TallyReady, AdvancePhase, ArchiveInstances,
                CancelEpoch, DeleteInstances
<1>6. ASSUME NEW p \in Proc, Schedule(p)
      PROVE  Kept
    BY <1>6 DEF Schedule, ClaimDeadline, ClaimRefused, ProcessAfkBatch,
                ReplaceAfkWithBot, MercyReset
<1>7. ASSUME NEW p \in Proc, Resolve(p), ~AdvanceAtomic(p), ~AdvanceLegacy(p)
      PROVE  Kept
    BY <1>7 DEF Resolve, ReadEpoch, GrantRp, ResetFlags, AdvanceMissionTimers,
                AdvanceConflict, UpdatePhase, ApplyPhaseTransition, RefetchEpoch,
                SetNextCycleDeadline, ScheduleEagerTimer, RunPipeline
<1>8. ASSUME NEW p \in Proc, CallFails(p)
      PROVE  Kept
    BY <1>8 DEF CallFails
<1>9. CASE UNCHANGED vars
    BY <1>9 DEF vars
<1> QED
    BY <1>1, <1>2, <1>3, <1>4, <1>5, <1>6, <1>7, <1>8, <1>9 DEF Next

\* What one increment does to the counter and the status.
LEMMA AdvanceStep ==
    ASSUME TypeOK, NEW p \in Proc, AdvanceAtomic(p) \/ AdvanceLegacy(p)
    PROVE  /\ current_cycle' = current_cycle + 1
           /\ \/ legacy' /\ status' = status
              \/ legacy' = legacy /\ status' = PhaseAfter(status, current_cycle + 1)
BY DEF AdvanceAtomic, AdvanceLegacy, TypeOK

\* Whichever of the five handlers writes it, the status obeys the trigger.
LEMMA StatusAllowed ==
    ASSUME TypeOK, [Next]_vars
    PROVE  AllowsStatus(status, status')
<1>1. ASSUME NEW p \in Proc, AdvanceAtomic(p) \/ AdvanceLegacy(p)
      PROVE  AllowsStatus(status, status')
    <2>1. status \in Status /\ current_cycle + 1 \in Nat
        BY DEF TypeOK
    <2>2. AllowsStatus(status, PhaseAfter(status, current_cycle + 1))
        BY <2>1, PhaseAfterAllowed
    <2> QED
        BY <1>1, <2>2, AdvanceStep DEF AllowsStatus
<1>2. CASE \A p \in Proc : ~AdvanceAtomic(p) /\ ~AdvanceLegacy(p)
    BY <1>2, OthersKeepCounter
<1> QED
    BY <1>1, <1>2

\* The counter moves by single steps and the status along the trigger's
\* table, in both advance paths.
THEOREM CyclesStep == Spec => CycleStep
<1> DEFINE Moves == /\ current_cycle' \in {current_cycle, current_cycle + 1}
                    /\ AllowsStatus(status, status')
<1>1. TypeOK /\ [Next]_vars => [Moves]_vars
    <2> SUFFICES ASSUME TypeOK, [Next]_vars
                 PROVE  current_cycle' \in {current_cycle, current_cycle + 1}
        BY StatusAllowed
    <2>1. CASE \A p \in Proc : ~AdvanceAtomic(p) /\ ~AdvanceLegacy(p)
        BY <2>1, OthersKeepCounter
    <2> QED
        BY <2>1, AdvanceStep
<1> QED
    BY <1>1, TypeCorrect, PTL DEF Spec, CycleStep

\* As long as fn_advance_epoch_cycle makes the increments, the phase never
\* lags behind the counter: neither the creator's stale write of a next phase
\* nor a failed call can make it.  The lobby has to be excluded, since the
\* trigger would let it start at any cycle.
THEOREM PhaseStaysInStep == Spec => []PhaseInStep
<1> DEFINE Inv == TypeOK /\ status # "lobby" /\ PhaseInStep
<1>1. Init => Inv
    BY TypeInit, PhaseAssumption DEF Init, PhaseInStep, InStep
<1>2. Inv /\ [Next]_vars => Inv'
    <2> SUFFICES ASSUME TypeOK, status # "lobby", PhaseInStep, [Next]_vars
                 PROVE  status' # "lobby" /\ PhaseInStep'
        BY TypeStep
    <2>1. status \in Status /\ status' \in Status /\ current_cycle \in Nat
        BY TypeStep DEF TypeOK
    <2>2. ASSUME NEW p \in Proc, AdvanceAtomic(p) \/ AdvanceLegacy(p)
          PROVE  status' # "lobby" /\ PhaseInStep'
        BY <2>1, <2>2, AdvanceStep, PhaseAfterAllowed, PhaseAfterInStep DEF PhaseInStep
    <2>3. CASE \A p \in Proc : ~AdvanceAtomic(p) /\ ~AdvanceLegacy(p)
        <3>1. current_cycle' = current_cycle /\ AllowsStatus(status, status') /\ legacy' = legacy
            BY <2>3, OthersKeepCounter
        <3>2. status' # "lobby"
            BY <2>1, <3>1 DEF AllowsStatus, NextPhase, ActiveStatus
        <3> QED
            BY <2>1, <3>1, <3>2, AllowedInStep DEF PhaseInStep
    <2> QED
        BY <2>2, <2>3
<1>3. Inv => PhaseInStep
    OBVIOUS
<1> QED
    BY <1>1, <1>2, <1>3, PTL DEF Spec

(***************************************************************************)
(* The claim.                                                              *)
(***************************************************************************)
\* When nobody sends a request, only a claim lets a process into Holding, and
\* a null deadline stays null as long as somebody is left there.
LEMMA OnlyClaimHolds ==
    ASSUME TypeOK, [Next]_vars, Request = {}, \A p \in Proc : ~ClaimDeadline(p),
           OneScheduledResolver
    PROVE  /\ Holding' \subseteq Holding
           /\ Holding' # {} => deadline' = NoDeadline
<1> DEFINE Kept == /\ Holding' \subseteq Holding
                   /\ Holding' # {} => deadline' = NoDeadline
<1>1. ASSUME Holding' \subseteq Holding, deadline' = deadline
      PROVE  Kept
    BY <1>1 DEF OneScheduledResolver
<1> USE DEF TypeOK, row, players, history, Goto, Return,
            Holding, Claimed, BeforeAdvance
<1>2. CASE DeadlinePasses
    <2>1. deadline # NoDeadline /\ pc' = pc
        BY <1>2 DEF DeadlinePasses, NoDeadline
    <2>2. Holding = {} /\ Holding' = Holding
        BY <2>1 DEF OneScheduledResolver
    <2> QED
        BY <2>2
<1>3. CASE SweepExpiredCycles \/ EagerWait \/ Restart
    BY <1>1, <1>3 DEF SweepExpiredCycles, EagerWait, Restart
<1>4. ASSUME NEW h \in Player, MarkActed(h) \/ WithdrawReady(h)
      PROVE  Kept
    BY <1>1, <1>4 DEF MarkActed, WithdrawReady
<1>5. ASSUME NEW p \in Proc, Schedule(p)
      PROVE  Kept
    BY <1>1, <1>5 DEF Schedule, ClaimRefused, ProcessAfkBatch, ReplaceAfkWithBot,
                      MercyReset
<1>6. ASSUME NEW p \in Proc,
             \/ ReadEpoch(p) \/ GrantRp(p) \/ ResetFlags(p) \/ AdvanceMissionTimers(p)
             \/ AdvanceConflict(p)
      PROVE  Kept
    BY <1>1, <1>6 DEF ReadEpoch, GrantRp, ResetFlags, AdvanceMissionTimers,
                      AdvanceConflict
<1>7. ASSUME NEW p \in Proc, AdvanceAtomic(p) \/ AdvanceLegacy(p)
      PROVE  Kept
    <2>1. CASE AdvanceAtomic(p)
        BY <1>1, <2>1 DEF AdvanceAtomic
    <2>2. CASE AdvanceLegacy(p)
        BY <1>1, <2>2 DEF AdvanceLegacy
    <2> QED
        BY <1>7, <2>1, <2>2
<1>8. ASSUME NEW p \in Proc,
             UpdatePhase(p) \/ ApplyPhaseTransition(p) \/ RefetchEpoch(p)
      PROVE  Kept
    BY <1>1, <1>8 DEF UpdatePhase, ApplyPhaseTransition, RefetchEpoch
<1>9. ASSUME NEW p \in Proc, SetNextCycleDeadline(p)
      PROVE  Kept
    <2>1. p \in Holding /\ p \notin Holding' /\ Holding' \subseteq Holding
        BY <1>9 DEF SetNextCycleDeadline
    <2> QED
        BY <2>1 DEF OneScheduledResolver
<1>10. ASSUME NEW p \in Proc, ScheduleEagerTimer(p) \/ RunPipeline(p) \/ CallFails(p)
       PROVE  Kept
    BY <1>1, <1>10 DEF ScheduleEagerTimer, RunPipeline, CallFails
<1>11. CASE UNCHANGED vars
    BY <1>1, <1>11 DEF vars
<1> QED
    BY <1>2, <1>3, <1>4, <1>5, <1>6, <1>7, <1>8, <1>9, <1>10, <1>11
    DEF Next, Resolve

\* Left to itself the scheduler resolves one cycle at a time: the sweep and
\* the timer exclude each other, whatever fails and whenever the process
\* restarts, because a claim needs the deadline that the other one nulled.
THEOREM SchedulerExcludesItself == Spec => []OneScheduledResolver
<1> DEFINE Inv == TypeOK /\ OneScheduledResolver
<1>1. Init => Inv
    <2> SUFFICES ASSUME Init, Request = {}
                 PROVE  Holding = {}
        BY TypeInit DEF OneScheduledResolver
    <2> QED
        BY DEF Init, Holding, Claimed, BeforeAdvance
<1>2. Inv /\ [Next]_vars => Inv'
    <2> SUFFICES ASSUME TypeOK, OneScheduledResolver, [Next]_vars, Request = {}
                 PROVE  /\ \A p, q \in Holding' : p = q
                        /\ Holding' # {} => deadline' = NoDeadline
        BY TypeStep DEF OneScheduledResolver
    <2>1. ASSUME NEW p \in Proc, ClaimDeadline(p)
          PROVE  Holding' = {p} /\ deadline' = NoDeadline
        <3>1. Holding = {}
            BY <2>1 DEF ClaimDeadline, Claimable, NoDeadline, OneScheduledResolver
        <3> QED
            BY <2>1, <3>1 DEF ClaimDeadline, Holding, Goto, TypeOK, Claimed, BeforeAdvance
    <2>2. CASE \A p \in Proc : ~ClaimDeadline(p)
        BY <2>2, OnlyClaimHolds DEF OneScheduledResolver
    <2> QED
        BY <2>1, <2>2
<1>3. Inv => OneScheduledResolver
    OBVIOUS
<1> QED
    BY <1>1, <1>2, <1>3, PTL DEF Spec

(***************************************************************************)
(* The cloned simulations.                                                 *)
(***************************************************************************)
\* A coroutine about to delete or archive them has seen to the status first.
\* The last case is the resolver whose increment, or whose second UPDATE,
\* completed the epoch.
ReleaseDecided ==
    \A p \in Proc :
        /\ pc[p] = "purge" => status = "cancelled"
        /\ pc[p] = "hostarchive" => status = "completed"
        /\ pc[p] = "enter" /\ loc[p].status = "completed" => status = "completed"

\* The trigger lets nothing leave "completed" or "cancelled".
LEMMA TerminalStays ==
    ASSUME NEW s \in {"completed", "cancelled"}, NEW t, AllowsStatus(s, t)
    PROVE  t = s
BY DEF AllowsStatus, NextPhase, ActiveStatus

\* A step that leaves the simulations alone disturbs the invariant only by
\* bringing a coroutine to one of the three labels.
LEMMA ReleaseKept ==
    ASSUME TypeOK, [Next]_vars, InstancesMatchStatus, ReleaseDecided,
           instances' = instances,
           \A p \in Proc :
               /\ pc'[p] = "purge" => pc[p] = "purge" \/ status' = "cancelled"
               /\ pc'[p] = "hostarchive" => pc[p] = "hostarchive" \/ status' = "completed"
               /\ pc'[p] = "enter" /\ loc'[p].status = "completed" =>
                      \/ pc[p] = "enter" /\ loc[p].status = "completed"
                      \/ status' = "completed"
    PROVE  InstancesMatchStatus' /\ ReleaseDecided'
<1>1. status \in {"completed", "cancelled"} => status' = status
    BY StatusAllowed, TerminalStays
<1> QED
    BY <1>1 DEF InstancesMatchStatus, ReleaseDecided

\* Whoever is about to delete or archive the simulations goes by a status that
\* has been written and is final.
THEOREM ReleasesDecided == Spec => [](InstancesMatchStatus /\ ReleaseDecided)
<1> DEFINE Inv == TypeOK /\ InstancesMatchStatus /\ ReleaseDecided
<1>1. Init => Inv
    BY TypeInit DEF Init, InstancesMatchStatus, ReleaseDecided
<1>2. Inv /\ [Next]_vars => Inv'
    <2> DEFINE Kept == InstancesMatchStatus' /\ ReleaseDecided'
    <2> SUFFICES ASSUME TypeOK, [Next]_vars, InstancesMatchStatus, ReleaseDecided
                 PROVE  Kept
        BY TypeStep
    <2> USE DEF TypeOK, row, players, history, Goto, Return, Blank
    <2>1. CASE DeadlinePasses \/ SweepExpiredCycles \/ EagerWait \/ Restart
        BY <2>1, ReleaseKept DEF DeadlinePasses, SweepExpiredCycles, EagerWait, Restart
    <2>2. ASSUME NEW h \in Player, MarkActed(h) \/ WithdrawReady(h)
          PROVE  Kept
        BY <2>2, ReleaseKept DEF MarkActed, WithdrawReady
    <2>3. ASSUME NEW r \in Request, Start(r)
          PROVE  Kept
        BY <2>3, ReleaseKept DEF Start, SignalReady, RequestResolve, RequestAdvance,
                                 RequestCancel
    <2>4. ASSUME NEW r \in Request, MarkReady(r) \/ TallyReady(r)
          PROVE  Kept
        BY <2>4, ReleaseKept DEF MarkReady, TallyReady
    <2>5. ASSUME NEW r \in Request, AdvancePhase(r) \/ CancelEpoch(r)
          PROVE  Kept
        BY <2>5, ReleaseKept DEF AdvancePhase, CancelEpoch
    <2>6. ASSUME NEW r \in Request, DeleteInstances(r)
          PROVE  Kept
        BY <2>6 DEF DeleteInstances, InstancesMatchStatus, ReleaseDecided, Proc
    <2>7. ASSUME NEW r \in Request, ArchiveInstances(r)
          PROVE  Kept
        BY <2>7 DEF ArchiveInstances, Archived, InstancesMatchStatus, ReleaseDecided, Proc
    <2>8. ASSUME NEW p \in Proc, Schedule(p)
          PROVE  Kept
        BY <2>8, ReleaseKept DEF Schedule, ClaimDeadline, ClaimRefused,
               ProcessAfkBatch, ReplaceAfkWithBot, MercyReset
    <2>9. ASSUME NEW p \in Proc,
                 \/ ReadEpoch(p) \/ GrantRp(p) \/ ResetFlags(p)
                 \/ AdvanceMissionTimers(p) \/ AdvanceConflict(p)
          PROVE  Kept
        BY <2>9, ReleaseKept DEF ReadEpoch, GrantRp, ResetFlags, AdvanceMissionTimers,
                                 AdvanceConflict
    <2>10. ASSUME NEW p \in Proc, AdvanceAtomic(p)
           PROVE  Kept
        BY <2>10, ReleaseKept DEF AdvanceAtomic
    <2>11. ASSUME NEW p \in Proc, AdvanceLegacy(p)
           PROVE  Kept
        BY <2>11, ReleaseKept DEF AdvanceLegacy
    <2>12. ASSUME NEW p \in Proc, UpdatePhase(p)
           PROVE  Kept
        <3>1. CASE Return(p)
            BY <2>12, <3>1, ReleaseKept DEF UpdatePhase
        <3>2. CASE /\ Goto(p, "enter")
                   /\ loc' = [loc EXCEPT ![p].number = current_cycle]
            <4>1. loc'[p].status = status'
                BY <2>12, <3>2 DEF UpdatePhase, Locals
            <4> QED
                BY <2>12, <3>2, <4>1, ReleaseKept DEF UpdatePhase
        <3> QED
            BY <2>12, <3>1, <3>2 DEF UpdatePhase
    <2>13. ASSUME NEW p \in Proc, ApplyPhaseTransition(p)
           PROVE  Kept
        BY <2>13 DEF ApplyPhaseTransition, Archived, InstancesMatchStatus, ReleaseDecided
    <2>14. ASSUME NEW p \in Proc, RefetchEpoch(p) \/ SetNextCycleDeadline(p)
           PROVE  Kept
        BY <2>14, ReleaseKept DEF RefetchEpoch, SetNextCycleDeadline
    <2>15. ASSUME NEW p \in Proc, ScheduleEagerTimer(p) \/ RunPipeline(p) \/ CallFails(p)
           PROVE  Kept
        BY <2>15, ReleaseKept DEF ScheduleEagerTimer, RunPipeline, CallFails
    <2>16. CASE UNCHANGED vars
        BY <2>16, ReleaseKept DEF vars
    <2> QED
        BY <2>1, <2>2, <2>3, <2>4, <2>5, <2>6, <2>7, <2>8, <2>9, <2>10, <2>11, <2>12,
           <2>13, <2>14, <2>15, <2>16 DEF Next, Finish, Resolve
<1>3. Inv => InstancesMatchStatus /\ ReleaseDecided
    OBVIOUS
<1> QED
    BY <1>1, <1>2, <1>3, PTL DEF Spec

\* Only a cancelled epoch's simulations are deleted and only a completed one's
\* archived, whichever requests to advance, cancel and resolve it interleave
\* and whichever fail: each handler writes the status before it touches them,
\* and what it wrote is final by the time it does.
THEOREM InstancesFollowStatus == Spec => []InstancesMatchStatus
<1>1. InstancesMatchStatus /\ ReleaseDecided => InstancesMatchStatus
    OBVIOUS
<1> QED
    BY <1>1, ReleasesDecided, PTL

=============================================================================
