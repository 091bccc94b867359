------------------------- MODULE EpochSettleProofs -------------------------
(***************************************************************************)
(* What an epoch has come to when its coroutines are done: paid and ticked *)
(* once a cycle, fair to whoever acted, armed for its next cycle, and rid  *)
(* of its simulations once it is over.                                     *)
(***************************************************************************)
EXTENDS EpochTurnsProofs, FiniteSetTheorems

\* Whatever the requests do, the deadline a coroutine has just written is still
\* ahead while it goes on to register the timer.
RearmPending ==
    \A p \in Proc : pc[p] = "rearm" => AutoResolve /\ deadline.state = "pending"

LEMMA RearmStep == TypeOK /\ RearmPending /\ [Next]_vars => RearmPending'
<1> SUFFICES ASSUME TypeOK, RearmPending, [Next]_vars
             PROVE  RearmPending'
    OBVIOUS
<1> USE DEF TypeOK, row, players, history, Goto, Return, RearmPending
<1>1. CASE DeadlinePasses \/ SweepExpiredCycles \/ EagerWait \/ Restart
    BY <1>1 DEF DeadlinePasses, SweepExpiredCycles, EagerWait, Restart
<1>2. ASSUME NEW h \in Player, MarkActed(h) \/ WithdrawReady(h)
      PROVE  RearmPending'
    BY <1>2 DEF MarkActed, WithdrawReady
<1>3. ASSUME NEW r \in Request, Start(r)
      PROVE  RearmPending'
    BY <1>3 DEF Start, SignalReady, RequestResolve, RequestAdvance, RequestCancel
<1>4. ASSUME NEW r \in Request, Finish(r)
      PROVE  RearmPending'
    BY <1>4 DEF Finish, MarkReady, TallyReady, AdvancePhase, ArchiveInstances, CancelEpoch,
                DeleteInstances
<1>5. ASSUME NEW p \in Proc, ClaimDeadline(p)
      PROVE  RearmPending'
    BY <1>5 DEF ClaimDeadline, Claimable
<1>6. ASSUME NEW p \in Proc,
             ClaimRefused(p) \/ ProcessAfkBatch(p) \/ ReplaceAfkWithBot(p) \/ MercyReset(p)
      PROVE  RearmPending'
    BY <1>6 DEF ClaimRefused, ProcessAfkBatch, ReplaceAfkWithBot, MercyReset
<1>7. ASSUME NEW p \in Proc,
             \/ ReadEpoch(p) \/ GrantRp(p) \/ ResetFlags(p) \/ AdvanceMissionTimers(p)
             \/ AdvanceConflict(p)
      PROVE  RearmPending'
    BY <1>7 DEF ReadEpoch, GrantRp, ResetFlags, AdvanceMissionTimers, AdvanceConflict
<1>8. ASSUME NEW p \in Proc,
             AdvanceAtomic(p) \/ AdvanceLegacy(p) \/ ApplyPhaseTransition(p) \/ RefetchEpoch(p)
      PROVE  RearmPending'
    BY <1>8 DEF AdvanceAtomic, AdvanceLegacy, ApplyPhaseTransition, RefetchEpoch
<1>9. ASSUME NEW p \in Proc, UpdatePhase(p)
      PROVE  RearmPending'
    BY <1>9 DEF UpdatePhase
<1>10. ASSUME NEW p \in Proc, SetNextCycleDeadline(p)
       PROVE  RearmPending'
    BY <1>10 DEF SetNextCycleDeadline
<1>11. ASSUME NEW p \in Proc, ScheduleEagerTimer(p) \/ RunPipeline(p) \/ CallFails(p)
       PROVE  RearmPending'
    BY <1>11 DEF ScheduleEagerTimer, RunPipeline, CallFails
<1>12. CASE UNCHANGED vars
    BY <1>12 DEF vars
<1> QED
    BY <1>1, <1>2, <1>3, <1>4, <1>5, <1>6, <1>7, <1>8, <1>9, <1>10, <1>11, <1>12
    DEF Next, Schedule, Resolve

THEOREM RearmedAhead == Spec => []RearmPending
<1>1. Init => RearmPending
    BY DEF Init, RearmPending
<1> QED
    BY <1>1, RearmStep, TypeCorrect, PTL DEF Spec

\* Left to itself the scheduler finds the row as its coroutines remember it.
THEOREM UnattendedAlways ==
    ASSUME Request = {}
    PROVE  Spec => []Unattended
<1>1. Unattended /\ TypeOK' /\ OneScheduledResolver' /\ WinnersDistinct' /\ [Next]_vars
          => Unattended'
    BY CoherentStep DEF Unattended
<1> QED
    BY <1>1, UnattendedInit, TypeCorrect, SchedulerExcludesItself, WinnersAreDistinct, PTL
    DEF Spec

(***************************************************************************)
(* Once a cycle.                                                           *)
(***************************************************************************)
Granted == {"reset", "timers", "advance"}

\* How far the one resolver is ahead of the counter.
Ahead(labels) == IF \E p \in Proc : pc[p] \in labels THEN 1 ELSE 0

PaidOnce ==
    faults = 0 => /\ grants = current_cycle + Ahead(Granted)
                  /\ ticks = current_cycle + Ahead({"advance"})

\* Of several processes at work at most one is there to be counted.
LEMMA CountOne ==
    ASSUME OneScheduledResolver, Request = {},
           NEW labels \in SUBSET (Claimed \cup BeforeAdvance)
    PROVE  Cardinality({p \in Proc : pc[p] \in labels}) = Ahead(labels)
<1> DEFINE S == {p \in Proc : pc[p] \in labels}
<1>1. \A p, q \in S : p = q
    BY DEF OneScheduledResolver, Holding
<1>2. CASE S = {}
    BY <1>2, FS_EmptySet DEF Ahead
<1>3. ASSUME NEW p \in S
      PROVE  Cardinality(S) = Ahead(labels)
    <2>1. S = {p}
        BY <1>1, <1>3
    <2>2. Cardinality({p}) = 1
        BY FS_Singleton
    <2> QED
        BY <1>3, <2>1, <2>2 DEF Ahead
<1> QED
    BY <1>2, <1>3

\* Nobody else is at work while one process is.
LEMMA Alone ==
    ASSUME OneScheduledResolver, Request = {}, NEW p \in Holding, NEW labels,
           labels \subseteq Claimed \cup BeforeAdvance
    PROVE  Ahead(labels) = IF pc[p] \in labels THEN 1 ELSE 0
BY DEF OneScheduledResolver, Holding, Ahead

\* The resolver is ahead of the counter from its grant to its increment, and
\* cannot lose the race in between.
LEMMA PaidStep ==
    ASSUME Request = {}, Unattended, RearmPending, [Next]_vars, OneScheduledResolver',
           PaidOnce
    PROVE  PaidOnce'
<1>0. /\ TypeOK /\ OneScheduledResolver
      /\ pc \in [Proc -> Label] /\ grants \in Nat /\ ticks \in Nat /\ current_cycle \in Nat
      /\ \A p \in Proc : pc[p] \in BeforeAdvance => loc[p].cycle = current_cycle
    BY DEF Unattended, TypeOK, Coherent
<1> USE DEF row, players, history, Goto, Return
<1>1. ASSUME UNCHANGED <<current_cycle, grants, ticks, faults>>,
             \A p \in Proc : /\ pc'[p] \in Granted <=> pc[p] \in Granted
                             /\ pc'[p] = "advance" <=> pc[p] = "advance"
      PROVE  PaidOnce'
    <2>1. Ahead(Granted)' = Ahead(Granted) /\ Ahead({"advance"})' = Ahead({"advance"})
        BY <1>1 DEF Ahead
    <2> QED
        BY <1>1, <2>1 DEF PaidOnce
<1>2. CASE DeadlinePasses \/ SweepExpiredCycles \/ EagerWait
    BY <1>0, <1>1, <1>2 DEF DeadlinePasses, SweepExpiredCycles, EagerWait, Granted
<1>3. ASSUME faults' = faults + 1
      PROVE  PaidOnce'
    BY <1>0, <1>3 DEF PaidOnce, TypeOK
<1>4. ASSUME NEW h \in Player, MarkActed(h) \/ WithdrawReady(h)
      PROVE  PaidOnce'
    BY <1>1, <1>4 DEF MarkActed, WithdrawReady
<1>5. ASSUME NEW p \in Proc, Schedule(p)
      PROVE  PaidOnce'
    BY <1>0, <1>1, <1>5 DEF Schedule, ClaimDeadline, ClaimRefused, ProcessAfkBatch,
           ReplaceAfkWithBot, MercyReset, Granted
<1>6. ASSUME NEW p \in Proc,
             \/ ReadEpoch(p) \/ ResetFlags(p) \/ UpdatePhase(p) \/ ApplyPhaseTransition(p)
             \/ RefetchEpoch(p) \/ SetNextCycleDeadline(p) \/ RunPipeline(p)
      PROVE  PaidOnce'
    BY <1>0, <1>1, <1>6 DEF ReadEpoch, ResetFlags, UpdatePhase, ApplyPhaseTransition,
           RefetchEpoch, SetNextCycleDeadline, RunPipeline, Granted
<1>7. ASSUME NEW p \in Proc, GrantRp(p)
      PROVE  PaidOnce'
    <2>1. /\ p \in Holding /\ p \in Holding' /\ pc[p] = "grant" /\ pc'[p] = "reset"
          /\ grants' = grants + 1 /\ UNCHANGED <<current_cycle, ticks, faults>>
        BY <1>0, <1>7 DEF GrantRp, Holding, BeforeAdvance
    <2>2. Ahead(Granted) = 0 /\ Ahead({"advance"}) = 0
        BY <1>0, <2>1, Alone DEF Granted, BeforeAdvance
    <2>3. Ahead(Granted)' = 1 /\ Ahead({"advance"})' = 0
        BY <1>0, <2>1, Alone DEF Granted, BeforeAdvance, OneScheduledResolver, Holding, Ahead
    <2> QED
        BY <1>0, <2>1, <2>2, <2>3 DEF PaidOnce
<1>8. ASSUME NEW p \in Proc, AdvanceMissionTimers(p)
      PROVE  PaidOnce'
    <2>1. /\ p \in Holding /\ p \in Holding' /\ pc[p] = "timers" /\ pc'[p] = "advance"
          /\ ticks' = ticks + 1 /\ UNCHANGED <<current_cycle, grants, faults>>
        BY <1>0, <1>8 DEF AdvanceMissionTimers, Holding, BeforeAdvance
    <2>2. Ahead(Granted) = 1 /\ Ahead({"advance"}) = 0
        BY <1>0, <2>1, Alone DEF Granted, BeforeAdvance
    <2>3. Ahead(Granted)' = 1 /\ Ahead({"advance"})' = 1
        BY <2>1 DEF Granted, Ahead
    <2> QED
        BY <1>0, <2>1, <2>2, <2>3 DEF PaidOnce
<1>9. ASSUME NEW p \in Proc, AdvanceAtomic(p) \/ AdvanceLegacy(p), faults' # faults + 1
      PROVE  PaidOnce'
    <2>1. /\ p \in Holding /\ pc[p] = "advance" /\ p \in Proc
          /\ current_cycle' = current_cycle + 1 /\ UNCHANGED <<grants, ticks, faults>>
        BY <1>0, <1>9 DEF AdvanceAtomic, AdvanceLegacy, Holding, BeforeAdvance
    <2>2. Ahead(Granted) = 1 /\ Ahead({"advance"}) = 1
        BY <2>1 DEF Granted, Ahead
    <2>3. \A q \in Proc : pc'[q] \notin Granted
        <3>1. pc'[p] \notin Granted
            BY <1>0, <1>9 DEF AdvanceAtomic, AdvanceLegacy, Granted
        <3>2. \A q \in Proc \ {p} : pc'[q] = pc[q] /\ q \notin Holding
            BY <1>0, <1>9, <2>1 DEF AdvanceAtomic, AdvanceLegacy, OneScheduledResolver
        <3> QED
            BY <3>1, <3>2 DEF Granted, Holding, BeforeAdvance
    <2>4. Ahead(Granted)' = 0 /\ Ahead({"advance"})' = 0
        BY <2>3 DEF Granted, Ahead
    <2> QED
        BY <1>0, <2>1, <2>2, <2>4 DEF PaidOnce
<1>10. ASSUME NEW p \in Proc, AdvanceConflict(p)
       PROVE  PaidOnce'
    BY <1>0, <1>10 DEF AdvanceConflict, BeforeAdvance
<1>11. ASSUME NEW p \in Proc, ScheduleEagerTimer(p)
       PROVE  PaidOnce'
    <2>1. Holding = {}
        BY <1>0, <1>11 DEF ScheduleEagerTimer, RearmPending, OneScheduledResolver, NoDeadline
    <2>2. \A q \in Proc : pc[q] \notin Granted /\ pc'[q] \notin Granted
        BY <1>0, <1>11, <2>1 DEF ScheduleEagerTimer, Granted, Holding, BeforeAdvance
    <2> QED
        BY <1>1, <1>11, <2>2 DEF ScheduleEagerTimer, Granted
<1>12. CASE UNCHANGED vars
    BY <1>1, <1>12 DEF vars
<1>13. ASSUME NEW p \in Proc, CallFails(p)
       PROVE  PaidOnce'
    BY <1>3, <1>13 DEF CallFails
<1>14. CASE Restart
    BY <1>3, <1>14 DEF Restart
<1>15. \A r \in Request : ~Start(r) /\ ~Finish(r)
    OBVIOUS
<1> QED
    BY <1>2, <1>3, <1>4, <1>5, <1>6, <1>7, <1>8, <1>9, <1>10, <1>11, <1>12, <1>13, <1>14, <1>15
    DEF Next, Resolve

\* Left to itself the scheduler pays every cycle once and moves its missions'
\* timers once, though grant and timers come before the compare-and-swap that
\* decides whose cycle it is.
THEOREM CyclesPaidOnce == Spec => []GrantOncePerCycle
<1>1. CASE Request # {}
    <2>1. GrantOncePerCycle
        BY <1>1 DEF GrantOncePerCycle
    <2> QED
        BY <2>1, PTL
<1>2. CASE Request = {}
    <2>1. Init => PaidOnce
        BY DEF Init, PaidOnce, Ahead, Granted
    <2>2. /\ Unattended /\ RearmPending /\ OneScheduledResolver' /\ PaidOnce /\ [Next]_vars
          => PaidOnce'
        BY <1>2, PaidStep
    <2>3. OneScheduledResolver /\ PaidOnce => GrantOncePerCycle
        <3> SUFFICES ASSUME OneScheduledResolver, PaidOnce
                     PROVE  GrantOncePerCycle
            OBVIOUS
        <3>1. Cardinality({p \in Proc : pc[p] \in Granted}) = Ahead(Granted)
            BY <1>2, CountOne DEF Granted, BeforeAdvance
        <3>2. Cardinality({p \in Proc : pc[p] \in {"advance"}}) = Ahead({"advance"})
            BY <1>2, CountOne DEF BeforeAdvance
        <3>3. {p \in Proc : pc[p] \in {"advance"}} = {p \in Proc : pc[p] = "advance"}
            OBVIOUS
        <3> QED
            BY <3>1, <3>2, <3>3 DEF GrantOncePerCycle, PaidOnce, Granted
    <2>4. Spec => []Unattended
        BY <1>2, UnattendedAlways
    <2> QED
        BY <2>1, <2>2, <2>3, <2>4, RearmedAhead, SchedulerExcludesItself, PTL DEF Spec
<1> QED
    BY <1>1, <1>2

(***************************************************************************)
(* Absence.                                                                *)
(***************************************************************************)
\* Only between the reset of the flags and the increment has the row forgotten
\* somebody who acted; no deadline stands then, nor if the resolver ends there.
Remembered ==
    \/ acted_now \subseteq has_acted
    \/ deadline = NoDeadline /\ \A p \in Holding : pc[p] \in {"timers", "advance"}

LEMMA RememberedStep ==
    ASSUME Request = {}, TypeOK, OneScheduledResolver, OneScheduledResolver', Remembered,
           [Next]_vars
    PROVE  Remembered'
<1>0. pc \in [Proc -> Label]
    BY DEF TypeOK
<1> USE DEF row, players, history, Goto, Return
<1>1. ASSUME UNCHANGED <<deadline, has_acted, acted_now>>,
             \A p \in Holding' : p \in Holding /\ (pc[p] \in {"timers", "advance"}
                                                    => pc'[p] \in {"timers", "advance"})
      PROVE  Remembered'
    BY <1>1 DEF Remembered
<1>2. CASE DeadlinePasses
    BY <1>2 DEF DeadlinePasses, Remembered, NoDeadline
<1>3. CASE SweepExpiredCycles \/ EagerWait \/ Restart
    BY <1>0, <1>1, <1>3 DEF SweepExpiredCycles, EagerWait, Restart, Holding, Claimed,
           BeforeAdvance
<1>4. ASSUME NEW h \in Player, MarkActed(h) \/ WithdrawReady(h)
      PROVE  Remembered'
    BY <1>4 DEF MarkActed, WithdrawReady, Remembered, Holding
<1>5. ASSUME NEW p \in Proc, ClaimDeadline(p)
      PROVE  Remembered'
    BY <1>5 DEF ClaimDeadline, Claimable, Remembered, NoDeadline
<1>6. ASSUME NEW p \in Proc,
             ClaimRefused(p) \/ ProcessAfkBatch(p) \/ ReplaceAfkWithBot(p) \/ MercyReset(p)
      PROVE  Remembered'
    BY <1>0, <1>1, <1>6 DEF ClaimRefused, ProcessAfkBatch, ReplaceAfkWithBot, MercyReset,
           Holding, Claimed, BeforeAdvance
<1>7. ASSUME NEW p \in Proc, ReadEpoch(p) \/ GrantRp(p)
      PROVE  Remembered'
    BY <1>0, <1>1, <1>7 DEF ReadEpoch, GrantRp, Holding, Claimed, BeforeAdvance
<1>8. ASSUME NEW p \in Proc, ResetFlags(p)
      PROVE  Remembered'
    <2>1. p \in Holding' /\ pc'[p] = "timers" /\ p \in Holding
        BY <1>0, <1>8 DEF ResetFlags, Holding, BeforeAdvance
    <2> QED
        BY <2>1 DEF OneScheduledResolver, Remembered
<1>9. ASSUME NEW p \in Proc, AdvanceMissionTimers(p) \/ AdvanceConflict(p)
      PROVE  Remembered'
    BY <1>0, <1>1, <1>9 DEF AdvanceMissionTimers, AdvanceConflict, Holding, Claimed,
           BeforeAdvance
<1>10. ASSUME NEW p \in Proc, AdvanceAtomic(p) \/ AdvanceLegacy(p)
       PROVE  Remembered'
    BY <1>10 DEF AdvanceAtomic, AdvanceLegacy, Remembered
<1>11. ASSUME NEW p \in Proc, UpdatePhase(p) \/ ApplyPhaseTransition(p) \/ RefetchEpoch(p)
       PROVE  Remembered'
    BY <1>0, <1>1, <1>11 DEF UpdatePhase, ApplyPhaseTransition, RefetchEpoch, Holding,
           Claimed, BeforeAdvance
<1>12. ASSUME NEW p \in Proc, SetNextCycleDeadline(p)
       PROVE  Remembered'
    <2>1. p \in Holding /\ pc[p] = "deadline"
        BY <1>12 DEF SetNextCycleDeadline, Holding
    <2>2. acted_now \subseteq has_acted
        BY <2>1 DEF Remembered
    <2> QED
        BY <1>12, <2>2 DEF SetNextCycleDeadline, Remembered
<1>13. ASSUME NEW p \in Proc, ScheduleEagerTimer(p) \/ RunPipeline(p) \/ CallFails(p)
       PROVE  Remembered'
    BY <1>0, <1>1, <1>13 DEF ScheduleEagerTimer, RunPipeline, CallFails, Holding, Claimed,
           BeforeAdvance
<1>14. CASE UNCHANGED vars
    BY <1>1, <1>14 DEF vars, Holding
<1> QED
    BY <1>2, <1>3, <1>4, <1>5, <1>6, <1>7, <1>8, <1>9, <1>10, <1>11, <1>12, <1>13, <1>14
    DEF Next, Schedule, Resolve

\* Left to itself the scheduler counts nobody absent from a cycle in which they
\* acted, however deploys and signals fall between its calls.
THEOREM ActiveNotPenalized ==
    ASSUME Request = {}
    PROVE  Spec => NoPenaltyForActive
<1>1. Init => Remembered
    BY DEF Init, Remembered
<1>2. /\ TypeOK /\ OneScheduledResolver /\ OneScheduledResolver' /\ Remembered /\ [Next]_vars
      => Remembered'
    BY RememberedStep
<1> DEFINE Fair ==
        \A h \in Player : consecutive_afk'[h] > consecutive_afk[h] => h \notin acted_now
<1>3. TypeOK /\ Remembered /\ [Next]_vars => [Fair]_vars
    <2> SUFFICES ASSUME TypeOK, Remembered, [Next]_vars
                 PROVE  Fair \/ UNCHANGED vars
        OBVIOUS
    <2>0. /\ consecutive_afk \in [Player -> Nat] /\ acted_now \subseteq Player
          /\ \A n \in Nat : ~(n > n) /\ ~(0 > n)
        BY DEF TypeOK
    <2>1. ASSUME NEW p \in Proc, ProcessAfkBatch(p)
          PROVE  Fair
        <3>1. p \in Holding /\ pc[p] \notin {"timers", "advance"}
            BY <2>1 DEF ProcessAfkBatch, Holding, Claimed
        <3>2. acted_now \subseteq has_acted
            BY <3>1 DEF Remembered
        <3>3. \A h \in Player : h \in acted_now => consecutive_afk'[h] = consecutive_afk[h]
            BY <2>0, <2>1, <3>2 DEF ProcessAfkBatch, Absent
        <3> QED
            BY <2>0, <3>3
    <2>2. ASSUME NEW p \in Proc, MercyReset(p)
          PROVE  Fair
        <3>1. \A h \in Player : consecutive_afk'[h] \in {0, consecutive_afk[h]}
            BY <2>2 DEF MercyReset
        <3> QED
            BY <2>0, <3>1
    <2>3. CASE \A p \in Proc : ~ProcessAfkBatch(p) /\ ~MercyReset(p)
        <3>1. consecutive_afk' = consecutive_afk
            BY <2>3 DEF Next, DeadlinePasses, SweepExpiredCycles, EagerWait, Restart, MarkActed,
                   WithdrawReady, Start, SignalReady, RequestResolve, RequestAdvance,
                   RequestCancel, Finish, MarkReady, TallyReady, AdvancePhase, ArchiveInstances,
                   CancelEpoch, DeleteInstances, Schedule, ClaimDeadline, ClaimRefused,
                   ReplaceAfkWithBot, Resolve, ReadEpoch, GrantRp, ResetFlags,
                   AdvanceMissionTimers, AdvanceConflict, AdvanceAtomic, AdvanceLegacy,
                   UpdatePhase, ApplyPhaseTransition, RefetchEpoch, SetNextCycleDeadline,
                   ScheduleEagerTimer, RunPipeline, CallFails, vars, players
        <3> QED
            BY <2>0, <3>1
    <2> QED
        BY <2>1, <2>2, <2>3
<1> QED
    BY <1>1, <1>2, <1>3, TypeCorrect, SchedulerExcludesItself, PTL
    DEF Spec, NoPenaltyForActive

(***************************************************************************)
(* The next deadline.                                                      *)
(***************************************************************************)
\* A coroutine that will write the next deadline if the epoch stays active and
\* no call fails.
Pursues(p) ==
    \/ pc[p] \in Claimed
    \/ pc[p] \in BeforeAdvance /\ loc[p].cycle = current_cycle
    \/ pc[p] = "phase" /\ ~AtomicAdvance
    \/ pc[p] \in {"enter", "refetch"}
    \/ pc[p] = "deadline" /\ loc[p].status # "completed"

Pursued ==
    AutoResolve /\ faults = 0 /\ status \in ActiveStatus /\ deadline = NoDeadline
        => \E p \in Proc : Pursues(p)

\* The trigger lets nothing return to an active status.
LEMMA ActiveBefore ==
    ASSUME NEW s, s # "lobby", NEW t, AllowsStatus(s, t)
    PROVE  t # "lobby" /\ (t \in ActiveStatus => s \in ActiveStatus)
BY DEF AllowsStatus, NextPhase, ActiveStatus

\* Whoever takes the counter on now pursues the next deadline, the resolver it
\* overtakes no longer does, and nobody else is put off.  On the legacy path a
\* request may be in the way, with a status the trigger then refuses.
LEMMA PursuedStep ==
    ASSUME TypeOK, status # "lobby", ReleaseDecided, RearmPending, Pursued, [Next]_vars,
           AtomicAdvance \/ (Request = {} /\ Unattended)
    PROVE  Pursued'
<1> SUFFICES ASSUME AutoResolve, faults' = 0, status' \in ActiveStatus, deadline' = NoDeadline
             PROVE  \E p \in Proc : Pursues(p)'
    BY DEF Pursued
<1>0. /\ pc \in [Proc -> Label] /\ loc \in [Proc -> Locals] /\ status \in ActiveStatus
      /\ faults \in Nat /\ Timer \in Proc /\ Sweep \in Proc /\ Request \subseteq Proc
    BY StatusAllowed, ActiveBefore DEF TypeOK, Proc
<1> DEFINE Met == \E p \in Proc : Pursues(p)'
<1> USE DEF row, players, history, Goto, Return
<1>1. ASSUME UNCHANGED <<current_cycle, deadline, faults>>,
             \A p \in Proc : Pursues(p) => Pursues(p)'
      PROVE  Met
    BY <1>0, <1>1 DEF Pursued
<1>2. CASE DeadlinePasses
    BY <1>2 DEF DeadlinePasses, NoDeadline
<1>3. CASE SweepExpiredCycles \/ EagerWait
    BY <1>0, <1>1, <1>3 DEF SweepExpiredCycles, EagerWait, Pursues, Claimed, BeforeAdvance
<1>4. ASSUME NEW h \in Player, MarkActed(h) \/ WithdrawReady(h)
      PROVE  Met
    BY <1>0, <1>1, <1>4 DEF MarkActed, WithdrawReady, Pursues
<1>5. ASSUME NEW r \in Request, Start(r)
      PROVE  Met
    BY <1>0, <1>1, <1>5 DEF Start, SignalReady, RequestResolve, RequestAdvance, RequestCancel,
           Pursues, Claimed, BeforeAdvance
<1>6. ASSUME NEW r \in Request, Finish(r)
      PROVE  Met
    BY <1>0, <1>1, <1>6 DEF Finish, MarkReady, TallyReady, AdvancePhase, ArchiveInstances,
           CancelEpoch, DeleteInstances, Pursues, Claimed, BeforeAdvance
<1>7. ASSUME NEW p \in Proc, ClaimDeadline(p)
      PROVE  Met
    BY <1>0, <1>7 DEF ClaimDeadline, Pursues, Claimed
<1>8. ASSUME NEW p \in Proc,
             ClaimRefused(p) \/ ProcessAfkBatch(p) \/ ReplaceAfkWithBot(p) \/ MercyReset(p)
      PROVE  Met
    BY <1>0, <1>1, <1>8 DEF ClaimRefused, ProcessAfkBatch, ReplaceAfkWithBot, MercyReset,
           Pursues, Claimed, BeforeAdvance
<1>9. ASSUME NEW p \in Proc, ReadEpoch(p)
      PROVE  Met
    <2>1. /\ pc'[p] = "grant" /\ loc'[p].cycle = current_cycle /\ current_cycle' = current_cycle
        BY <1>0, <1>9 DEF ReadEpoch, Locals
    <2> QED
        BY <2>1 DEF Pursues, BeforeAdvance
<1>10. ASSUME NEW p \in Proc,
              GrantRp(p) \/ ResetFlags(p) \/ AdvanceMissionTimers(p) \/ AdvanceConflict(p)
       PROVE  Met
    BY <1>0, <1>1, <1>10 DEF GrantRp, ResetFlags, AdvanceMissionTimers, AdvanceConflict,
           Pursues, Claimed, BeforeAdvance
<1>11. ASSUME NEW p \in Proc, AdvanceAtomic(p)
       PROVE  Met
    <2>1. pc'[p] \in {"enter", "refetch"}
        BY <1>0, <1>11 DEF AdvanceAtomic
    <2> QED
        BY <2>1 DEF Pursues
<1>12. ASSUME NEW p \in Proc, AdvanceLegacy(p)
       PROVE  Met
    <2>1. ~AtomicAdvance /\ Unattended
        BY <1>0, <1>12 DEF AdvanceLegacy
    <2>2. loc[p].status = status
        BY <1>12, <2>1 DEF AdvanceLegacy, Unattended, Coherent, BeforeAdvance
    <2>3. \/ pc'[p] = "phase"
          \/ pc'[p] = "deadline" /\ loc'[p].status = status
        BY <1>0, <1>12, <2>2 DEF AdvanceLegacy, Locals
    <2> QED
        BY <1>0, <2>1, <2>3 DEF Pursues, ActiveStatus
<1>13. ASSUME NEW p \in Proc, UpdatePhase(p)
       PROVE  Met
    <2>1. CASE AtomicAdvance
        BY <1>0, <1>1, <1>13, <2>1 DEF UpdatePhase, Pursues, Claimed, BeforeAdvance
    <2>2. CASE ~AtomicAdvance
        <3>1. AllowsStatus(status, loc[p].status)
            BY <1>13, <2>2, PhaseAfterAllowed DEF UpdatePhase, Unattended, Coherent, TypeOK
        <3>2. pc'[p] = "enter"
            BY <1>0, <1>13, <3>1 DEF UpdatePhase, AllowsStatus
        <3> QED
            BY <3>2 DEF Pursues
    <2> QED
        BY <2>1, <2>2
<1>14. ASSUME NEW p \in Proc, ApplyPhaseTransition(p)
       PROVE  Met
    <2>1. loc[p].status # "completed"
        BY <1>0, <1>14 DEF ApplyPhaseTransition, ReleaseDecided, ActiveStatus
    <2> QED
        BY <1>0, <1>14, <2>1 DEF ApplyPhaseTransition, Pursues
<1>15. ASSUME NEW p \in Proc, RefetchEpoch(p)
       PROVE  Met
    <2>1. pc'[p] = "deadline" /\ loc'[p].status = status
        BY <1>0, <1>15 DEF RefetchEpoch, Locals
    <2> QED
        BY <1>0, <2>1 DEF Pursues, ActiveStatus
<1>16. ASSUME NEW p \in Proc, SetNextCycleDeadline(p)
       PROVE  Met
    BY <1>0, <1>1, <1>16 DEF SetNextCycleDeadline, Pursues, Claimed, BeforeAdvance, NoDeadline
<1>17. ASSUME NEW p \in Proc, ScheduleEagerTimer(p)
       PROVE  Met
    BY <1>17 DEF ScheduleEagerTimer, RearmPending, NoDeadline
<1>18. ASSUME NEW p \in Proc, RunPipeline(p)
       PROVE  Met
    BY <1>0, <1>1, <1>18 DEF RunPipeline, Pursues, Claimed, BeforeAdvance
<1>19. ASSUME NEW p \in Proc, CallFails(p)
       PROVE  Met
    BY <1>0, <1>19 DEF CallFails
<1>20. CASE Restart
    BY <1>0, <1>20 DEF Restart
<1>21. CASE UNCHANGED vars
    BY <1>1, <1>21 DEF vars, Pursues
<1> QED
    BY <1>2, <1>3, <1>4, <1>5, <1>6, <1>7, <1>8, <1>9, <1>10, <1>11, <1>12, <1>13, <1>14,
       <1>15, <1>16, <1>17, <1>18, <1>19, <1>20, <1>21
    DEF Next, Schedule, Resolve

\* With atomic advance, whatever requests come in, and on the legacy path when
\* none do, an epoch that resolves itself has its next deadline once its
\* coroutines are done, unless a call failed.
THEOREM ArmedAgain ==
    ASSUME AtomicAdvance \/ Request = {}
    PROVE  Spec => []ArmedWhenQuiet
<1> DEFINE Inv == Pursued /\ status # "lobby"
<1>1. Init => Inv
    BY DEF Init, Pursued, NoDeadline
<1>2. Inv => ArmedWhenQuiet
    BY DEF Pursued, Pursues, ArmedWhenQuiet, Quiet, Claimed, BeforeAdvance
<1>3. CASE AtomicAdvance
    <2>1. TypeOK /\ RearmPending /\ InstancesMatchStatus /\ ReleaseDecided /\ Inv /\ [Next]_vars
              => Inv'
        BY <1>3, PursuedStep, StatusAllowed, ActiveBefore
    <2> QED
        BY <1>1, <1>2, <2>1, TypeCorrect, RearmedAhead, ReleasesDecided, PTL DEF Spec
<1>4. CASE Request = {}
    <2>1. /\ TypeOK /\ RearmPending /\ InstancesMatchStatus /\ ReleaseDecided /\ Unattended
          /\ Inv /\ [Next]_vars
          => Inv'
        BY <1>4, PursuedStep, StatusAllowed, ActiveBefore
    <2>2. Spec => []Unattended
        BY <1>4, UnattendedAlways
    <2> QED
        BY <1>1, <1>2, <2>1, <2>2, TypeCorrect, RearmedAhead, ReleasesDecided, PTL DEF Spec
<1> QED
    BY <1>3, <1>4

(***************************************************************************)
(* The simulations of an epoch that is over.                               *)
(***************************************************************************)
\* The status a coroutine is about to write follows an active one, and only
\* requests archive on the creator's behalf.
Planned ==
    \A p \in Proc :
        /\ pc[p] = "hostarchive" => p \in Request
        /\ pc[p] \in BeforeAdvance => loc[p].status \in ActiveStatus
        /\ pc[p] \in {"hostadvance", "phase"} =>
               loc[p].status \in ActiveStatus \cup {"completed"}

LEMMA PlannedStep == TypeOK /\ Planned /\ [Next]_vars => Planned'
<1> SUFFICES ASSUME TypeOK, Planned, [Next]_vars
             PROVE  Planned'
    OBVIOUS
<1> USE DEF TypeOK, row, players, history, Goto, Return, Blank, Planned, BeforeAdvance, Locals
<1>1. CASE DeadlinePasses \/ SweepExpiredCycles \/ EagerWait \/ Restart
    BY <1>1 DEF DeadlinePasses, SweepExpiredCycles, EagerWait, Restart
<1>2. ASSUME NEW h \in Player, MarkActed(h) \/ WithdrawReady(h)
      PROVE  Planned'
    BY <1>2 DEF MarkActed, WithdrawReady
<1>3. ASSUME NEW r \in Request, Start(r)
      PROVE  Planned'
    <2>1. CASE RequestAdvance(r)
        BY <2>1 DEF RequestAdvance, NextPhase, ActiveStatus
    <2>2. CASE RequestResolve(r) \/ RequestCancel(r)
        BY <2>2 DEF RequestResolve, RequestCancel
    <2>3. ASSUME NEW h \in Player, SignalReady(r, h)
          PROVE  Planned'
        BY <2>3 DEF SignalReady
    <2> QED
        BY <1>3, <2>1, <2>2, <2>3 DEF Start
<1>4. ASSUME NEW r \in Request, Finish(r)
      PROVE  Planned'
    BY <1>4 DEF Finish, MarkReady, TallyReady, AdvancePhase, ArchiveInstances, CancelEpoch,
                DeleteInstances
<1>5. ASSUME NEW p \in Proc, Schedule(p)
      PROVE  Planned'
    BY <1>5 DEF Schedule, ClaimDeadline, ClaimRefused, ProcessAfkBatch, ReplaceAfkWithBot,
                MercyReset
<1>6. ASSUME NEW p \in Proc,
             \/ ReadEpoch(p) \/ GrantRp(p) \/ ResetFlags(p) \/ AdvanceMissionTimers(p)
             \/ AdvanceConflict(p) \/ AdvanceAtomic(p)
      PROVE  Planned'
    BY <1>6 DEF ReadEpoch, GrantRp, ResetFlags, AdvanceMissionTimers, AdvanceConflict,
                AdvanceAtomic
<1>7. ASSUME NEW p \in Proc, AdvanceLegacy(p)
      PROVE  Planned'
    <2>1. PhaseAfter(loc[p].status, current_cycle + 1) \in ActiveStatus \cup {"completed"}
        BY <1>7 DEF AdvanceLegacy, PhaseAfter, ActiveStatus
    <2> QED
        BY <1>7, <2>1 DEF AdvanceLegacy
<1>8. ASSUME NEW p \in Proc,
             UpdatePhase(p) \/ ApplyPhaseTransition(p) \/ RefetchEpoch(p)
      PROVE  Planned'
    BY <1>8 DEF UpdatePhase, ApplyPhaseTransition, RefetchEpoch
<1>9. ASSUME NEW p \in Proc,
             \/ SetNextCycleDeadline(p) \/ ScheduleEagerTimer(p) \/ RunPipeline(p)
             \/ CallFails(p)
      PROVE  Planned'
    BY <1>9 DEF SetNextCycleDeadline, ScheduleEagerTimer, RunPipeline, CallFails
<1>10. CASE UNCHANGED vars
    BY <1>10 DEF vars
<1> QED
    BY <1>1, <1>2, <1>3, <1>4, <1>5, <1>6, <1>7, <1>8, <1>9, <1>10 DEF Next, Resolve

\* A coroutine that will release the simulations, if no call fails.
Deletes(p)  == pc[p] = "purge"
Archives(p) == pc[p] = "hostarchive" \/ (pc[p] = "enter" /\ loc[p].status = "completed")

Releasing ==
    faults = 0 =>
        /\ status = "cancelled" /\ instances # "deleted" => \E p \in Proc : Deletes(p)
        /\ status = "completed" /\ instances # "archived" => \E p \in Proc : Archives(p)

\* Whoever ends the epoch goes on to release its simulations.
LEMMA ReleasingStep ==
    ASSUME TypeOK, InstancesMatchStatus, ReleaseDecided, RearmPending, Planned, Releasing,
           [Next]_vars, ~AutoResolve \/ (Request = {} /\ Unattended)
    PROVE  Releasing'
<1>0. /\ pc \in [Proc -> Label] /\ loc \in [Proc -> Locals] /\ status \in Status
      /\ faults \in Nat /\ current_cycle \in Nat
      /\ instances \in {"active", "archived", "deleted"}
      /\ Timer \in Proc /\ Sweep \in Proc /\ Request \subseteq Proc
    BY DEF TypeOK, Proc
<1> USE DEF row, players, history, Goto, Return
<1>1. ASSUME UNCHANGED <<status, instances, faults>>,
             \A p \in Proc : /\ Deletes(p) => Deletes(p)'
                             /\ Archives(p) => Archives(p)'
      PROVE  Releasing'
    BY <1>1 DEF Releasing
<1>2. CASE DeadlinePasses \/ SweepExpiredCycles \/ EagerWait
    BY <1>0, <1>1, <1>2 DEF DeadlinePasses, SweepExpiredCycles, EagerWait, Deletes, Archives
<1>3. ASSUME faults' = faults + 1
      PROVE  Releasing'
    BY <1>0, <1>3 DEF Releasing
<1>4. ASSUME NEW h \in Player, MarkActed(h) \/ WithdrawReady(h)
      PROVE  Releasing'
    BY <1>0, <1>1, <1>4 DEF MarkActed, WithdrawReady, Deletes, Archives
<1>5. ASSUME NEW r \in Request, Start(r) \/ MarkReady(r) \/ TallyReady(r)
      PROVE  Releasing'
    BY <1>0, <1>1, <1>5 DEF Start, SignalReady, RequestResolve, RequestAdvance, RequestCancel,
           MarkReady, TallyReady, Deletes, Archives
<1>6. ASSUME NEW r \in Request, AdvancePhase(r)
      PROVE  Releasing'
    <2>1. CASE status' = status /\ Return(r)
        BY <1>0, <1>1, <1>6, <2>1 DEF AdvancePhase, Deletes, Archives
    <2>2. CASE /\ status' = loc[r].status /\ loc[r].status # "completed"
        BY <1>0, <1>6, <2>2 DEF AdvancePhase, Planned, Releasing, ActiveStatus
    <2>3. CASE /\ status' = loc[r].status /\ loc[r].status = "completed"
               /\ Goto(r, "hostarchive") /\ UNCHANGED loc
        BY <1>0, <1>6, <2>3 DEF AdvancePhase, Releasing, Archives
    <2> QED
        BY <1>6, <2>1, <2>2, <2>3 DEF AdvancePhase
<1>7. ASSUME NEW r \in Request, ArchiveInstances(r)
      PROVE  Releasing'
    BY <1>0, <1>7 DEF ArchiveInstances, Archived, ReleaseDecided, InstancesMatchStatus, Releasing
<1>8. ASSUME NEW r \in Request, CancelEpoch(r)
      PROVE  Releasing'
    <2>1. CASE status' = status /\ Return(r)
        BY <1>0, <1>1, <1>8, <2>1 DEF CancelEpoch, Deletes, Archives
    <2>2. CASE status' = "cancelled" /\ Goto(r, "purge") /\ UNCHANGED loc
        BY <1>0, <1>8, <2>2 DEF CancelEpoch, Releasing, Deletes
    <2> QED
        BY <1>8, <2>1, <2>2 DEF CancelEpoch
<1>9. ASSUME NEW r \in Request, DeleteInstances(r)
      PROVE  Releasing'
    BY <1>0, <1>9 DEF DeleteInstances, ReleaseDecided, Releasing
<1>10. ASSUME NEW p \in Proc, Schedule(p)
       PROVE  Releasing'
    BY <1>0, <1>1, <1>10 DEF Schedule, ClaimDeadline, ClaimRefused, ProcessAfkBatch,
           ReplaceAfkWithBot, MercyReset, Deletes, Archives
<1>11. ASSUME NEW p \in Proc,
              \/ ReadEpoch(p) \/ GrantRp(p) \/ ResetFlags(p) \/ AdvanceMissionTimers(p)
              \/ AdvanceConflict(p)
       PROVE  Releasing'
    BY <1>0, <1>1, <1>11 DEF ReadEpoch, GrantRp, ResetFlags, AdvanceMissionTimers,
           AdvanceConflict, Deletes, Archives
<1>12. ASSUME NEW p \in Proc, AdvanceAtomic(p)
       PROVE  Releasing'
    <2>1. CASE status' = status
        BY <1>0, <1>1, <1>12, <2>1 DEF AdvanceAtomic, Deletes, Archives
    <2>2. CASE status' # status
        <3>1. status' # "cancelled" /\ pc'[p] = "enter" /\ loc'[p].status = status'
            BY <1>0, <1>12, <2>2 DEF AdvanceAtomic, PhaseAfter, Locals
        <3> QED
            BY <3>1 DEF Releasing, Archives
    <2> QED
        BY <2>1, <2>2
<1>13. ASSUME NEW p \in Proc, AdvanceLegacy(p)
       PROVE  Releasing'
    <2>1. CASE faults' = faults
        BY <1>0, <1>1, <1>13, <2>1 DEF AdvanceLegacy, Deletes, Archives
    <2> QED
        BY <1>3, <1>13, <2>1 DEF AdvanceLegacy
<1>14. ASSUME NEW p \in Proc, UpdatePhase(p)
       PROVE  Releasing'
    <2>1. CASE status' = status /\ Return(p)
        BY <1>0, <1>1, <1>14, <2>1 DEF UpdatePhase, Deletes, Archives
    <2>2. CASE /\ status' = loc[p].status /\ Goto(p, "enter")
               /\ loc' = [loc EXCEPT ![p].number = current_cycle]
        <3>1. status' # "cancelled" /\ pc'[p] = "enter" /\ loc'[p].status = status'
            BY <1>0, <1>14, <2>2 DEF UpdatePhase, Planned, ActiveStatus, Locals
        <3> QED
            BY <3>1 DEF Releasing, Archives
    <2> QED
        BY <1>14, <2>1, <2>2 DEF UpdatePhase
<1>15. ASSUME NEW p \in Proc, ApplyPhaseTransition(p)
       PROVE  Releasing'
    <2>1. CASE loc[p].status = "completed"
        BY <1>0, <1>15, <2>1 DEF ApplyPhaseTransition, Archived, ReleaseDecided,
               InstancesMatchStatus, Releasing
    <2>2. CASE loc[p].status # "completed"
        BY <1>0, <1>1, <1>15, <2>2 DEF ApplyPhaseTransition, Deletes, Archives
    <2> QED
        BY <2>1, <2>2
<1>16. ASSUME NEW p \in Proc, RefetchEpoch(p) \/ SetNextCycleDeadline(p) \/ RunPipeline(p)
       PROVE  Releasing'
    BY <1>0, <1>1, <1>16 DEF RefetchEpoch, SetNextCycleDeadline, RunPipeline, Deletes, Archives
<1>17. ASSUME NEW p \in Proc, ScheduleEagerTimer(p)
       PROVE  Releasing'
    <2>1. AutoResolve /\ deadline # NoDeadline
        BY <1>17 DEF ScheduleEagerTimer, RearmPending, NoDeadline
    <2>2. Request = {} /\ Holding = {}
        BY <2>1 DEF Unattended, OneScheduledResolver
    <2>3. status # "cancelled" /\ pc[Timer] # "enter" /\ pc[Timer] # "hostarchive"
        BY <1>0, <2>1, <2>2 DEF Unattended, ActiveStatus, Holding, Planned
    <2> QED
        BY <1>0, <1>1, <1>17, <2>3 DEF ScheduleEagerTimer, Releasing, Archives
<1>18. ASSUME NEW p \in Proc, CallFails(p)
       PROVE  Releasing'
    BY <1>3, <1>18 DEF CallFails
<1>19. CASE Restart
    BY <1>3, <1>19 DEF Restart
<1>20. CASE UNCHANGED vars
    BY <1>1, <1>20 DEF vars, Deletes, Archives
<1> QED
    BY <1>2, <1>3, <1>4, <1>5, <1>6, <1>7, <1>8, <1>9, <1>10, <1>11, <1>12, <1>13, <1>14,
       <1>15, <1>16, <1>17, <1>18, <1>19, <1>20
    DEF Next, Finish, Resolve

\* An epoch that is over has released its simulations once its coroutines are
\* done and no call failed: when it is resolved by hand, whatever requests race
\* to complete and to cancel it, and when it is left to the scheduler.
THEOREM InstancesReleased ==
    ASSUME AutoResolve => Request = {}
    PROVE  Spec => []InstancesSettle
<1> DEFINE Inv == Planned /\ Releasing
<1>1. Init => Inv
    BY DEF Init, Planned, Releasing, BeforeAdvance
<1>2. Inv => InstancesSettle
    BY DEF Releasing, Deletes, Archives, InstancesSettle, Quiet
<1>3. CASE ~AutoResolve
    <2>1. /\ TypeOK /\ RearmPending /\ InstancesMatchStatus /\ ReleaseDecided
          /\ Inv /\ [Next]_vars
          => Inv'
        BY <1>3, PlannedStep, ReleasingStep
    <2> QED
        BY <1>1, <1>2, <2>1, TypeCorrect, RearmedAhead, ReleasesDecided, PTL DEF Spec
<1>4. CASE Request = {}
    <2>1. /\ TypeOK /\ RearmPending /\ InstancesMatchStatus /\ ReleaseDecided /\ Unattended
          /\ Inv /\ [Next]_vars
          => Inv'
        BY <1>4, PlannedStep, ReleasingStep
    <2>2. Spec => []Unattended
        BY <1>4, UnattendedAlways
    <2> QED
        BY <1>1, <1>2, <2>1, <2>2, TypeCorrect, RearmedAhead, ReleasesDecided, PTL DEF Spec
<1> QED
    BY <1>3, <1>4

=============================================================================
