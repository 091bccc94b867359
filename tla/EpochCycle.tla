---------------------------- MODULE EpochCycle ----------------------------
(***************************************************************************)
(* Resolving the cycles of one epoch.                                      *)
(*                                                                         *)
(* A cycle is resolved by whoever notices that it is over:                 *)
(*   - the sweep, a loop that selects epochs with an expired deadline;     *)
(*   - the eager timer, an asyncio task sleeping until the deadline;       *)
(*   - a ready signal, when it makes every human participant ready;        *)
(*   - the creator, with resolve-cycle.                                    *)
(* All four run the same resolve_cycle_full coroutine, in one asyncio      *)
(* process, against the game_epochs row and the epoch_participants rows.   *)
(* Between two database calls any other coroutine may run, so each call is *)
(* an action here and pc[p] names the call process p makes next.           *)
(*                                                                         *)
(* current_cycle guards the counter's increment (compare-and-swap), and    *)
(* the scheduler's RPC claims a deadline by nulling it.  The rest of the   *)
(* row is written without a guard.                                         *)
(***************************************************************************)
EXTENDS EpochPhase, FiniteSets

CONSTANTS
    Player,          \* human participants' simulations
    Request,         \* HTTP requests that may be in progress at once
    Sweep, Timer,    \* the scheduler's two kinds of task
    AutoResolve,     \* config.auto_resolve_mode # "manual"
    RequireAction,   \* config.require_action_for_ready
    AfkEnabled,      \* config.afk_penalty_enabled
    AfkThreshold,    \* config.afk_escalation_threshold
    AtomicAdvance,   \* platform setting use_atomic_cycle_advance
    MaxFaults        \* bound on failed calls and restarts in a behaviour

ASSUME CycleAssumption ==
    /\ Sweep \notin Request /\ Timer \notin Request /\ Sweep # Timer
    /\ AutoResolve \in BOOLEAN /\ RequireAction \in BOOLEAN
    /\ AfkEnabled \in BOOLEAN /\ AtomicAdvance \in BOOLEAN
    /\ AfkThreshold \in Nat /\ MaxFaults \in Nat

Proc == Request \cup {Sweep, Timer}

VARIABLES
    \* the game_epochs row
    status, current_cycle, deadline,
    \* the epoch_participants rows: sets of players with the flag set
    cycle_ready, has_acted, is_bot,
    consecutive_afk,
    \* the cloned simulations of the epoch
    instances,
    \* the coroutines: next call, and the locals it will use
    pc, loc,
    \* failed calls and restarts so far
    faults,
    \* history: RP grants, mission timer advances, cycles whose pipeline ran,
    \* players who acted since the counter last moved, and whether a resolver
    \* has taken the legacy path
    grants, ticks, piped, acted_now, legacy

row     == <<status, current_cycle, deadline>>
players == <<cycle_ready, has_acted, is_bot, consecutive_afk>>
history == <<grants, ticks, piped, acted_now, legacy>>
vars    == <<row, players, instances, pc, loc, faults, history>>

(***************************************************************************)
(* A deadline is null, in the future, or past.  "for" records the cycle    *)
(* it was written for, which the column does not hold.                     *)
(***************************************************************************)
NoDeadline == [state |-> "none", for |-> 0]
Deadline == [state : {"none", "pending", "due"}, for : Nat]

\* A coroutine's locals: the cycle and status it read, the cycle number its
\* pipeline will be run for, and the players it has still to deal with (the
\* sender of a ready signal, or the absent players bots are to replace).
Blank == [cycle |-> 0, status |-> "lobby", number |-> 0, whom |-> {}]
Locals == [cycle : Nat, status : Status, number : Nat, whom : SUBSET Player]

\* Labels from the claim to the increment, and after it.
BeforeAdvance == {"grant", "reset", "timers", "advance"}
AfterAdvance  == {"phase", "enter", "refetch", "deadline", "rearm", "pipeline"}
Claimed       == {"afk", "takeover", "resolve"}
Label == {"idle", "sleeping", "selected", "mark", "tally", "hostadvance",
          "hostarchive", "cancel", "purge"}
             \cup Claimed \cup BeforeAdvance \cup AfterAdvance

\* start_epoch has returned: foundation, cycle 1, the first RP granted, and
\* a deadline with its timer unless the epoch is resolved by hand.
Init ==
    /\ status = "foundation"
    /\ current_cycle = 1
    /\ deadline = IF AutoResolve THEN [state |-> "pending", for |-> 1]
                                 ELSE NoDeadline
    /\ cycle_ready = {} /\ has_acted = {} /\ is_bot = {}
    /\ consecutive_afk = [h \in Player |-> 0]
    /\ instances = "active"
    /\ pc = [p \in Proc |-> IF p = Timer /\ AutoResolve THEN "sleeping"
                                                        ELSE "idle"]
    /\ loc = [p \in Proc |-> Blank]
    /\ faults = 0
    /\ grants = 1 /\ ticks = 1 /\ piped = {} /\ acted_now = {}
    /\ legacy = FALSE

\* Process p goes on to label l, or returns.
Goto(p, l) == pc' = [pc EXCEPT ![p] = l]
Return(p) ==
    /\ Goto(p, "idle")
    /\ loc' = [loc EXCEPT ![p] = Blank]

(***************************************************************************)
(* Time.  A deadline lies at least fifteen minutes ahead of its UPDATE, so *)
(* it does not pass before the coroutine that wrote it has gone on to      *)
(* register the timer.                                                     *)
(***************************************************************************)
DeadlinePasses ==
    /\ deadline.state = "pending"
    /\ \A p \in Proc : pc[p] # "rearm"
    /\ deadline' = [deadline EXCEPT !.state = "due"]
    /\ UNCHANGED <<status, current_cycle, players, instances, pc, loc, faults, history>>

(***************************************************************************)
(* The scheduler.                                                          *)
(***************************************************************************)
\* Mutant of SweepExpiredCycles: the comparison with now() turned round.
SweepUnexpiredCycles ==
    /\ pc[Sweep] = "idle"
    /\ status \in ActiveStatus
    /\ deadline.state = "pending"
    /\ Goto(Sweep, "selected")
    /\ loc' = [loc EXCEPT ![Sweep].cycle = current_cycle]
    /\ UNCHANGED <<row, players, instances, faults, history>>

\* The sweep's query: active epochs whose deadline has passed.
SweepExpiredCycles ==
    /\ pc[Sweep] = "idle"
    /\ status \in ActiveStatus
    /\ deadline.state = "due"
    /\ Goto(Sweep, "selected")
    /\ loc' = [loc EXCEPT ![Sweep].cycle = current_cycle]
    /\ UNCHANGED <<row, players, instances, faults, history>>

\* The timer's sleep ends and it reads the row again.  Its clock is not the
\* database's, so it may wake before the database calls the deadline past.
EagerWait ==
    /\ pc[Timer] = "sleeping"
    /\ \/ /\ status \in ActiveStatus /\ deadline.state # "none"
          /\ Goto(Timer, "selected")
          /\ loc' = [loc EXCEPT ![Timer].cycle = current_cycle]
       \/ /\ status \notin ActiveStatus \/ deadline.state = "none"
          /\ Return(Timer)
    /\ UNCHANGED <<row, players, instances, faults, history>>

\* Mutant of Claimable: a claimed, null deadline can be claimed again.
ClaimableAgain(n) ==
    /\ current_cycle = n
    /\ status \in ActiveStatus
    /\ deadline.state # "pending"

\* fn_check_and_resolve_deadline's WHERE clause.
Claimable(n) ==
    /\ current_cycle = n
    /\ status \in ActiveStatus
    /\ deadline.state = "due"

\* Mutant of ClaimDeadline: the claim does not null the deadline.
ClaimKeepsDeadline(p) ==
    /\ pc[p] = "selected"
    /\ Claimable(loc[p].cycle)
    /\ Goto(p, IF AfkEnabled THEN "afk" ELSE "resolve")
    /\ UNCHANGED <<row, players, instances, loc, faults, history>>

\* fn_check_and_resolve_deadline: one caller nulls the deadline and goes on.
ClaimDeadline(p) ==
    /\ pc[p] = "selected"
    /\ Claimable(loc[p].cycle)
    /\ deadline' = NoDeadline
    /\ Goto(p, IF AfkEnabled THEN "afk" ELSE "resolve")
    /\ UNCHANGED <<status, current_cycle, players, instances, loc, faults, history>>

\* The RPC answers resolved = false.
ClaimRefused(p) ==
    /\ pc[p] = "selected"
    /\ ~Claimable(loc[p].cycle)
    /\ Return(p)
    /\ UNCHANGED <<row, players, instances, faults, history>>

(***************************************************************************)
(* AFK handling, before the claimed cycle is resolved.                     *)
(***************************************************************************)
\* Mutant of Absent: only the ready flag counts as presence.
AbsentUnlessReady == Player \ (cycle_ready \cup is_bot)

Absent == Player \ (has_acted \cup cycle_ready \cup is_bot)

\* fn_process_afk_batch: one UPDATE counts the absence of every player who
\* neither acted nor signalled ready, and names those a bot is to replace.
ProcessAfkBatch(p) ==
    /\ pc[p] = "afk"
    /\ consecutive_afk' =
           [h \in Player |-> consecutive_afk[h] + (IF h \in Absent THEN 1 ELSE 0)]
    /\ loc' = [loc EXCEPT ![p].whom =
                  {h \in Absent : consecutive_afk[h] + 1 >= AfkThreshold + 1}]
    /\ Goto(p, "takeover")
    /\ UNCHANGED <<row, cycle_ready, has_acted, is_bot, instances, faults, history>>

\* fn_replace_afk_with_bot, once for each of them.
ReplaceAfkWithBot(p) ==
    /\ pc[p] = "takeover"
    /\ \E h \in loc[p].whom :
          /\ is_bot' = is_bot \cup {h}
          /\ loc' = [loc EXCEPT ![p].whom = @ \ {h}]
    /\ UNCHANGED <<row, cycle_ready, has_acted, consecutive_afk, instances, pc,
                   faults, history>>

\* Mutant of MercyReset: one absence forgiven at a time, without a floor.
MercyDecrement(p) ==
    /\ pc[p] = "takeover"
    /\ loc[p].whom = {}
    /\ consecutive_afk' =
           [h \in Player |-> consecutive_afk[h] - (IF h \in has_acted THEN 1 ELSE 0)]
    /\ Goto(p, "resolve")
    /\ UNCHANGED <<row, cycle_ready, has_acted, is_bot, instances, loc, faults, history>>

\* The mercy reset: whoever acted starts from zero again.
MercyReset(p) ==
    /\ pc[p] = "takeover"
    /\ loc[p].whom = {}
    /\ consecutive_afk' =
           [h \in Player |-> IF h \in has_acted THEN 0 ELSE consecutive_afk[h]]
    /\ Goto(p, "resolve")
    /\ UNCHANGED <<row, cycle_ready, has_acted, is_bot, instances, loc, faults, history>>

(***************************************************************************)
(* The players.                                                            *)
(***************************************************************************)
\* mark_acted, after a deploy, a fortification, a vote, ... or pass_cycle.
MarkActed(h) ==
    /\ status \in ActiveStatus
    /\ has_acted' = has_acted \cup {h}
    /\ acted_now' = acted_now \cup {h}
    /\ UNCHANGED <<row, cycle_ready, is_bot, consecutive_afk, instances, pc, loc,
                   faults, grants, ticks, piped, legacy>>

\* toggle_ready with ready = false.
WithdrawReady(h) ==
    /\ status \in ActiveStatus
    /\ cycle_ready' = cycle_ready \ {h}
    /\ UNCHANGED <<row, has_acted, is_bot, consecutive_afk, instances, pc, loc,
                   faults, history>>

\* toggle_ready with ready = true: the status guard and the activity gate.
SignalReady(r, h) ==
    /\ pc[r] = "idle"
    /\ status \in ActiveStatus
    /\ AutoResolve /\ RequireAction => h \in has_acted \cup is_bot
    /\ Goto(r, "mark")
    /\ loc' = [loc EXCEPT ![r].whom = {h}]
    /\ UNCHANGED <<row, players, instances, faults, history>>

MarkReady(r) ==
    /\ pc[r] = "mark"
    /\ cycle_ready' = cycle_ready \cup loc[r].whom
    /\ Goto(r, "tally")
    /\ UNCHANGED <<row, has_acted, is_bot, consecutive_afk, instances, loc,
                   faults, history>>

\* The signal reads all participants back; the last one resolves the cycle.
TallyReady(r) ==
    /\ pc[r] = "tally"
    /\ LET humans == Player \ is_bot
       IN  \/ /\ humans # {} /\ humans \subseteq cycle_ready
              /\ Goto(r, "resolve")
              /\ loc' = [loc EXCEPT ![r] = Blank]
           \/ /\ ~(humans # {} /\ humans \subseteq cycle_ready)
              /\ Return(r)
    /\ UNCHANGED <<row, players, instances, faults, history>>

(***************************************************************************)
(* The creator.                                                            *)
(***************************************************************************)
\* POST resolve-cycle.
RequestResolve(r) ==
    /\ pc[r] = "idle"
    /\ Goto(r, "resolve")
    /\ UNCHANGED <<row, players, instances, loc, faults, history>>

\* advance_phase reads the status and looks the next one up ...
RequestAdvance(r) ==
    /\ pc[r] = "idle"
    /\ status \in ActiveStatus
    /\ Goto(r, "hostadvance")
    /\ loc' = [loc EXCEPT ![r].status = NextPhase[status]]
    /\ UNCHANGED <<row, players, instances, faults, history>>

\* Mutant of AdvancePhase: the completed epoch's simulations are not archived.
AdvancePhaseOnly(r) ==
    /\ pc[r] = "hostadvance"
    /\ status' = IF AllowsStatus(status, loc[r].status) THEN loc[r].status ELSE status
    /\ Return(r)
    /\ UNCHANGED <<current_cycle, deadline, players, instances, faults, history>>

\* ... and writes it with no condition but the trigger's.
AdvancePhase(r) ==
    /\ pc[r] = "hostadvance"
    /\ \/ /\ AllowsStatus(status, loc[r].status)
          /\ status' = loc[r].status
          /\ IF loc[r].status = "completed"
             THEN Goto(r, "hostarchive") /\ UNCHANGED loc
             ELSE Return(r)
       \/ /\ ~AllowsStatus(status, loc[r].status)
          /\ Return(r)
          /\ UNCHANGED status
    /\ UNCHANGED <<current_cycle, deadline, players, instances, faults, history>>

\* archive_epoch_instances: simulations already deleted stay deleted.
Archived == IF instances = "active" THEN "archived" ELSE instances

ArchiveInstances(r) ==
    /\ pc[r] = "hostarchive"
    /\ instances' = Archived
    /\ Return(r)
    /\ UNCHANGED <<row, players, faults, history>>

\* cancel_epoch reads the status, writes "cancelled", deletes the instances.
RequestCancel(r) ==
    /\ pc[r] = "idle"
    /\ status \in ActiveStatus
    /\ Goto(r, "cancel")
    /\ UNCHANGED <<row, players, instances, loc, faults, history>>

\* Mutant of CancelEpoch: the trigger's refusal does not stop the handler.
CancelEpochBlindly(r) ==
    /\ pc[r] = "cancel"
    /\ status' = IF AllowsStatus(status, "cancelled") THEN "cancelled" ELSE status
    /\ Goto(r, "purge")
    /\ UNCHANGED <<current_cycle, deadline, players, instances, loc, faults, history>>

CancelEpoch(r) ==
    /\ pc[r] = "cancel"
    /\ \/ /\ AllowsStatus(status, "cancelled")
          /\ status' = "cancelled"
          /\ Goto(r, "purge")
          /\ UNCHANGED loc
       \/ /\ ~AllowsStatus(status, "cancelled")
          /\ Return(r)
          /\ UNCHANGED status
    /\ UNCHANGED <<current_cycle, deadline, players, instances, faults, history>>

DeleteInstances(r) ==
    /\ pc[r] = "purge"
    /\ instances' = "deleted"
    /\ Return(r)
    /\ UNCHANGED <<row, players, faults, history>>

(***************************************************************************)
(* resolve_cycle.                                                          *)
(***************************************************************************)
ReadEpoch(p) ==
    /\ pc[p] = "resolve"
    /\ \/ /\ status \in ActiveStatus
          /\ Goto(p, "grant")
          /\ loc' = [loc EXCEPT ![p].cycle = current_cycle, ![p].status = status]
       \/ /\ status \notin ActiveStatus
          /\ Return(p)
    /\ UNCHANGED <<row, players, instances, faults, history>>

\* fn_batch_grant_rp, to every participant.
GrantRp(p) ==
    /\ pc[p] = "grant"
    /\ grants' = grants + 1
    /\ Goto(p, "reset")
    /\ UNCHANGED <<row, players, instances, loc, faults, ticks, piped,
                   acted_now, legacy>>

ResetFlags(p) ==
    /\ pc[p] = "reset"
    /\ cycle_ready' = {} /\ has_acted' = {}
    /\ Goto(p, "timers")
    /\ UNCHANGED <<row, is_bot, consecutive_afk, instances, loc, faults, history>>

\* fn_advance_mission_timers, for every travelling or active operative.
AdvanceMissionTimers(p) ==
    /\ pc[p] = "timers"
    /\ ticks' = ticks + 1
    /\ Goto(p, "advance")
    /\ UNCHANGED <<row, players, instances, loc, faults, grants, piped,
                   acted_now, legacy>>

\* The increment fails with 409 if the counter has moved since ReadEpoch.
AdvanceConflict(p) ==
    /\ pc[p] = "advance"
    /\ current_cycle # loc[p].cycle
    /\ Return(p)
    /\ UNCHANGED <<row, players, instances, faults, history>>

\* Mutant of AdvanceAtomic: no comparison with the cycle the caller read.
AdvanceUncompared(p) ==
    /\ pc[p] = "advance" /\ AtomicAdvance
    /\ current_cycle' = current_cycle + 1
    /\ status' = PhaseAfter(status, current_cycle + 1)
    /\ loc' = [loc EXCEPT ![p].status = status']
    /\ Goto(p, IF status' # status THEN "enter" ELSE "refetch")
    /\ acted_now' = {}
    /\ UNCHANGED <<deadline, players, instances, faults, grants, ticks, piped, legacy>>

\* Mutant of AdvanceAtomic: the phase follows from the status the caller read.
AdvanceFromStaleStatus(p) ==
    /\ pc[p] = "advance" /\ AtomicAdvance
    /\ current_cycle = loc[p].cycle
    /\ current_cycle' = current_cycle + 1
    /\ status' = PhaseAfter(loc[p].status, current_cycle + 1)
    /\ loc' = [loc EXCEPT ![p].status = status']
    /\ Goto(p, IF status' # status THEN "enter" ELSE "refetch")
    /\ acted_now' = {}
    /\ UNCHANGED <<deadline, players, instances, faults, grants, ticks, piped, legacy>>

\* fn_advance_epoch_cycle: counter and status in one statement, the new
\* status computed from the row, not from what the coroutine read.
AdvanceAtomic(p) ==
    /\ pc[p] = "advance" /\ AtomicAdvance
    /\ current_cycle = loc[p].cycle
    /\ current_cycle' = current_cycle + 1
    /\ status' = PhaseAfter(status, current_cycle + 1)
    /\ loc' = [loc EXCEPT ![p].status = status']
    /\ Goto(p, IF status' # status THEN "enter" ELSE "refetch")
    /\ acted_now' = {}
    /\ UNCHANGED <<deadline, players, instances, faults, grants, ticks, piped, legacy>>

\* Mutant of AdvanceLegacy: the UPDATE without its current_cycle filter.
AdvanceUnlocked(p) ==
    /\ pc[p] = "advance" /\ ~AtomicAdvance
    /\ current_cycle' = loc[p].cycle + 1
    /\ LET new == PhaseAfter(loc[p].status, loc[p].cycle + 1)
       IN  /\ loc' = [loc EXCEPT ![p].status = new, ![p].number = loc[p].cycle + 1]
           /\ Goto(p, IF new # loc[p].status THEN "phase" ELSE "deadline")
    /\ acted_now' = {} /\ legacy' = TRUE
    /\ UNCHANGED <<status, deadline, players, instances, faults, grants, ticks, piped>>

\* The legacy path: the counter alone; the new status is computed from the
\* status read before the grant, and written by a second UPDATE.  It is also
\* taken when the read of use_atomic_cycle_advance fails: the setting is then
\* its default, false.
AdvanceLegacy(p) ==
    /\ pc[p] = "advance"
    /\ \/ ~AtomicAdvance /\ UNCHANGED faults
       \/ AtomicAdvance /\ faults < MaxFaults /\ faults' = faults + 1
    /\ current_cycle = loc[p].cycle
    /\ current_cycle' = current_cycle + 1
    /\ LET new == PhaseAfter(loc[p].status, current_cycle + 1)
       IN  /\ loc' = [loc EXCEPT ![p].status = new, ![p].number = current_cycle + 1]
           /\ Goto(p, IF new # loc[p].status THEN "phase" ELSE "deadline")
    /\ acted_now' = {} /\ legacy' = TRUE
    /\ UNCHANGED <<status, deadline, players, instances, grants, ticks, piped>>

\* The second UPDATE, whose result is the row handed to the pipeline.  If
\* the trigger rejects it the coroutine ends here.
UpdatePhase(p) ==
    /\ pc[p] = "phase"
    /\ \/ /\ AllowsStatus(status, loc[p].status)
          /\ status' = loc[p].status
          /\ loc' = [loc EXCEPT ![p].number = current_cycle]
          /\ Goto(p, "enter")
       \/ /\ ~AllowsStatus(status, loc[p].status)
          /\ Return(p)
          /\ UNCHANGED status
    /\ UNCHANGED <<current_cycle, deadline, players, instances, faults, history>>

\* _apply_phase_transition: a completed epoch's instances are archived.  The
\* legacy path already has its row, the atomic path fetches it.
ApplyPhaseTransition(p) ==
    /\ pc[p] = "enter"
    /\ instances' = IF loc[p].status = "completed" THEN Archived ELSE instances
    /\ Goto(p, IF loc[p].number = 0 THEN "refetch" ELSE "deadline")
    /\ UNCHANGED <<row, players, loc, faults, history>>

\* The atomic path hands the row as it is now to the pipeline.
RefetchEpoch(p) ==
    /\ pc[p] = "refetch"
    /\ loc' = [loc EXCEPT ![p].status = status, ![p].number = current_cycle]
    /\ Goto(p, "deadline")
    /\ UNCHANGED <<row, players, instances, faults, history>>

\* Mutant of SetNextCycleDeadline: only an existing deadline is moved on.
MoveDeadline(p) ==
    /\ pc[p] = "deadline"
    /\ \/ /\ deadline # NoDeadline /\ loc[p].status # "completed"
          /\ deadline' = [state |-> "pending", for |-> loc[p].cycle + 1]
          /\ Goto(p, "rearm")
       \/ /\ deadline = NoDeadline \/ loc[p].status = "completed"
          /\ Goto(p, "pipeline")
          /\ UNCHANGED deadline
    /\ UNCHANGED <<status, current_cycle, players, instances, loc, faults, history>>

\* Mutant of SetNextCycleDeadline: a completed epoch gets a deadline too.
SetDeadlineAlways(p) ==
    /\ pc[p] = "deadline"
    /\ deadline' = [state |-> "pending", for |-> loc[p].cycle + 1]
    /\ Goto(p, "rearm")
    /\ UNCHANGED <<status, current_cycle, players, instances, loc, faults, history>>

\* _set_next_cycle_deadline: the UPDATE carries no condition.
SetNextCycleDeadline(p) ==
    /\ pc[p] = "deadline"
    /\ \/ /\ AutoResolve /\ loc[p].status # "completed"
          /\ deadline' = [state |-> "pending", for |-> loc[p].cycle + 1]
          /\ Goto(p, "rearm")
       \/ /\ ~AutoResolve \/ loc[p].status = "completed"
          /\ Goto(p, "pipeline")
          /\ UNCHANGED deadline
    /\ UNCHANGED <<status, current_cycle, players, instances, loc, faults, history>>

\* schedule_eager_timer cancels the registered task, asleep or at work, and
\* starts a new one.  The registered task may be the caller.
ScheduleEagerTimer(p) ==
    /\ pc[p] = "rearm"
    /\ pc' = [pc EXCEPT ![p] = "pipeline", ![Timer] = "sleeping"]
    /\ loc' = [loc EXCEPT ![Timer] = Blank]
    /\ UNCHANGED <<row, players, instances, faults, history>>

\* The rest of resolve_cycle_full: upkeep, proposals, missions,
\* fortifications, bots, scores, tension, notifications.
RunPipeline(p) ==
    /\ pc[p] = "pipeline"
    /\ piped' = piped \cup {loc[p].number}
    /\ Return(p)
    /\ UNCHANGED <<row, players, instances, faults, grants, ticks,
                   acted_now, legacy>>

(***************************************************************************)
(* Faults: a database call raises and the coroutine ends (every caller     *)
(* catches and logs), or the process restarts, which loses all coroutines  *)
(* and seeds one timer from the row.                                       *)
(***************************************************************************)
CallFails(p) ==
    /\ faults < MaxFaults
    /\ pc[p] \notin {"idle", "sleeping", "rearm"}
    /\ faults' = faults + 1
    /\ Return(p)
    /\ UNCHANGED <<row, players, instances, history>>

Restart ==
    /\ faults < MaxFaults
    /\ faults' = faults + 1
    /\ pc' = [p \in Proc |->
                 IF p = Timer /\ status \in ActiveStatus /\ deadline.state = "pending"
                 THEN "sleeping" ELSE "idle"]
    /\ loc' = [p \in Proc |-> Blank]
    /\ UNCHANGED <<row, players, instances, history>>

-----------------------------------------------------------------------------
Schedule(p) ==
    \/ ClaimDeadline(p) \/ ClaimRefused(p)
    \/ ProcessAfkBatch(p) \/ ReplaceAfkWithBot(p) \/ MercyReset(p)

Resolve(p) ==
    \/ ReadEpoch(p) \/ GrantRp(p) \/ ResetFlags(p) \/ AdvanceMissionTimers(p)
    \/ AdvanceConflict(p) \/ AdvanceAtomic(p) \/ AdvanceLegacy(p) \/ UpdatePhase(p)
    \/ ApplyPhaseTransition(p) \/ RefetchEpoch(p) \/ SetNextCycleDeadline(p)
    \/ ScheduleEagerTimer(p) \/ RunPipeline(p)

\* What a request starts, and the calls that finish one.
Start(r) ==
    \/ \E h \in Player : SignalReady(r, h)
    \/ RequestResolve(r) \/ RequestAdvance(r) \/ RequestCancel(r)

Finish(r) ==
    \/ MarkReady(r) \/ TallyReady(r) \/ AdvancePhase(r) \/ ArchiveInstances(r)
    \/ CancelEpoch(r) \/ DeleteInstances(r)

Next ==
    \/ DeadlinePasses \/ SweepExpiredCycles \/ EagerWait \/ Restart
    \/ \E h \in Player : MarkActed(h) \/ WithdrawReady(h)
    \/ \E r \in Request : Start(r) \/ Finish(r)
    \/ \E p \in Proc : Schedule(p) \/ Resolve(p) \/ CallFails(p)

Spec == Init /\ [][Next]_vars

\* The event loop resumes every coroutine whose call has returned, the
\* sweep's loop goes round every thirty seconds, and deadlines pass.
\* Nothing obliges players or the creator to send anything.
Fairness ==
    /\ WF_vars(DeadlinePasses) /\ WF_vars(SweepExpiredCycles) /\ WF_vars(EagerWait)
    /\ \A p \in Proc : WF_vars(Schedule(p) \/ Resolve(p))
    /\ \A r \in Request : WF_vars(Finish(r))

FairSpec == Spec /\ Fairness

-----------------------------------------------------------------------------
(***************************************************************************)
(* Properties.                                                             *)
(***************************************************************************)
TypeOK ==
    /\ status \in Status /\ current_cycle \in Nat /\ deadline \in Deadline
    /\ cycle_ready \subseteq Player /\ has_acted \subseteq Player
    /\ is_bot \subseteq Player /\ consecutive_afk \in [Player -> Nat]
    /\ instances \in {"active", "archived", "deleted"}
    /\ pc \in [Proc -> Label] /\ loc \in [Proc -> Locals]
    /\ faults \in Nat /\ grants \in Nat /\ ticks \in Nat
    /\ piped \subseteq Nat /\ acted_now \subseteq Player /\ legacy \in BOOLEAN

Quiet == \A p \in Proc : pc[p] \in {"idle", "sleeping"}

\* The processes between the claim of a deadline and the write of the next.
Holding == {p \in Proc : pc[p] \in Claimed \cup BeforeAdvance
                                      \cup {"phase", "enter", "refetch", "deadline"}}

\* When only the scheduler resolves cycles, the timer and the sweep never
\* resolve at the same time, and no deadline stands while one of them does:
\* fn_check_and_resolve_deadline is all that keeps them apart.
OneScheduledResolver ==
    Request = {} => /\ \A p, q \in Holding : p = q
                    /\ Holding # {} => deadline = NoDeadline

\* ... and every cycle then grants its RP and advances the mission timers
\* once, although both are written before the counter's compare-and-swap.
GrantOncePerCycle ==
    Request = {} /\ faults = 0 =>
        /\ grants = current_cycle
                      + Cardinality({p \in Proc : pc[p] \in {"reset", "timers", "advance"}})
        /\ ticks = current_cycle + Cardinality({p \in Proc : pc[p] = "advance"})

\* No two callers advance the same cycle: whoever is past the increment
\* holds a cycle of its own, and one the counter has left behind.
WinnersDistinct ==
    \A p, q \in Proc :
        pc[p] \in AfterAdvance =>
            /\ loc[p].cycle < current_cycle
            /\ pc[q] \in AfterAdvance /\ loc[p].cycle = loc[q].cycle => p = q

\* As long as every increment went through fn_advance_epoch_cycle, the phase
\* never lags behind the counter, whatever the creator's "next phase" button
\* and the resolvers interleave, and whichever of their calls fail.
PhaseInStep == ~legacy => InStep(status, current_cycle)

\* A cancelled epoch's simulations are the only ones deleted, a completed
\* one's the only ones archived.
InstancesMatchStatus ==
    /\ instances = "deleted"  => status = "cancelled"
    /\ instances = "archived" => status = "completed"

\* Once the coroutines are done and no call failed, cancelled and completed
\* epochs have released their simulations, even when the creator cancels an
\* epoch that is just being completed.
InstancesSettle ==
    Quiet /\ faults = 0 =>
        /\ status = "cancelled" => instances = "deleted"
        /\ status = "completed" => instances = "archived"

\* An epoch that resolves itself always has a next deadline once all
\* coroutines are done and no call has failed.
ArmedWhenQuiet ==
    AutoResolve /\ Quiet /\ faults = 0 /\ status \in ActiveStatus
        => deadline # NoDeadline

\* No cycle's pipeline runs twice: its missions, bots and scores are not
\* protected by a compare-and-swap of their own.
PipelineOnce ==
    [][\A p \in Proc : RunPipeline(p) => loc[p].number \notin piped]_vars

\* Nobody is counted absent from a cycle in which they acted.
NoPenaltyForActive ==
    [][\A h \in Player : consecutive_afk'[h] > consecutive_afk[h] => h \notin acted_now]_vars

\* The counter never skips or repeats a cycle, and status changes only along
\* the trigger's table, although five handlers write it.
CycleStep ==
    [][/\ current_cycle' \in {current_cycle, current_cycle + 1}
       /\ AllowsStatus(status, status')]_vars

\* An unattended epoch plays itself to its end.
EventuallyCompletes == <>(status = "completed")

\* Left to the scheduler, the coroutines between them play the game in turns
\* of EpochTurns, in either advance path and whatever fails: nothing they do
\* to the row, the clones or a turn's pipeline falls outside its order, though
\* only the claim RPC ties them together.
Turns == INSTANCE EpochTurns WITH
    turn   <- current_cycle,
    open   <- deadline # NoDeadline,
    due    <- {loc[p].cycle + 1 : p \in {q \in Proc : pc[q] \in AfterAdvance}},
    played <- piped

ImplementsTurns == Turns!Spec

\* Statements of the source that its code does not keep:
\* every cycle reached has had its whole pipeline run, whoever resolved it;
PipelineForEveryCycle == Quiet /\ faults = 0 => 2..current_cycle \subseteq piped

\* the scheduler claims a deadline only for the cycle it was set for;
ClaimMatchesCycle ==
    [][\A p \in Proc : ClaimDeadline(p) => deadline.for = current_cycle]_vars

\* an active epoch that has lost its deadline is found again.
DeadlineRecovered ==
    (status \in ActiveStatus /\ deadline = NoDeadline)
        ~> (status \notin ActiveStatus \/ deadline # NoDeadline)

=============================================================================
