# metaverse-center: a TLA+ model

metaverse-center is a world-building platform (FastAPI and Supabase/Postgres
behind a web frontend) whose most intricate part is the *epoch*: a competitive
game between simulations that runs through a lobby, three phases and a fixed
number of cycles. This directory models that part, cycle by cycle and database
call by database call, and two more where a server, its timers and a browser meet:
the resonance dungeons and the agent chat.

## 1. The system

### Components, their state and operations

| component | state | operations | modelled in |
|---|---|---|---|
| cycle resolution (`cycle_resolution_service.py`) | `game_epochs.current_cycle/status/cycle_deadline_at`, participants' `cycle_ready`, `has_acted_this_cycle`, `current_rp`, missions' `resolves_at` | `resolve_cycle`, `resolve_cycle_full`, `pass_cycle`, `mark_acted`, `spend_rp`, `grant_rp` | EpochCycle (all but the RP ledger) |
| cycle scheduler (`epoch_cycle_scheduler.py`) | in-process registry of eager timers, the sweep task; participants' `consecutive_afk_cycles`, `is_bot` | sweep, eager wait, claim, AFK batch and takeover, seeding | EpochCycle |
| ready signals (`epoch_chat_service.py`) | `cycle_ready` | `toggle_ready` | EpochCycle |
| lifecycle (`epoch_lifecycle_service.py`) | `game_epochs` row, cloned simulations | start, advance, cancel, delete | EpochCycle (advance, cancel) |
| missions (`operative_mission_service.py`) | `operative_missions`, `current_rp`, `zones.security_level`, `zone_fortifications` | deploy, resolve, recall, counter-intelligence, fortify | EpochMissions, ZoneSecurity |
| alliances (`alliance_service.py`) | `epoch_teams` with tension, proposals, votes | propose, vote, expire, upkeep, tension, dissolve, clear | EpochAlliance (all but upkeep) |
| participation (`epoch_participation_service.py`) | participants with `team_id`, drafts, teams, bots | join, leave, draft, create, join and leave a team | EpochAlliance (teams) |
| scoring, bots, battle log, notifications | scores, log rows, mails | computed at the end of a cycle | not modelled |
| resonance dungeons (`dungeon_*_service.py`, `dungeon_instance_store.py`, migrations 163-168) | in-memory instance, lock, timers, dirty flag; `resonance_dungeon_runs` with its checkpoint | move, fight, distribute, retreat, recover, evict, expire | DungeonRun |
| dungeon client (`DungeonStateManager.ts`, `dungeon-commands.ts`) | signals, countdown, run id in localStorage | commands, automatic submission, validation, recovery | DungeonClient |
| agent chat (`ChatWindow.ts`, `ChatSessionStore.ts`, `ChatStreamConsumer.ts`, `RealtimeService.ts`; `chat_service.py`, `routers/chat.py`) | messages shown, loads, stream, channel; `chat_messages` | open, load, join, send, regenerate, broadcast | ChatClient |
| forge and wallet, content drafts, circuit breaker, social schedulers | see PROJECT.json | | not modelled |

### How they interact

Everything runs in one process (the Dockerfile starts a single uvicorn worker)
as asyncio coroutines: HTTP requests, the sweep, and one eager timer per epoch.
They share nothing in memory but the scheduler's timer registry; they meet in
the database, where each call is atomic and nothing spans two calls. Between
two calls of a coroutine any other may run. A ready signal, the creator's
`resolve-cycle`, the sweep and the timer all end in the same
`resolve_cycle_full`, which first resolves the cycle (grant, flags, mission
timers, counter, phase, deadline) and then runs the pipeline (upkeep, proposals,
missions, fortifications, bots, scores, tension, notifications).

A dungeon run is different: its state is an object in the server's memory, guarded
by one asyncio lock per run, saved to a row after each transition and rebuilt
from it after a restart. The routes, a planning timer and a distribution timer take
the lock; the GET of the state does not. The browser shows the state each answer
carries, runs its own countdown and submits by itself when that ends. In the chat a
message reaches the page by the GET that loads a conversation, by the event stream
of the request that caused it, and by a broadcast of a database trigger.

### What is hard

* Four kinds of caller resolve a cycle, and the compare-and-swap on
  `current_cycle` comes *after* three writes.
* The scheduler's claim erases the deadline before the work is done.
* A timer is cancelled by whoever writes the next deadline, also when that is
  the timer itself.
* Status is written by five handlers, most from a status read earlier; a
  trigger rejects what does not follow the table, with an exception in the
  middle of a coroutine.
* A call may fail and the process may restart between any two calls.
* Votes are counted by a trigger inside the voter's transaction; teams are joined
  in four ways of which one looks at the size under a lock.
* A dungeon's lock does not hold back the GET, and its checkpoint is an UPDATE
  without a condition; timers live in memory only.
* The browser acts on answers that come late, out of order or not at all.

What makes each component correct: a cycle is won, paid and played once; the
phase follows the counter; a running epoch always has a next deadline and ends;
nobody is punished for a cycle they played; clones are disposed of as the
status says; RP is not spent twice nor for nothing, an agent is on one mission at
a time, a mission is resolved once and on time; a proposal is decided by the vote that
completes it, a dissolved team has no members, a team is no larger than allowed;
a dungeon's round is fought once, its outcomes and loot are applied once, an ended
run stays ended, a page gives up only a run that is over; a chat shows every message
once and loses none, and its composer becomes free again. For what is not modelled:
an epoch starts once with the participants it validated.

## 2. The modules

* **EpochPhase**: phases, boundaries, and the status trigger. Pure operators.
* **EpochCycle** (extends EpochPhase): one running epoch. `pc[p]` names the
  next database call of coroutine `p`, `loc[p]` the locals it will use. Actions
  carry the names of the calls they model; PROJECT.json maps each to its lines.
* **MCEpochCycle**: the instances TLC checks.
* **EpochTurns** (extends EpochPhase): the abstract specification of an epoch that only
  the scheduler resolves, a game in turns. A turn is open, closed, followed by the
  next, reopened; what it brought is played out at most once, or lost. EpochCycle
  instantiates it as `Turns`: `turn` is `current_cycle`, `open` a standing
  deadline, `due` the numbers of the processes past the increment, `played` the
  pipelines that ran.
* **EpochCycleProofs**, **EpochTurnsProofs**, **EpochSettleProofs**: theorems about
  EpochCycle; the second holds the refinement, the third what is true once the
  coroutines are done.
* **EpochAlliance**: teams, proposals, votes and tension around the pipeline's stages;
  **MCAlliance** its instance, **EpochAllianceProofs** the theorems about it.
* **DungeonRun**: one dungeon run on the server.
* **DungeonClient** (extends DungeonRun): the browser, composed with the server through
  requests and answers; **MCDungeon** the instance, **DungeonProofs** the theorems
  about both.
* **ChatClient**: the browser's chat with the endpoints and the broadcast; **MCChat**
  its instance, **ChatProofs** the theorems about it.
* **ZoneSecurity**: a zone's level and the three database functions that move it.
  Pure operators.
* **EpochMissions** (extends EpochPhase, ZoneSecurity): operatives, RP and
  fortifications around one pipeline; **MCEpochMissions** its instances;
  **EpochMissionsProofs** and **EpochOperativesProofs** the theorems about it.

State and code. `status`, `current_cycle`, `deadline` are the epoch's row.
`deadline` is null, pending or due; its field `for`, the cycle it was written
for, is not in the code and no action reads it. `cycle_ready`, `has_acted`,
`is_bot`, `consecutive_afk` are the participants' columns (sets of players with
the flag set). `instances` is the fate of the cloned simulations. `grants`,
`ticks`, `piped`, `acted_now`, `legacy` record what happened, for the properties.

The path of one resolution, with the label that precedes each call:

    sweep, timer: selected -> (ClaimDeadline) -> afk -> takeover -> resolve
    ready:        mark -> tally -> resolve          creator: resolve
    resolve_cycle: resolve (ReadEpoch) -> grant -> reset -> timers -> advance
      atomic: advance -> [enter] -> refetch -> deadline -> rearm -> pipeline
      legacy: advance -> [phase -> enter] -> deadline -> rearm -> pipeline

EpochMissions in the same style. A request is one of

    deploy:  (CheckDeploy) -> spend -> insert        recall: (CheckRecall) -> refund -> return
    sweep:   (CheckSweep) -> pay -> scan -> mark...  fortify: (CheckFortify) -> fortify
    creator's resolve: select -> resolve...

and the pipeline goes round `grant -> timers -> advance -> select -> resolve...
-> expire`. `resolve` handles the selected missions one by one: an active one is
rolled, its effect applied (`RollSuccess`), RP tapped, its outcome written
(`Conclude`). `missions` is the table, whose `left` stands for `resolves_at`;
`rp`, `zone` and `fort` are columns; `effects`, `refunds`, `born`, `taken`, `hit`,
`overlapped` and `contested` record what happened, for the properties (`taken` per
request: what it has paid and not yet delivered for).

EpochAlliance. A request is a check, a wait and a write: `call[p]` is what a
player's request holds after its check. A vote is a transaction: at `InsertVote`
the trigger counts the committed votes and its own, at `CommitVote` all becomes
visible. The pipeline goes `Resolve` (expiry) `-> missions -> tension -> notify ->
clear`; each stage may fail, and a failure skips what the code makes depend on it.
`crowded`, `strays` and `leftover` record the ways by which the code breaks its own
rules, and exempt them in the properties.

DungeonRun. `job` is the coroutine that holds the run's lock, cut at its awaits:

    get -> [put] -> [recheck] -> handle -> [resolve] -> checkpoint
                                        -> complete | wipe | abandon | finalize -> leave
                                        -> begin -> checkpoint

`job.inst` is the object the handler works on and `mem` the one in the store; they are
the same object (`stored`) until a GET puts another there. `db` is the row with its
checkpoint and counts what its RPCs applied. `req` and `resp` are the network.
DungeonClient adds the page: `doing` says what each call under way is for, so that
its answer is handled by the code that awaits it. `restored`, `untimed`, `torn`,
`raced` and `last` record what happened, for the properties.

ChatClient. `log` is the table, `shown` the messages on screen, `loads` the loads under
way with their snapshots, `send` the one send or regeneration, `events` its stream
and `wire` the broadcasts on their way. `lossy` records a known loss.

Definitions whose comment begins "Mutant of" are not part of the model: each is
a definition as a plausible mistake would have it, and substituting it must
make TLC refute the property PROJECT.json names with it.

### Abstractions

Of EpochCycle, and where it says so of EpochMissions:

* One epoch. Coroutines of different epochs touch different rows.
* A coroutine's step is one database call with the code around it. Reads that
  follow each other with nothing between them that another coroutine could
  invalidate for the property are one step (the status guard and the activity
  gate of `toggle_ready`).
* Amounts of RP and scores are left out; `grants` counts the grants.
* Logging, notifications and audit rows are left out.
* Only absolute phase lengths (`foundation_cycles`, `reckoning_cycles`); the
  percentages belong to configurations older than these fields. `TotalCycles`
  stands for `(duration_days * 24) // cycle_hours`.
* In EpochCycle the pipeline is a single action. Its stages change the missions'
  and alliances' state, which belongs to the other modules.
* In EpochMissions one process runs the cycles, one after the other, with the
  atomic advance: that no second resolver gets past the increment is WinnersDistinct,
  and the RP a loser grants beforehand is the subject of GrantOncePerCycle. The
  epoch is not cancelled. Bots act through the same calls as requests.
* A mission's success is a choice, not a probability. Of the effects only the
  saboteur's loss of a tier is modelled, because fortifications move the same
  column; the others are counted. The betrayal check belongs with the alliances.
* `left` counts the ticks of the timers; that `resolves_at` also comes nearer with
  the wall clock, so that a mission may be ripe earlier, is left out.
* A caller may give any agent, target and zone; that an agent is validated to be
  the caller's is in `Owner` and `Home`. `Privileged` are the simulations of
  platform admins, whose client bypasses row-level security.
* An exception the pipeline's stages do not catch (KeyError, ValueError from
  resolving) is left out; a failing database call is `CallFails`.
* The timer may wake before the database considers the deadline past (two
  clocks); the claim then refuses and the sweep takes over. A deadline does not
  pass between its UPDATE and the registration of its timer: it lies at least
  15 minutes ahead (`cycle_deadline_minutes`).
* Cancelling a task that waits for the database takes effect either before or
  after the call in flight, so the model lets the cancelled timer stop between
  two of its actions.
* `CallFails`: a call raises and the coroutine ends, as all callers catch and
  log; a call that took effect and whose answer was lost is the same as a
  failure of the next call. `Restart` loses all coroutines and seeds the timer.
  Reading the setting `use_atomic_cycle_advance` falls back to the legacy path
  when it fails, which is part of `AdvanceLegacy`.
* A running epoch cannot be deleted; deleting a cancelled one removes the rows
  and is left out. An admin switching the advance path at run time is left out.

* EpochAlliance: the lobby counts as foundation, since all checks treat them alike.
  Rises, decay and thresholds of tension are constants. Missions are reduced to who
  attacked whom as the query finds it when the tension is computed. Upkeep,
  shared intelligence and bots, whose votes use the same statements, are left out.
* DungeonRun: one player (`create_run` makes no other). Every room holds a fight;
  interactive rooms are handlers of the same form (lock, change, checkpoint). Who
  is hurt, what is found and how a round ends are choices. A database call fails with
  the error the code expects. The lock outlives `remove`, which pops it.
* DungeonClient: the actions chosen are left out, so a submission that waits until
  the next round is a submission of that round. A page is reloaded while the server
  handles none of its calls.
* ChatClient: messages have numbers in place of ids and times, and the clocks of
  browser and server agree where a replay starts at an optimistic message. What
  other tabs do, and handlers whose client is gone, is the reply `Elsewhere`.
  Only the open conversation's list is kept: another's is emptied when it is opened.
  Paging, typing, reactions, moods, drafts, eviction and the unmounting of the
  window are left out.

## 3. What TLC checks

The runs of EpochCycle use the shortest epoch the configuration admits: foundation 1 cycle,
reckoning 2, total 4. Cycle 2 enters competition, 3 reckoning, 4 completes, so
every boundary is crossed, and every increment is one. More cycles repeat the
same transitions. `AfkThreshold` is 2, its minimum: the third absence in a row
is the takeover, which just fits in the three resolutions.

| run | instance | shows |
|---|---|---|
| epoch_deadline | 2 players, no requests, legacy path, AFK on, no faults, fairness | the scheduler resolves one cycle at a time (OneScheduledResolver), grants and ticks once (GrantOncePerCycle), never repeats a pipeline (PipelineOnce), never counts an active player absent (NoPenaltyForActive), completes the epoch (EventuallyCompletes), and in all of this plays in turns (ImplementsTurns) |
| epoch_contended | 1 player, 1 request, sweep, timer, atomic path, 1 fault | one winner per cycle (WinnersDistinct), the phase keeps up with the counter (PhaseInStep), there is a next deadline whenever all is quiet and nothing failed (ArmedWhenQuiet), counter and status move only as they should (CycleStep) |
| epoch_manual | 2 players, 2 requests, manual mode, legacy path | clones are deleted only for cancelled epochs and archived only for completed ones (InstancesMatchStatus), and always in the end (InstancesSettle) |
| missions | 2 simulations, one with an agent, one with a zone; 2 requests at a time and 3 in all, 2 missions, spies and saboteurs with Substrate Tap, 5 cycles, 1 fault | balances stay in bounds (TypeOK), nobody pays for nothing (RpBuysSomething), one agent is on one mission (OneMissionPerAgent) and refunded once (RefundedOnce), effects are applied once (EffectOnce) and on time (OnTime), a fortification is taken back exactly (FortificationTemporary), a finished mission is never reactivated (NeverReactivated) |
| alliance | 4 players in symmetry, 1 team of 3, 1 target, foundation and competition 1 cycle each, 2 requests at a time and 6 in all, 1 proposal per player, 1 fault | a proposal is decided by the vote that completes it (NoLostVerdict), nobody is left on a dissolved team (DissolvedIsEmpty), a team is no larger than allowed (TeamFits), tension stays in its range (AllianceTypeOK) |
| dungeon | the boss's room, 2 rounds, 1 item, 2 calls of the page at a time, 2 faults | loot and outcomes once (LootOnce, OutcomesOnce), an ended run stays ended (EndedRunStaysEnded), rounds in order (RoundsInOrder), the row up to date or marked dirty (SavedUnlessDirty), timers alive when needed (PhaseHasTimer); the page's flags and what it forgets (SubmittingMeansWaiting, ForgottenOnlyWhenOver) |
| chat | 2 conversations, 1 message of the user, 1 reply, 2 loads under way, 1 fault, fairness | NoDuplicates, OptimisticOnlyWhileSending, RealtimeFollowsWindow, NothingMissed, and every send ends (SendsEnd) |
| missions_sweep, missions_sabotage | the same, with nobody privileged, or with a zone stored as "medium"; no faults | see below |
| epoch_lost_pipeline, epoch_stale_deadline, epoch_lost_deadline | see below | three more statements of the source that the code does not keep |

Bounds. Three coroutines that may all resolve (sweep, timer, request) are
enough for a loser, a winner and a bystander; the contended instance was also
explored with two requests and no fault, with the same result. One fault at any
point covers each single failure; `MaxFaults` bounds `faults` in the guards of
`CallFails`, `Restart` and the fallback in `AdvanceLegacy`. Nothing else needs a
bound: the counter stops with the epoch, and so do the grants. epoch_contended
and epoch_manual use a VIEW without the recording variables their properties do
not read, which no action reads either, and epoch_manual symmetry between
players and between requests (it checks invariants only). Deadlock checking is
off, because a finished epoch stops.

The bounds of missions. Foundation lasts 1 cycle, so a spy deployed in cycle 1
is resolved in cycle 4, and a saboteur deployed in cycle 2 is activated in cycle 4
and resolved by the creator before the epoch ends in cycle 5, which expires what is
left. `MaxRequests = 3` suffices for every pair of requests that meet and
a third that prepares or exposes them (deploy, recall, recall). A fortification
lasts 2 cycles beyond the foundation instead of 5, so that it expires within the
run. `RpPerCycle` and `RpCap` are the smallest the configuration admits. The two
requests are symmetric. There are no liveness claims about missions: nobody has to
act, and OnTime bounds each mission by the counter instead.

The bounds of alliance. Three places for four players: a team of three votes with a
quorum of three, the fourth proposes, and one join too many is possible. Rise 2,
decay 1, threshold 1 stand for 10, 5 and 80: one cycle of overlapping attacks
dissolves the team, and one without lowers the tension. Six requests suffice to
form the team, fill it and vote. `MaxCalls`, `MaxRequests`, `MaxProposals` and
`MaxFaults` bound their actions.

The bounds of dungeon. The boss's room is entered, fought for up to two rounds,
and its loot distributed, so every phase and every RPC is reached. A second fault after the
first covers a restart after a refused write and a lost answer after a restart.
`MaxRounds` is the code's constant of the same name, 10 there. The
CONSTRAINT stops at states in which `raced` or `torn` has become true: those states
are checked, and their successors, of which the properties say nothing, are not
explored. With liveness the instance is beyond TLC's reach.

The bounds of chat. Two conversations suffice to leave one and come back while its
first load is under way (`MaxLoads = 2`). `MaxSends`, `MaxReplies` and `MaxFaults`
count over the whole behaviour. With `MaxReplies = 2`, where a regeneration
deletes a reply and brings another, the invariants were also explored, over ten
million states, with the same result.

Properties that exempt `faults > 0` are about interleavings alone; what a failing
call may break there is listed below.

Fairness (`FairSpec`): weak fairness of `DeadlinePasses` (time), of the sweep
and of the timer (the loop runs every 30 seconds, a sleep ends), and of every
coroutine that has a call to make (the event loop resumes it). Players and the
creator owe nothing, and faults never have to happen. In ChatClient, weak fairness of
the server's work on a request it has (it saves, and it ends its stream), of the page
taking events and answers, and of the oldest load; users, other tabs and broadcasts
owe nothing.

### What the runs found

1. **A cycle resolved by the eager timer has no pipeline** (epoch_lost_pipeline).
   `_eager_wait` resolves the cycle; `_set_next_cycle_deadline` registers the next
   timer; `schedule_eager_timer` (lines 163-165) cancels the registered one, which
   is the running task. `CancelledError` comes at the next await, the first stage
   of the pipeline. The timer normally wins against the 30-second sweep, so this
   is the usual course of an automatic epoch.
2. **An expired deadline can be claimed for the next cycle** (epoch_stale_deadline).
   A resolution that does not come from the scheduler leaves the old deadline in
   place until it writes the next one, several calls after the increment.
3. **A deadline can be lost** (epoch_lost_deadline). The claim nulls it; if the
   resolution dies before writing the next one, neither the sweep nor the seeding
   finds the epoch again.

4. **A sweep detects nobody** (missions_sweep). It marks the intruders' rows
   with the player's own client, and the UPDATE policy of `operative_missions` lets
   only the sender's participant write them. The 4 RP are gone. The integration
   test uses the service-role client.
5. **A medium zone cannot be sabotaged** (missions_sabotage). The function renames
   the level it read before it compares it with the stored one.

Of missions, worth knowing and the reason for the exemptions in the properties:
two requests at once for one agent deploy it twice or refund it twice; the creator's
resolve during the pipeline's, or a call failing between an effect and the final
UPDATE, applies an effect twice; a recall during its mission's resolution is
refunded although the mission succeeds; a deployment that outlasts the last cycle
inserts an open mission into a completed epoch, which nothing closes; a recalled
operative stays "returning", and so busy, for the rest of the epoch; a zone
at the top tier gains nothing from a fortification and loses a tier when it expires;
a Substrate Tap may lift its owner above `rp_cap`, because the transfer caps at its
own default of 50 (RpWithinCap, stated but in no run).

Three facts about cycles that are not statements of the source broken, but worth knowing.
With requests, `GrantOncePerCycle` fails: a loser has granted RP, reset the flags
and advanced the mission timers before its conflict. `PipelineOnce` fails too:
the atomic path's second read may return a later cycle, whose pipeline then runs
twice while its own is skipped. And `InstancesSettle` fails in an automatic
epoch: a resolver that rearms the timer cancels a timer that is just completing
the epoch, whose instances are then never archived.

Of alliances. Two last votes whose transactions overlap leave a proposal pending until
it expires, since neither trigger sees the other's vote; a rejection that
overlaps an acceptance overwrites its status while the proposer is on the team.
Acceptances, the shortcut for a team of one and `create_team` ignore
`max_team_size`, and an acceptance may put its proposer on a dissolved team. A proposal
made while the team had no members can be neither accepted nor rejected. Tension is
computed with the number of the cycle just begun, against `deployed_cycle`: it
finds what bots deploy in the pipeline and never what players deployed in the
cycle that was played; the gameplay guide
(docs/guides/epoch-gameplay-guide.md:167) promises +10 "when 2+ allies attack the
same target in the same cycle".

Of dungeons, each a trace TLC gives when the exemption is dropped. The GET of the
state recovers a run from its row without the lock: it may store an old instance
over the one a handler is changing, whose next checkpoint, an UPDATE without a
condition, reopens a completed row, and the loot is handed out twice (`raced`). If
memory is lost between `fn_begin_distribution` and its checkpoint, the fight is
fought again and its outcomes applied twice (`torn`). A recovered instance has no
timer (`restored`); a confirmation cancels the distribution timer before it looks
whether it may confirm (`untimed`). A failed final RPC leaves memory ended and the
row open, although the log says it will be retried. Memory whose checkpoint
failed is not evicted after a second failure, because `checkpoint` swallows it.
On the page, `validateActiveRun` takes every error but NETWORK_ERROR for the end of the
run, `tryRecover` forgets the run on every error, an answer that comes after `clear`
brings the run back, and a GET may show the end of a run whose RPC then fails.

Of the chat, the losses `lossy` exempts and their neighbours. A load overwrites
messages that broadcasts brought while it was under way; an empty list is replayed
from now on, and a list that ends with a message just sent from its time, so that what
came between the GET and the join is lost. A stream that breaks after the message was
saved and before its confirmation makes the fallback save it again, against the
comment "The user message was NOT saved yet" (ChatWindow.ts:634); one that breaks
after the confirmation says "Reloading messages" and does not reload unless an error
event came first. The fallback and an aborted regeneration load whichever
conversation is open by then.

## 4. What is proved

EpochCycleProofs, checked by TLAPS for every set of players and requests, every
phase layout satisfying `PhaseAssumption` (EpochConfig's bounds and
`start_epoch`'s overlap check), every mode and any number of faults:

* `TypeCorrect`: `Spec => []TypeOK`, one step per action.
* `WinnersAreDistinct`: WinnersDistinct is inductive with TypeOK. The lemma
  `OnlyAdvanceWins` says that no other step brings a process past the increment
  or moves the counter; at an increment the winner's cycle is the current one,
  and all earlier winners hold smaller ones.
* `CyclesStep`: from TypeOK, by the lemmas `PhaseAfterAllowed` (the computed
  phases are in the trigger's table) and `OthersKeepCounter`.
* `PhaseStaysInStep`: the inductive invariant is TypeOK, PhaseInStep and
  `status # "lobby"`. The last part is needed because the trigger would let a
  lobby start at any cycle. `PhaseAfterInStep` (one atomic advance catches up) uses
  `reckoning_cycles >= 2` and the overlap check; `AllowedInStep` says that no
  status change the trigger accepts can put the phase behind, stale or not.
* `SchedulerExcludesItself`: OneScheduledResolver is inductive with TypeOK; the
  lemma `OnlyClaimHolds` says that only a claim lets a process in, and a claim
  needs the deadline that the process inside has nulled.
* `InstancesFollowStatus`: InstancesMatchStatus is inductive with TypeOK and
  ReleaseDecided, which says that a process about to archive or delete the clones
  does so under the final status it or another has written (`ReleasesDecided`). `TerminalStays` (the
  trigger lets no status follow completed or cancelled) keeps that true however
  long the process takes and whoever decides in between.

EpochTurnsProofs, for the same constants, but no requests (`Request = {}`):

* `SchedulerPlaysInTurns`: `Spec => ImplementsTurns`. The refinement needs an
  invariant: `Unattended` is TypeOK, OneScheduledResolver, WinnersDistinct, that the
  status is one of a running or completed epoch, and `Coherent` for each process,
  which says that its locals still agree with the row: before the increment the cycle
  and status it read are the current ones, after it the current number is one more and
  the status it is to write is the one that number calls for. `CoherentStep` shows
  it for the process that moves, with `CoherentKept` and `CoherentAside` for the
  others. `TurnsStep` then maps each action: the claim to Close, the increment to
  NextTurn, the writes behind it to EnterPhase, Archive, Reopen and PlayOut, a
  failure, restart or cancellation to Lose (`Shrinks`), everything else to a stutter.
* `PipelinesRunOnce`: PipelineOnce, from the same invariant: a number is due only
  above every number that has been played.

EpochSettleProofs completes the list for EpochCycle. `RearmPending` (a coroutine about
to register the timer has a pending deadline, since no deadline passes before it
does) is inductive for any requests; `Unattended` comes from EpochTurnsProofs.

* `CyclesPaidOnce`: GrantOncePerCycle counts processes, so the induction is on
  `PaidOnce`, which says the same of "somebody is between the grant and the increment"
  (`CountOne`: with OneScheduledResolver both agree). `Coherent` excludes a lost
  compare-and-swap, RearmPending a cancelled timer among those counted.
* `ActiveNotPenalized` (no requests): between the reset of the flags and the increment
  the row has forgotten who acted. `Remembered` says that no deadline stands then,
  and that nobody is before the reset: even when the resolver dies there, nobody
  claims the cycle again, and so nobody counts absences.
* `ArmedAgain` (atomic advance, or no requests): `Pursued` says that while an active
  epoch has no deadline somebody pursues it: has claimed it, holds the current cycle
  before its increment, or is on the way to the write. Whoever takes over the counter
  takes over the duty. On the legacy path with requests the statement is false, as TLC shows:
  "next phase" may move the status on twice while a resolver holds one computed
  from its earlier read; the trigger refuses it, and the resolver ends before its deadline.
* `InstancesReleased` (manual epochs, or no requests): `Releasing` names the process
  that still has to delete or archive; `Planned` says that nobody but
  `CancelEpoch` writes "cancelled". In an automatic epoch with requests it is false (below
  the findings: a cancelled timer).

EpochMissionsProofs, for any simulations, agents, zones, kinds and requests, any finite
set of mission ids without 0, and any faults:

* `TypeInvariant`: TypeOK is not inductive, because the actions look up what a
  coroutine's locals name. `TypeInv` adds `InPlace` (the order, the mission and the
  list of jobs that each label needs are there, and name rows that exist),
  `Room` (ids are left for all orders being paid, counted with `Cardinality`) and
  `Owing` (what a request has taken and not delivered is the price of the order
  or the sweep it is at). The steps are proved per process (`Act`): the mover
  by its action (`MoverInPlace`), the others because nothing of theirs changed
  (`OthersWait`) and no row they name disappears (`MissionsGrow`).
* `TypeCorrect`, `NothingOwed`: TypeOK, and RpBuysSomething, which is Owing at "idle".
* `NothingReactivates`: NeverReactivated, from `StatusMoves`, which lists for each
  action the one row whose status it changes and how.
* `FortificationsTemporary`: inductive with TypeInv; `LevelMoves` says that
  fortifying and expiring are inverse below the top tier.

EpochOperativesProofs, for the same constants, about one operative:

* `AgentsSingle`, `OneMission`: `Single` adds the requests to the table: at most one
  request holds an agent (is deploying it, or recalling its mission), and an agent that
  is being deployed is on no mission. `overlapped` is what happens otherwise.
* `RefundsBounded`, `RefundsOnce`: `RefundOf` says that a mission refunded is no
  longer open unless the request that refunded it is about to write "returning",
  and that nobody else is; this uses Single.
* `EffectsBounded`, `EffectsOnce`: `EffectInv` says that one process is past its
  SELECT, that what it has still to roll has had no effect, and that a
  mission which had one is over or in the hands of the process that will write so.
* `MissionsAge`, `MissionsOnTime`: OnTime bounds an age at idle; `Ageing` says what
  the timer of every open mission shows at every label: `left` is life minus age
  (`Ticks`), and when it has run out, the resolution has the mission on its list, with the
  status that moves it on.

EpochAllianceProofs, for any finite sets of players and targets, any teams, bounds
and faults (None is neither a team nor a proposal):

* `AllianceTypes`: `Spec => []AllianceTypeOK`, one step per action; `TensionType` is
  the clamp.
* `DissolvedTeamsEmpty`: DissolvedIsEmpty speaks of an idle pipeline and is not
  inductive, since a pipeline that stops early returns to idle. `DissolvedInv` says the
  same of the stages before tension too; from there on only a cleanup that succeeded
  returns to idle without `leftover`.
* `TeamsFit`: TeamFits is inductive with the types. `FitsPut` is the one member more
  that the join under the lock allows; `FitsLate` says that a write without that look
  marks the team it overfills.
* `VerdictsArrive`: NoLostVerdict says nothing of the transactions under way, whose
  verdicts are counted before they commit. `VerdictSound` adds that a pending proposal
  which is not torn has at most one voter about to commit, who has not voted yet and
  carries the verdict on all the votes there will then be; `VotesKnown`, that a
  vote is for a proposal already made, so that a new one starts without voters.

DungeonProofs, for any numbers of rooms, rounds, items and failures and any way the
fights go (the only assumptions beside the bounds: None is no instance and no purpose
of a call, as null is not in the code):

* `TypeCorrect`, `PageTypes`: `TypeInv` adds to the types `JobShape`, which says for each
  await of a handler which request and which phase of the object it comes with. The
  actions read the fields of `job.inst` by the label, so the types alone are not inductive.
* `SubmittingWaits`: SubmittingMeansWaiting is inductive with the types, action by action
  of the page; the server leaves both of its variables alone.
* `ServerConsistent`: `ServerInv`, from which all that follows is read off. Its
  backbone is `JobHoldsRun`: unless a GET has stored another object (`raced`), the
  holder of the lock works on the object of the store, or on the checkpoint it is
  about to put there. Only with it does what the handler writes to the row say
  something of the object.
* `LootHandedOutOnce`, `EndedStays`: LootOnce speaks of the counter alone. `LootInv` says that
  once the loot is out the row is "completed", and that nobody holds the object but the
  handler about to leave; the status guards of the RPCs and of the recovery then
  close every way to a second time. `LeaveClosed`: a handler leaves only a closed row.
* `OutcomesAppliedOnce`: `OutcomesInv` likewise keeps the row and the object away
  from any fight after the outcomes. `NotLost` is the part `torn` exempts:
  memory that went down between `fn_begin_distribution` and its checkpoint.
* `SavedOrDirty`: at every step of a handler up to its own checkpoint, not just between two.
* `TimersFollowPhases`: `TimersInv` is the same statement with the handlers that are about
  to start a timer, and that no confirmation is under way beside one.
* `RoundsResolvedInOrder`: an action property. `RoundsInv` says that the round being planned
  ranks after every round resolved; `Ranks` compares (room, round) pairs as numbers,
  and `StartedInv` that planning is always for a round from 1 on.
* `ForgottenWhenOver`: ForgottenOnlyWhenOver is about two programs and the network
  between them. `CalmInv` says what the row and the object have to do with each other
  while nothing fails; `ClosingStays`, that a run at its end, or in the hands of the handler about to
  commit it, stays so; `GivingUp`, that the server sends an answer that makes the
  page give up (`GivesUp`) only then; and `ForgetInv` follows them into the page.

ChatProofs, for any conversations and bounds (None is neither a conversation nor a send):

* The lists are of any length, and so the proofs need induction over them. The theorems
  of the library take a predicate, which the provers cannot instantiate; `Least` proves
  from well-foundedness that every set of naturals has a least element, and
  `Induction` the principle for sets. `KeptExists` and `WithoutProperties` then prove
  what the recursive `Without` (removing an optimistic message; leaving out deleted rows)
  returns: exactly the other entries, and none twice.
* `IInv` has a part for each place a message can be in: `LogShape` and `Counted` (a message
  beyond MaxSends is paid for by a fault; with Cardinality), `StreamShape` (the
  confirmation comes first on a stream), `WireShape`, `LoadsShape`, `OneReload` (at
  most one load ends a send).
* `ChatTypes`: ChatTypeOK. That `shown` holds only entries of the open conversation needs
  WireShape, StreamShape and that a load's snapshot is of its own conversation.
* `ShownOnce`: NoDuplicates, from what addMessage, removeOptimistic and confirmOptimistic do
  to a list without duplicates (`AddedEffect`, `RemovedEffect`, `ConfirmedEffect`).
* `OptimisticWhileSending`: `OptimisticWaits` says that a temporary entry after a step
  belongs to a send that is unconfirmed after it. A stream whose end is read was confirmed
  before, because its first event is the confirmation.
* `ChannelFollowsWindow`: RealtimeFollowsWindow, inductive with the types.
* `AllShown`: NothingMissed speaks of a window at rest. `Covered` says, of any moment on a
  joined channel without a known loss, that each row is on screen, on its way, deleted,
  or will be brought by a load that is asked or answered; `Faithful`, that the rows a
  GET has not read come after those it has, so that the replay of the join, which
  starts at the last one, brings them. `CarriedCovered` does the steps that lose nothing.

Only model-checked: liveness (EventuallyCompletes, SendsEnd), which is out of the prover's
reach, as are ENABLED, RECURSIVE operators and `SelectSeq`, whose definition the prover
cannot expand (hence `Without`). Every safety property of the passing runs is proved.

## 5. What is left

Not modelled, and why: the lobby of an epoch (create, join, draft, start with the
clone before the validation, delete), which has races worth a module of its own but
a state apart from the running epoch; the interactive rooms of a dungeon, of the
same form as the modelled handlers; the alliance's upkeep; the Forge
(drafts, wallet, its debounced browser store), content drafts and the circuit
breaker, which share nothing with what is modelled; scoring, combat and mission
arithmetic in floating point; logs, mails, text generation and publishing, which no
guard reads; and the presentation, which is most of the frontend's code and keeps no
state of its own.

Next, in this order: the longer missions and guardians in a run of EpochMissions, an
abstract specification of a dungeon run (a row that ends once) with DungeonRun
refining it apart from `raced` and `torn`, EpochLobby, and the Forge's draft with its browser store.
