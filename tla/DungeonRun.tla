------------------------------ MODULE DungeonRun ------------------------------
(***************************************************************************)
(* One resonance-dungeon run on the server: the in-memory instance and its *)
(* lock (dungeon_instance_store.py), the locked handlers of the routes     *)
(* (dungeon_movement/combat/distribution/engine_service.py), the planning  *)
(* and distribution timers, the checkpoint row the run is rebuilt from     *)
(* after a restart (dungeon_checkpoint_service.py) and the RPCs that end   *)
(* it (migrations 163 to 168).                                             *)
(*                                                                         *)
(* A run has one player, as create_run makes it.  A handler is a "job":    *)
(* the holder of the run's asyncio lock.  It is cut into the steps between *)
(* its awaits, so that a restart, a timer or the GET route, which takes no *)
(* lock, can come between any two of them.                                 *)
(***************************************************************************)
EXTENDS Naturals, FiniteSets

CONSTANTS None,         \* no value: model value
          Bosses,       \* rooms whose fight is the boss fight
          LastRoom,     \* rooms 1 .. LastRoom follow the entrance, room 0
          MaxRounds,    \* CombatState.max_rounds: a longer fight is a stalemate
          Items,        \* the boss's distributable loot
          MaxFaults     \* bound: refused database calls, restarts of the backend
                        \* and (in the client) lost answers and page reloads

ASSUME BoundsAssumption ==
  /\ LastRoom \in Nat \ {0}
  /\ MaxRounds \in Nat \ {0}
  /\ Bosses \subseteq 1 .. LastRoom
  /\ IsFiniteSet(Items) /\ Items # {}
  /\ MaxFaults \in Nat

Slots == {"cmd", "auto", "poll"}
Phases == {"exploring", "room_clear", "combat_planning", "combat_resolving",
           "distributing", "completed", "wiped", "retreated"}
Running == {"exploring", "combat"}            \* the guard of most RPCs
Recoverable == Running \cup {"distributing"}  \* recover_from_checkpoint
Statuses == Recoverable \cup {"completed", "wiped", "abandoned"}
Instances == [phase : Phases, room : 0 .. LastRoom, round : 0 .. MaxRounds,
              assigned : SUBSET Items]
Posts == {"move", "submit", "retreat", "assign", "confirm"}
Steps == {"get", "put", "recheck", "handle", "resolve", "complete", "begin",
          "wipe", "abandon", "finalize", "leave", "checkpoint"}
Jobs == [slot : Slots \cup {"timer"}, op : Posts, step : Steps,
         inst : Instances \cup {None}, stored : BOOLEAN]
Views == [phase : Phases, room : 0 .. LastRoom, round : 0 .. MaxRounds]
Replies == [kind : {"state"}, view : Views]
             \cup [kind : {"left", "refused", "gone", "neterr"}]

\* "No value" is told from every value.
ASSUME NoneAssumption ==
  None \notin Instances \cup Jobs \cup Replies \cup Posts \cup {"get"}

VARIABLES
  req,          \* slot -> the request the client waits for, or None
  resp,         \* slot -> its answer on the way back, or None
  mem,          \* InstanceStore._instances[run]
  dirty,        \* InstanceStore._dirty
  combatTimer,  \* the planning timer's task is alive
  distTimer,    \* the distribution timer's task is alive
  job,          \* the holder of the run's lock, or None
  reader,       \* the instance GET /state has read but not yet stored, or None
  db,           \* the row of resonance_dungeon_runs and what its RPCs applied
  faults,       \* faults so far
  restored,     \* ghost: mem comes from a checkpoint, no timer started since
  untimed,      \* ghost: the loot is waiting but its timer was given up
  torn,         \* ghost: memory was lost between begin_distribution's writes
  raced,        \* ghost: GET stored an instance over the one being played
  last          \* ghost: rank of the last round resolved on this object

netVars == <<req, resp>>
ghosts == <<restored, untimed, torn, raced, last>>
vars == <<req, resp, mem, dirty, combatTimer, distTimer, job, reader, db,
          faults, restored, untimed, torn, raced, last>>

TypeOK ==
  /\ req \in [Slots -> Posts \cup {"get", None}]
  /\ resp \in [Slots -> Replies \cup {None}]
  /\ mem \in Instances \cup {None}
  /\ dirty \in BOOLEAN /\ combatTimer \in BOOLEAN /\ distTimer \in BOOLEAN
  /\ job \in Jobs \cup {None}
  /\ reader \in Instances \cup {None}
  /\ db \in [status : Statuses, ckpt : Instances, outcomes : 0 .. 2, loots : 0 .. 2]
  /\ faults \in 0 .. MaxFaults
  /\ restored \in BOOLEAN /\ untimed \in BOOLEAN /\ torn \in BOOLEAN /\ raced \in BOOLEAN
  /\ last \in Nat

(***************************************************************************)
(* Helpers                                                                 *)
(***************************************************************************)

\* build_client_state: what the client sees of an instance.
View(i) == [phase |-> i.phase, room |-> i.room, round |-> i.round]

\* The order in which the rounds of a run are fought.
Rank(i) == i.room * (MaxRounds + 1) + i.round

\* status_map of checkpoint().
StatusOf(phase) ==
  CASE phase \in {"exploring", "room_clear"} -> "exploring"
    [] phase \in {"combat_planning", "combat_resolving"} -> "combat"
    [] phase = "retreated" -> "abandoned"
    [] OTHER -> phase

\* A write of checkpoint(): it is not guarded by the row's status.
Written(i) == [db EXCEPT !.status = StatusOf(i.phase), !.ckpt = i]

\* Effects applied by the RPCs are counted up to two.
Once(n) == IF n = 0 THEN 1 ELSE 2

Entrance == [phase |-> "exploring", room |-> 0, round |-> 0, assigned |-> {}]

NoJob == job = None

\* The job's object, and the store's when it is the same object.
Mutate(i, step) ==
  /\ job' = [job EXCEPT !.inst = i, !.step = step]
  /\ mem' = IF job.stored THEN i ELSE mem

\* The handler returns: the lock is free and the caller, if any, has its answer.
Finish(answer) ==
  /\ job' = None
  /\ IF job.slot \in Slots
     THEN /\ req' = [req EXCEPT ![job.slot] = None]
          /\ resp' = [resp EXCEPT ![job.slot] = answer]
     ELSE UNCHANGED netVars

Answer(i) == [kind |-> "state", view |-> View(i)]
Refused == [kind |-> "refused"]
Gone == [kind |-> "gone"]
Left == [kind |-> "left"]

\* One more thing goes wrong, while the bound lets it.
Fault == faults < MaxFaults /\ faults' = faults + 1

Init ==
  /\ req = [s \in Slots |-> None]
  /\ resp = [s \in Slots |-> None]
  /\ mem = Entrance
  /\ dirty = FALSE
  /\ combatTimer = FALSE
  /\ distTimer = FALSE
  /\ job = None
  /\ reader = None
  /\ db = [status |-> "exploring", ckpt |-> Entrance, outcomes |-> 0, loots |-> 0]
  /\ faults = 0
  /\ restored = FALSE
  /\ untimed = FALSE
  /\ torn = FALSE
  /\ raced = FALSE
  /\ last = 0

(***************************************************************************)
(* Taking the lock and finding the instance                                *)
(***************************************************************************)

\* A POST route gets the run's lock.  _confirm_distribution_impl cancels the
\* distribution timer before it looks at the instance.
Accept(s) ==
  /\ NoJob
  /\ req[s] \in Posts
  /\ job' = [slot |-> s, op |-> req[s], step |-> "get", inst |-> None, stored |-> FALSE]
  /\ distTimer' = (distTimer /\ req[s] # "confirm")
  /\ untimed' = (untimed \/ (distTimer /\ req[s] = "confirm"))
  /\ UNCHANGED <<netVars, mem, dirty, combatTimer, reader, db, faults,
                 restored, torn, raced, last>>

\* get_instance: the instance is in memory; a dirty one is saved first.
Get ==
  /\ ~NoJob /\ job.step = "get" /\ mem # None
  /\ job' = [job EXCEPT !.inst = mem, !.stored = TRUE,
                        !.step = IF dirty THEN "recheck" ELSE "handle"]
  /\ UNCHANGED <<netVars, mem, dirty, combatTimer, distTimer, reader, db, faults, ghosts>>

\* recover_from_checkpoint: the row is read, or the run is not found.
Select ==
  /\ ~NoJob /\ job.step = "get" /\ mem = None
  /\ IF db.status \in Recoverable
     THEN /\ job' = [job EXCEPT !.inst = db.ckpt, !.step = "put"]
          /\ UNCHANGED netVars
     ELSE Finish(Gone)
  /\ UNCHANGED <<mem, dirty, combatTimer, distTimer, reader, db, faults, ghosts>>

\* ... and the rebuilt instance is stored, over whatever GET stored meanwhile.
\* No timer is started for it.
Put ==
  /\ ~NoJob /\ job.step = "put"
  /\ mem' = job.inst
  /\ job' = [job EXCEPT !.stored = TRUE, !.step = IF dirty THEN "recheck" ELSE "handle"]
  /\ restored' = TRUE
  /\ last' = 0
  /\ UNCHANGED <<netVars, dirty, combatTimer, distTimer, reader, db, faults,
                 untimed, torn, raced>>

\* checkpoint() of a dirty instance.  It swallows the refusal, so the handler
\* goes on either way.
Recheck ==
  /\ ~NoJob /\ job.step = "recheck"
  /\ \/ /\ db' = Written(job.inst)
        /\ dirty' = FALSE
        /\ UNCHANGED faults
     \/ /\ Fault
        /\ UNCHANGED <<db, dirty>>
  /\ job' = [job EXCEPT !.step = "handle"]
  /\ UNCHANGED <<netVars, mem, combatTimer, distTimer, reader, ghosts>>

(***************************************************************************)
(* The handlers                                                            *)
(***************************************************************************)

Handling(op) == ~NoJob /\ job.step = "handle" /\ job.op = op

\* raise bad_request(...)
Reject ==
  /\ Finish(Refused)
  /\ UNCHANGED mem

\* move_to_room: every room of the model holds a fight; its planning timer
\* starts before the checkpoint.
Move ==
  /\ Handling("move")
  /\ LET i == job.inst IN
     IF i.phase \in {"exploring", "room_clear"} /\ i.room < LastRoom
     THEN /\ Mutate([i EXCEPT !.room = @ + 1, !.phase = "combat_planning", !.round = 1],
                    "checkpoint")
          /\ combatTimer' = TRUE
          /\ restored' = FALSE
          /\ UNCHANGED netVars
     ELSE Reject /\ UNCHANGED <<combatTimer, restored>>
  /\ UNCHANGED <<dirty, distTimer, reader, db, faults, untimed, torn, raced, last>>

\* Mutant of Submit: the phase is not checked under the lock.
SubmitUnchecked ==
  /\ Handling("submit")
  /\ Mutate([job.inst EXCEPT !.phase = "combat_resolving"], "resolve")
  /\ combatTimer' = FALSE
  /\ UNCHANGED <<netVars, dirty, distTimer, reader, db, faults, ghosts>>

\* submit_combat_actions: the one player's actions complete the submission, so
\* the timer is cancelled and the round resolved at once.
Submit ==
  /\ Handling("submit")
  /\ LET i == job.inst IN
     IF i.phase = "combat_planning"
     THEN /\ Mutate([i EXCEPT !.phase = "combat_resolving"], "resolve")
          /\ combatTimer' = FALSE
          /\ UNCHANGED netVars
     ELSE Reject /\ UNCHANGED combatTimer
  /\ UNCHANGED <<dirty, distTimer, reader, db, faults, ghosts>>

\* The planning timer's callback: the lock, then the phase check.
CombatTimerFires ==
  /\ NoJob /\ combatTimer
  /\ combatTimer' = FALSE
  /\ IF mem # None /\ mem.phase = "combat_planning"
     THEN LET i == [mem EXCEPT !.phase = "combat_resolving"] IN
          /\ mem' = i
          /\ job' = [slot |-> "timer", op |-> "submit", step |-> "resolve",
                     inst |-> i, stored |-> TRUE]
     ELSE UNCHANGED <<mem, job>>
  /\ UNCHANGED <<netVars, dirty, distTimer, reader, db, faults, ghosts>>

Resolving == ~NoJob /\ job.step = "resolve"

Resolved == last' = Rank(job.inst)

\* Mutant of NextRound: the planning timer is not started again.
NextRoundUntimed ==
  /\ Resolving /\ job.inst.round < MaxRounds
  /\ Mutate([job.inst EXCEPT !.phase = "combat_planning", !.round = @ + 1], "checkpoint")
  /\ restored' = FALSE
  /\ Resolved
  /\ UNCHANGED <<netVars, dirty, combatTimer, distTimer, reader, db, faults, untimed, torn, raced>>

\* Mutant of NextRound: max_rounds is off by one.
NextRoundTooMany ==
  /\ Resolving /\ job.inst.round <= MaxRounds
  /\ Mutate([job.inst EXCEPT !.phase = "combat_planning", !.round = @ + 1], "checkpoint")
  /\ combatTimer' = TRUE
  /\ restored' = FALSE
  /\ Resolved
  /\ UNCHANGED <<netVars, dirty, distTimer, reader, db, faults, untimed, torn, raced>>

\* _resolve_combat, the fight goes on: the next round is planned.
NextRound ==
  /\ Resolving /\ job.inst.round < MaxRounds
  /\ Mutate([job.inst EXCEPT !.phase = "combat_planning", !.round = @ + 1], "checkpoint")
  /\ combatTimer' = TRUE
  /\ restored' = FALSE
  /\ Resolved
  /\ UNCHANGED <<netVars, dirty, distTimer, reader, db, faults, untimed, torn, raced>>

\* The room is cleared and the fight dropped: a victory in a common room, or
\* a stalemate, also against the boss, when the rounds are used up.
RoomCleared ==
  /\ Resolving
  /\ job.inst.room \notin Bosses \/ job.inst.round = MaxRounds
  /\ Mutate([job.inst EXCEPT !.phase = "room_clear", !.round = 0], "checkpoint")
  /\ Resolved
  /\ UNCHANGED <<netVars, dirty, combatTimer, distTimer, reader, db, faults,
                 restored, untimed, torn, raced>>

\* _handle_combat_victory against the boss: without distributable loot, or with
\* one agent left standing, the run is completed, otherwise the loot is held
\* for its distribution.
BossVictory ==
  /\ Resolving /\ job.inst.room \in Bosses
  /\ LET won == [job.inst EXCEPT !.round = 0] IN
     \/ Mutate([won EXCEPT !.phase = "completed"], "complete")
     \/ Mutate([won EXCEPT !.phase = "distributing", !.assigned = {}], "begin")
  /\ Resolved
  /\ UNCHANGED <<netVars, dirty, combatTimer, distTimer, reader, db, faults,
                 restored, untimed, torn, raced>>

\* _handle_party_wipe.
PartyWipe ==
  /\ Resolving
  /\ Mutate([job.inst EXCEPT !.phase = "wiped", !.round = 0], "wipe")
  /\ Resolved
  /\ UNCHANGED <<netVars, dirty, combatTimer, distTimer, reader, db, faults,
                 restored, untimed, torn, raced>>

\* retreat: no phase is refused; memory is "retreated" before the RPC.
Retreat ==
  /\ Handling("retreat")
  /\ Mutate([job.inst EXCEPT !.phase = "retreated"], "abandon")
  /\ combatTimer' = FALSE
  /\ UNCHANGED <<netVars, dirty, distTimer, reader, db, faults, ghosts>>

\* assign_loot.
AssignLoot ==
  /\ Handling("assign")
  /\ LET i == job.inst IN
     IF i.phase = "distributing"
     THEN /\ \E item \in Items :
               Mutate([i EXCEPT !.assigned = @ \cup {item}], "checkpoint")
          /\ UNCHANGED netVars
     ELSE Reject
  /\ UNCHANGED <<dirty, combatTimer, distTimer, reader, db, faults, ghosts>>

\* confirm_distribution, after the instance was found: the second cancellation
\* of the timer, then the RPC.
Confirm ==
  /\ Handling("confirm")
  /\ IF job.inst.phase = "distributing" /\ job.inst.assigned = Items
     THEN /\ Mutate(job.inst, "finalize")
          /\ distTimer' = FALSE
          /\ UNCHANGED netVars
     ELSE Reject /\ UNCHANGED distTimer
  /\ UNCHANGED <<dirty, combatTimer, reader, db, faults, ghosts>>

\* The distribution timer's callback: what is unassigned goes to the first
\* agent and the distribution is confirmed under the same lock.
DistTimerFires ==
  /\ NoJob /\ distTimer
  /\ distTimer' = FALSE
  /\ IF mem # None /\ mem.phase = "distributing"
     THEN /\ mem' = [mem EXCEPT !.assigned = Items]
          /\ job' = [slot |-> "timer", op |-> "confirm", step |-> "get",
                     inst |-> None, stored |-> FALSE]
          /\ untimed' = TRUE
     ELSE UNCHANGED <<mem, job, untimed>>
  /\ UNCHANGED <<netVars, dirty, combatTimer, reader, db, faults,
                 restored, torn, raced, last>>

(***************************************************************************)
(* The RPCs that end a run, and the checkpoint                             *)
(***************************************************************************)

\* What each RPC does to the row, and from which status it does it.
Guarded == [complete |-> Running, begin |-> Running, wipe |-> Running,
            abandon |-> Recoverable, finalize |-> {"distributing"}]

\* Mutant of Applied: finalize hands the loot out without closing the row.
AppliedFinalizeOpen(rpc) ==
  CASE rpc = "complete" -> [db EXCEPT !.status = "completed", !.outcomes = Once(@), !.loots = Once(@)]
    [] rpc = "begin"    -> [db EXCEPT !.status = "distributing", !.outcomes = Once(@)]
    [] rpc = "wipe"     -> [db EXCEPT !.status = "wiped", !.outcomes = Once(@)]
    [] rpc = "abandon"  -> [db EXCEPT !.status = "abandoned"]
    [] rpc = "finalize" -> [db EXCEPT !.loots = Once(@)]

\* Mutant of Applied: the wipe applies its outcomes and leaves the row open.
AppliedWipeOpen(rpc) ==
  CASE rpc = "complete" -> [db EXCEPT !.status = "completed", !.outcomes = Once(@), !.loots = Once(@)]
    [] rpc = "begin"    -> [db EXCEPT !.status = "distributing", !.outcomes = Once(@)]
    [] rpc = "wipe"     -> [db EXCEPT !.outcomes = Once(@)]
    [] rpc = "abandon"  -> [db EXCEPT !.status = "abandoned"]
    [] rpc = "finalize" -> [db EXCEPT !.status = "completed", !.loots = Once(@)]

Applied(rpc) ==
  CASE rpc = "complete" -> [db EXCEPT !.status = "completed", !.outcomes = Once(@), !.loots = Once(@)]
    [] rpc = "begin"    -> [db EXCEPT !.status = "distributing", !.outcomes = Once(@)]
    [] rpc = "wipe"     -> [db EXCEPT !.status = "wiped", !.outcomes = Once(@)]
    [] rpc = "abandon"  -> [db EXCEPT !.status = "abandoned"]
    [] rpc = "finalize" -> [db EXCEPT !.status = "completed", !.loots = Once(@)]

\* The transaction commits.  begin_distribution saves a checkpoint next, the
\* others drop the instance.
Commit ==
  /\ ~NoJob /\ job.step \in DOMAIN Guarded
  /\ db.status \in Guarded[job.step]
  /\ db' = Applied(job.step)
  /\ Mutate(IF job.step = "finalize" THEN [job.inst EXCEPT !.phase = "completed"] ELSE job.inst,
            IF job.step = "begin" THEN "checkpoint" ELSE "leave")
  /\ UNCHANGED <<netVars, dirty, combatTimer, distTimer, reader, faults, ghosts>>

\* The RPC fails after its retry, or its guard refuses the row: the handler
\* answers as if the run had ended (finalize: with an error) and the instance
\* stays in memory in the phase it had reached.
RpcFails ==
  /\ ~NoJob /\ job.step \in DOMAIN Guarded
  /\ IF db.status \in Guarded[job.step] THEN Fault ELSE UNCHANGED faults
  /\ Finish(CASE job.step = "finalize" -> Refused
              [] job.step = "abandon" -> Left
              [] OTHER -> Answer(job.inst))
  /\ untimed' = (untimed \/ job.step = "begin")
  /\ UNCHANGED <<mem, dirty, combatTimer, distTimer, reader, db,
                 restored, torn, raced, last>>

\* store.remove: the instance, its timers and its dirty flag are dropped.
Leave ==
  /\ ~NoJob /\ job.step = "leave"
  /\ mem' = None
  /\ dirty' = FALSE
  /\ combatTimer' = FALSE
  /\ distTimer' = FALSE
  /\ Finish(IF job.op = "retreat" THEN Left ELSE Answer(job.inst))
  /\ UNCHANGED <<reader, db, faults, ghosts>>

\* Mutant of Checkpoint: a refused write does not mark the instance dirty.
CheckpointForgets ==
  /\ ~NoJob /\ job.step = "checkpoint"
  /\ \/ /\ db' = Written(job.inst)
        /\ dirty' = FALSE
        /\ UNCHANGED faults
     \/ /\ Fault
        /\ UNCHANGED <<db, dirty>>
  /\ LET begun == job.op = "submit" /\ job.inst.phase = "distributing" IN
     /\ distTimer' = (distTimer \/ begun)
     /\ untimed' = (untimed /\ ~begun)
     /\ restored' = (restored /\ ~begun)
  /\ Finish(Answer(job.inst))
  /\ UNCHANGED <<mem, combatTimer, reader, torn, raced, last>>

\* checkpoint(), the last step of a transition; begin_distribution starts the
\* distribution timer after it.
Checkpoint ==
  /\ ~NoJob /\ job.step = "checkpoint"
  /\ \/ /\ db' = Written(job.inst)
        /\ dirty' = FALSE
        /\ UNCHANGED faults
     \/ /\ Fault
        /\ dirty' = TRUE
        /\ UNCHANGED db
  /\ LET begun == job.op = "submit" /\ job.inst.phase = "distributing" IN
     /\ distTimer' = (distTimer \/ begun)
     /\ untimed' = (untimed /\ ~begun)
     /\ restored' = (restored /\ ~begun)
  /\ Finish(Answer(job.inst))
  /\ UNCHANGED <<mem, combatTimer, reader, torn, raced, last>>

(***************************************************************************)
(* GET /runs/{id}/state: get_instance without the lock                     *)
(***************************************************************************)

ReplyTo(s, answer) ==
  /\ req' = [req EXCEPT ![s] = None]
  /\ resp' = [resp EXCEPT ![s] = answer]

\* In memory: a dirty instance is saved here too, whatever step its handler
\* is at, and a snapshot goes out.
Read(s) ==
  /\ req[s] = "get" /\ mem # None
  /\ \/ /\ db' = IF dirty THEN Written(mem) ELSE db
        /\ dirty' = FALSE
        /\ UNCHANGED faults
     \/ /\ dirty
        /\ Fault
        /\ UNCHANGED <<db, dirty>>
  /\ ReplyTo(s, Answer(mem))
  /\ UNCHANGED <<mem, combatTimer, distTimer, job, reader, ghosts>>

\* Mutant of ReadRow: only memory is looked at.
ReadRowMissing(s) ==
  /\ req[s] = "get" /\ mem = None /\ reader = None
  /\ ReplyTo(s, Gone)
  /\ UNCHANGED <<mem, dirty, combatTimer, distTimer, job, reader, db, faults, ghosts>>

\* Not in memory: the row is read ...
ReadRow(s) ==
  /\ req[s] = "get" /\ mem = None /\ reader = None
  /\ IF db.status \in Recoverable
     THEN /\ reader' = db.ckpt
          /\ UNCHANGED <<netVars, faults>>
     ELSE /\ ReplyTo(s, Gone)
          /\ UNCHANGED <<reader, faults>>
  /\ UNCHANGED <<mem, dirty, combatTimer, distTimer, job, db, ghosts>>

\* ... or the query fails, which the route answers with an error ...
ReadFails(s) ==
  /\ req[s] = "get" /\ mem = None /\ reader = None
  /\ Fault
  /\ ReplyTo(s, Refused)
  /\ UNCHANGED <<mem, dirty, combatTimer, distTimer, job, reader, db, ghosts>>

\* ... and the instance it made is stored, also when a handler has stored and
\* changed another one since.
Store(s) ==
  /\ req[s] = "get" /\ reader # None
  /\ mem' = reader
  /\ reader' = None
  /\ job' = IF NoJob THEN job ELSE [job EXCEPT !.stored = FALSE]
  /\ raced' = (raced \/ mem # None \/ (~NoJob /\ job.step # "get")
                 \/ reader # db.ckpt \/ db.status \notin Recoverable)
  /\ restored' = TRUE
  /\ last' = 0
  /\ ReplyTo(s, Answer(reader))
  /\ UNCHANGED <<dirty, combatTimer, distTimer, db, faults, untimed, torn>>

(***************************************************************************)
(* Restarts and the cleanup loop                                           *)
(***************************************************************************)

\* Memory is gone between fn_begin_distribution and its checkpoint.
LosesBegin == db.status = "distributing" /\ db.ckpt.phase # "distributing"

\* The backend restarts: everything in memory is lost, and every request under
\* way ends in a network error.
Crash ==
  /\ Fault
  /\ mem' = None
  /\ job' = None
  /\ reader' = None
  /\ dirty' = FALSE
  /\ combatTimer' = FALSE
  /\ distTimer' = FALSE
  /\ req' = [s \in Slots |-> None]
  /\ resp' = [s \in Slots |-> IF req[s] = None THEN resp[s] ELSE [kind |-> "neterr"]]
  /\ torn' = (torn \/ LosesBegin)
  /\ restored' = FALSE /\ untimed' = FALSE /\ last' = 0
  /\ UNCHANGED <<db, raced>>

\* Half an hour without a request: the planning and distribution timers, which
\* run for a minute and for five, are over by then.
Quiet == NoJob /\ reader = None /\ ~combatTimer /\ ~distTimer /\ \A s \in Slots : req[s] = None

\* InstanceStore.evict_stale.
Evict ==
  /\ Quiet /\ mem # None
  /\ mem' = None
  /\ dirty' = FALSE
  /\ torn' = (torn \/ LosesBegin)
  /\ restored' = FALSE /\ untimed' = FALSE /\ last' = 0
  /\ UNCHANGED <<netVars, combatTimer, distTimer, job, reader, db, faults, raced>>

\* Mutant of Expire: the WHERE clause does not look at the status.
ExpireAny ==
  /\ Quiet
  /\ db' = [db EXCEPT !.status = "abandoned"]
  /\ UNCHANGED <<netVars, mem, dirty, combatTimer, distTimer, job, reader, faults, ghosts>>

\* fn_expire_abandoned_dungeon_runs: it goes by the row's updated_at, which a
\* GET does not touch, so the instance may still be in memory; a run that is
\* being distributed is never expired.
Expire ==
  /\ Quiet /\ db.status \in Running
  /\ db' = [db EXCEPT !.status = "abandoned"]
  /\ UNCHANGED <<netVars, mem, dirty, combatTimer, distTimer, job, reader, faults, ghosts>>

HandlerStep ==
  \/ Get \/ Select \/ Put \/ Recheck
  \/ Move \/ Submit \/ Retreat \/ AssignLoot \/ Confirm
  \/ NextRound \/ RoomCleared \/ BossVictory \/ PartyWipe
  \/ Commit \/ RpcFails \/ Leave \/ Checkpoint

ReaderStep(s) == Read(s) \/ ReadRow(s) \/ ReadFails(s) \/ Store(s)

ServerStep ==
  \/ \E s \in Slots : Accept(s) \/ ReaderStep(s)
  \/ HandlerStep
  \/ CombatTimerFires \/ DistTimerFires
  \/ Crash \/ Evict \/ Expire

(***************************************************************************)
(* Properties                                                              *)
(***************************************************************************)

\* The loot of a run is handed out once, whichever of the player, the timer,
\* a restart or a retry gets to fn_finalize_dungeon_run or
\* fn_complete_dungeon_run first: the rows' status guards carry it.
LootOnce == ~raced => db.loots <= 1

\* The agents' mood and stress changes of a run are applied once, by
\* whichever RPC ends the fight with the boss, unless the process lost its
\* memory between fn_begin_distribution and the checkpoint that follows it.
OutcomesOnce == ~raced /\ ~torn => db.outcomes <= 1

\* Once outcomes were applied the run is never fought on, and once loot was
\* handed out it is completed for good: no late checkpoint, no cleanup and no
\* retreat moves the row back or elsewhere.
EndedRunStaysEnded ==
  ~raced /\ ~torn =>
    /\ db.outcomes > 0 => db.status \notin Running
    /\ db.loots > 0 => db.status = "completed"

\* Between two requests the row holds what is in memory, or the instance is
\* marked dirty, in every phase that is played on (a run whose final RPC
\* failed, and one being distributed, are not).
SavedUnlessDirty ==
  NoJob /\ mem # None /\ ~raced
    /\ mem.phase \in {"exploring", "room_clear", "combat_planning"} =>
      dirty \/ db.ckpt = mem

\* Between two requests the planning timer is alive exactly while a round is
\* being planned, and the distribution timer while loot waits, save for the
\* ways the code loses them: an instance rebuilt from its checkpoint, a
\* refused fn_begin_distribution, and a confirmation that is turned down.  Only
\* a retreat whose RPC failed leaves a timer behind, for its callback to find
\* the phase changed.
PhaseHasTimer ==
  NoJob /\ ~raced =>
    /\ combatTimer => mem # None /\ mem.phase = "combat_planning"
    /\ distTimer => mem # None /\ mem.phase \in {"distributing", "retreated"}
    /\ mem # None /\ ~restored =>
         /\ mem.phase = "combat_planning" => combatTimer
         /\ mem.phase = "distributing" => distTimer \/ untimed

\* A round is resolved once: a submission and the timer that race for it, or
\* two submissions, never fight it twice on the same instance, and rounds are
\* fought in their order.
RoundsInOrder ==
  [][(~NoJob' /\ job'.step = "resolve" /\ (NoJob \/ job.step # "resolve") /\ ~raced) =>
       Rank(job'.inst) > last]_vars

===============================================================================
