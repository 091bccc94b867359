---------------------------- MODULE DungeonProofs ----------------------------
(***************************************************************************)
(* Theorems about a dungeon run and its player's page, for any number of   *)
(* rooms, rounds, items and failures: the types, what the holder of the    *)
(* lock knows of the stored object and of the row, the loot and the        *)
(* outcomes, the timers, the rounds, the end of a run, and what the page   *)
(* makes of the answers.                                                   *)
(***************************************************************************)
EXTENDS DungeonClient, TLAPS

\* What a handler is doing fits its request and its object's phase: the phase
\* is set before the RPC or the checkpoint it leads to.
JobShape ==
  ~NoJob =>
    /\ job.step # "get" => job.inst \in Instances
    /\ job.slot # "poll"
    /\ job.step \in {"resolve", "complete", "begin", "wipe"} => job.op = "submit"
    /\ job.step = "abandon" => job.op = "retreat"
    /\ job.step = "finalize" => job.op = "confirm"
    /\ job.step = "leave" => (job.op = "retreat" <=> job.inst.phase = "retreated")
    /\ job.step = "resolve" => job.inst.phase = "combat_resolving"
    /\ job.step = "complete" => job.inst.phase = "completed"
    /\ job.step \in {"begin", "finalize"} => job.inst.phase = "distributing"
    /\ job.step = "wipe" => job.inst.phase = "wiped"
    /\ job.step = "abandon" => job.inst.phase = "retreated"
    /\ job.step = "leave" => job.inst.phase \in {"completed", "wiped", "retreated"}
    /\ job.step = "checkpoint" =>
         job.inst.phase \in {"combat_planning", "room_clear", "distributing"}

\* The page's validation and recovery only ask GET /state.
PollGets == req["poll"] \in {"get", None}

\* Unless a GET has stored another object over it, the holder of the lock works
\* on the object of the store, or on the checkpoint it is about to store.
JobHoldsRun ==
  ~NoJob /\ ~raced =>
    /\ job.step = "put" =>
         mem = None /\ job.inst = db.ckpt /\ db.status \in Recoverable
    /\ job.step \notin {"get", "put"} => mem = job.inst /\ job.stored

\* Once the loot is handed out the row is completed, and the object is in the
\* store only while the handler that did it has not left.
LootInv ==
  ~raced /\ db.loots > 0 =>
    /\ db.loots = 1
    /\ db.status = "completed"
    /\ mem # None => ~NoJob /\ job.step = "leave" /\ mem.phase = "completed"
    /\ ~NoJob => job.step \in {"get", "leave"}

\* A handler leaves the run only after its RPC closed the row, and memory that
\* is gone has taken no unsaved distribution with it.
LeaveClosed ==
  ~raced /\ ~NoJob /\ job.step = "leave" => db.status \in {"completed", "wiped", "abandoned"}
NotLost == ~raced /\ ~torn /\ mem = None => ~LosesBegin

\* Once the outcomes are applied, neither the row nor the object is in a fight
\* or on the map.
OutcomesInv ==
  ~raced /\ ~torn /\ db.outcomes > 0 =>
    /\ db.outcomes = 1
    /\ db.status \notin Running
    /\ mem # None => mem.phase \in {"distributing", "completed", "wiped", "retreated"}

\* SavedUnlessDirty, at every step of a handler up to its own checkpoint.
SavedInv ==
  ~raced /\ mem # None /\ (NoJob \/ job.step # "checkpoint")
    /\ mem.phase \in {"exploring", "room_clear", "combat_planning"} =>
       dirty \/ db.ckpt = mem

\* A timer is alive only in the phase it is for, and the other way round, save
\* for what is restored, given up or about to start one.
TimersInv ==
  ~raced =>
    /\ combatTimer => mem # None /\ mem.phase = "combat_planning"
    /\ distTimer => mem # None /\ mem.phase \in {"distributing", "retreated"}
    /\ distTimer => NoJob \/ job.op # "confirm"
    /\ mem # None /\ ~restored =>
         /\ mem.phase = "combat_planning" => combatTimer
         /\ mem.phase = "distributing" =>
              distTimer \/ untimed
                \/ (~NoJob /\ job.op = "submit" /\ job.step \in {"begin", "checkpoint"})

\* Planning is always for a round: combat starts at round 1.
Started(i) == i.phase = "combat_planning" => i.round >= 1
StartedInv ==
  /\ mem # None => Started(mem)
  /\ reader # None => Started(reader)
  /\ Started(db.ckpt)
  /\ ~NoJob /\ job.step # "get" => Started(job.inst)

\* The round being planned comes after every round resolved.
RoundsInv ==
  ~raced /\ mem # None =>
    /\ last <= mem.room * (MaxRounds + 1) + MaxRounds
    /\ mem.phase = "combat_planning" => Rank(mem) > last

\* Nothing has failed, and no GET has stored a second object.
Calm == faults = 0 /\ ~raced

\* While nothing fails, nothing is left dirty, and the row and the object agree
\* on the end of the run but for the handler that is about to commit it.
CalmInv ==
  Calm =>
    /\ ~dirty
    /\ ~NoJob => job.step # "recheck"
    /\ db.ckpt.phase \in {"exploring", "room_clear", "combat_planning", "distributing"}
    /\ db.status = "distributing" =>
         /\ db.ckpt.phase = "distributing" \/ (~NoJob /\ job.step = "checkpoint")
         /\ mem = None \/ mem.phase = "distributing"
              \/ (mem.phase = "retreated" /\ ~NoJob /\ job.step = "abandon")
    /\ mem # None /\ mem.phase = "retreated" =>
         db.status \notin Recoverable \/ (~NoJob /\ job.step = "abandon")
    /\ mem # None /\ mem.phase \in {"completed", "wiped"} =>
         db.status \notin Recoverable \/ (~NoJob /\ job.step \in {"complete", "wipe"})

\* A handler is about to commit the run's end; the run's end is in the row.
Ending == ~NoJob /\ job.step \in {"complete", "wipe"}
Ended ==
  /\ db.status \notin Recoverable
  /\ mem = None \/ mem.phase \in {"completed", "wiped", "retreated"}
  /\ ~NoJob => job.step \in {"get", "handle", "abandon", "leave"}

\* The answer on its way to slot s will make the page forget the run.
GivesUp(s) ==
  /\ resp[s] # None
  /\ \/ resp[s].kind = "left"
     \/ resp[s].kind = "state" /\ resp[s].view.phase \in Over
     \/ s = "poll" /\ resp[s].kind \in {"gone", "refused"}

\* While nothing fails, the page forgets the run, or is about to, only when it
\* is over or about to be committed.
ForgetInv ==
  Calm => /\ (\E s \in Slots : GivesUp(s)) => Ended \/ Ending
          /\ ~runId => Ended \/ Ending

\* The inductive invariant of the server. The parts lean on each other: what a
\* handler does to the row says something of the object only by JobHoldsRun.
ServerInv ==
  /\ JobHoldsRun /\ LootInv /\ LeaveClosed /\ NotLost /\ OutcomesInv
  /\ SavedInv /\ TimersInv /\ StartedInv /\ RoundsInv /\ CalmInv

\* Every variable has its type, and every handler its shape.
TypeInv == ClientTypeOK /\ JobShape /\ PollGets

\* The type invariant in three parts: the run's object with its holder, the
\* network, and the rest.
ObjectTypes ==
  /\ job \in Jobs \cup {None}
  /\ mem \in Instances \cup {None}
  /\ JobShape
NetTypes ==
  /\ req \in [Slots -> Posts \cup {"get", None}]
  /\ resp \in [Slots -> Replies \cup {None}]
  /\ PollGets
RestTypes ==
  /\ dirty \in BOOLEAN /\ combatTimer \in BOOLEAN /\ distTimer \in BOOLEAN
  /\ reader \in Instances \cup {None}
  /\ db \in [status : Statuses, ckpt : Instances, outcomes : 0 .. 2, loots : 0 .. 2]
  /\ faults \in 0 .. MaxFaults
  /\ restored \in BOOLEAN /\ untimed \in BOOLEAN /\ torn \in BOOLEAN /\ raced \in BOOLEAN
  /\ last \in Nat
ClientTypes ==
  /\ runId \in BOOLEAN /\ saved \in BOOLEAN
  /\ view \in Views \cup {None}
  /\ countdown \in BOOLEAN /\ fired \in BOOLEAN /\ submitting \in BOOLEAN
  /\ doing \in [Slots -> Purposes \cup {None}]

LEMMA TypeParts == TypeInv <=> ObjectTypes /\ NetTypes /\ RestTypes /\ ClientTypes
BY DEF TypeInv, ObjectTypes, NetTypes, RestTypes, ClientTypes, ClientTypeOK, TypeOK

\* What the types say of an instance: its view, answer, status and rank.
LEMMA InstanceTypes ==
  ASSUME NEW i \in Instances
  PROVE  /\ i.phase \in Phases /\ i.room \in 0 .. LastRoom /\ i.round \in 0 .. MaxRounds
         /\ i.assigned \in SUBSET Items
         /\ View(i) \in Views
         /\ Answer(i) \in Replies
         /\ StatusOf(i.phase) \in Statuses
         /\ i.room \in Nat /\ i.round \in Nat
         /\ Rank(i) \in Nat
<1> USE BoundsAssumption
<1>1. /\ i.phase \in Phases /\ i.room \in 0 .. LastRoom /\ i.round \in 0 .. MaxRounds
      /\ i.assigned \in SUBSET Items
    BY DEF Instances
<1>2. View(i) \in Views
    BY <1>1 DEF View, Views
<1>3. Answer(i) \in Replies
    BY <1>2 DEF Answer, Replies
<1>4. StatusOf(i.phase) \in Statuses
    BY <1>1 DEF StatusOf, Statuses, Recoverable, Running, Phases
<1>5. i.room \in Nat /\ i.round \in Nat /\ Rank(i) \in Nat
    BY <1>1 DEF Rank
<1> QED
    BY <1>1, <1>2, <1>3, <1>4, <1>5

\* What the handlers make of an instance.
LEMMA InstanceUpdates ==
  ASSUME NEW i \in Instances, NEW p \in Phases
  PROVE  /\ LET j == [i EXCEPT !.phase = p]
            IN  j \in Instances /\ j.phase = p /\ j.room = i.room /\ j.round = i.round
         /\ \A a \in SUBSET Items :
              LET j == [i EXCEPT !.assigned = a]
              IN  /\ j \in Instances /\ j.phase = i.phase /\ j.room = i.room
                  /\ j.round = i.round /\ j.assigned = a
<1>1. LET j == [i EXCEPT !.phase = p]
      IN  j \in Instances /\ j.phase = p /\ j.room = i.room /\ j.round = i.round
    BY DEF Instances
<1>2. ASSUME NEW a \in SUBSET Items
      PROVE  LET j == [i EXCEPT !.assigned = a]
             IN  /\ j \in Instances /\ j.phase = i.phase /\ j.room = i.room
                 /\ j.round = i.round /\ j.assigned = a
    BY DEF Instances
<1> QED
    BY <1>1, <1>2

\* A checkpoint writes the phase's status and the object, and keeps the effects.
LEMMA WrittenRow ==
  ASSUME RestTypes, NEW i \in Instances
  PROVE  /\ Written(i) \in [status : Statuses, ckpt : Instances, outcomes : 0 .. 2, loots : 0 .. 2]
         /\ Written(i).status = StatusOf(i.phase) /\ Written(i).ckpt = i
         /\ Written(i).outcomes = db.outcomes /\ Written(i).loots = db.loots
BY InstanceTypes DEF RestTypes, Written

\* The RPCs that end a run.
RPCs == {"complete", "begin", "wipe", "abandon", "finalize"}

\* An RPC sets its status and counts its effects, and keeps the checkpoint.
LEMMA AppliedRow ==
  ASSUME RestTypes, NEW rpc \in RPCs
  PROVE  /\ Applied(rpc) \in [status : Statuses, ckpt : Instances, outcomes : 0 .. 2, loots : 0 .. 2]
         /\ Applied(rpc).ckpt = db.ckpt
         /\ Applied(rpc).status = CASE rpc = "begin" -> "distributing"
                                    [] rpc = "wipe" -> "wiped"
                                    [] rpc = "abandon" -> "abandoned"
                                    [] OTHER -> "completed"
         /\ Applied(rpc).outcomes = IF rpc \in {"complete", "begin", "wipe"}
                                    THEN Once(db.outcomes) ELSE db.outcomes
         /\ Applied(rpc).loots = IF rpc \in {"complete", "finalize"}
                                 THEN Once(db.loots) ELSE db.loots
<1> DEFINE Row == [status : Statuses, ckpt : Instances, outcomes : 0 .. 2, loots : 0 .. 2]
<1>1. db \in Row /\ \A n \in 0 .. 2 : Once(n) \in 0 .. 2
    BY DEF RestTypes, Once
<1>2. Once(db.outcomes) \in 0 .. 2 /\ Once(db.loots) \in 0 .. 2
    BY <1>1
<1>3. {"completed", "distributing", "wiped", "abandoned"} \subseteq Statuses
    BY DEF Statuses, Recoverable
<1>4. CASE rpc = "complete"
    BY <1>1, <1>2, <1>3, <1>4 DEF Applied
<1>5. CASE rpc = "begin"
    BY <1>1, <1>2, <1>3, <1>5 DEF Applied
<1>6. CASE rpc = "wipe"
    BY <1>1, <1>2, <1>3, <1>6 DEF Applied
<1>7. CASE rpc = "abandon"
    BY <1>1, <1>2, <1>3, <1>7 DEF Applied
<1>8. CASE rpc = "finalize"
    BY <1>1, <1>2, <1>3, <1>8 DEF Applied
<1> QED
    BY <1>4, <1>5, <1>6, <1>7, <1>8 DEF RPCs

LEMMA GuardedRpcs == DOMAIN Guarded = RPCs
BY DEF Guarded, RPCs

\* The effect of each step of a handler on the types: what it leaves in job,
\* mem and the network.
LEMMA FinishEffect ==
  ASSUME ObjectTypes, NetTypes, ~NoJob, NEW a \in Replies, Finish(a)
  PROVE  /\ job' = None
         /\ NetTypes'
<1>1. job' = None /\ job \in Jobs /\ None \in Posts \cup {"get", None}
    BY DEF ObjectTypes, NoJob, Finish
<1>2. CASE job.slot \in Slots
  <2>1. req' = [req EXCEPT ![job.slot] = None] /\ resp' = [resp EXCEPT ![job.slot] = a]
      BY <1>2 DEF Finish
  <2> QED
      BY <1>1, <1>2, <2>1 DEF NetTypes, PollGets, NoJob, Slots
<1>3. CASE job.slot \notin Slots
  <2>1. req' = req /\ resp' = resp
      BY <1>3 DEF Finish, netVars
  <2> QED
      BY <1>1, <2>1 DEF NetTypes, PollGets, NoJob
<1> QED
    BY <1>1, <1>2, <1>3

LEMMA RefusalTypes == Refused \in Replies /\ Gone \in Replies /\ Left \in Replies
BY DEF Refused, Gone, Left, Replies

LEMMA MutateEffect ==
  ASSUME ObjectTypes, ~NoJob, NEW i \in Instances, NEW step \in Steps, Mutate(i, step)
  PROVE  /\ job' \in Jobs /\ ~NoJob' /\ job' # None
         /\ job'.slot = job.slot /\ job'.op = job.op /\ job'.stored = job.stored
         /\ job'.inst = i /\ job'.step = step
         /\ mem' = IF job.stored THEN i ELSE mem
         /\ mem' \in Instances \cup {None}
<1>1. job \in Jobs /\ mem \in Instances \cup {None}
    BY DEF ObjectTypes, NoJob
<1>2. job' = [job EXCEPT !.inst = i, !.step = step]
    BY DEF Mutate
<1>3. /\ job' \in Jobs
      /\ job'.slot = job.slot /\ job'.op = job.op /\ job'.stored = job.stored
      /\ job'.inst = i /\ job'.step = step
    BY <1>1, <1>2 DEF Jobs
<1>4. job' # None
    BY <1>3, NoneAssumption
<1> QED
    BY <1>1, <1>3, <1>4 DEF Mutate, NoJob

\* What the steps of a handler do to its job and to memory.
LEMMA GetEffect ==
  ASSUME ObjectTypes, Get
  PROVE  /\ job' \in Jobs /\ job' # None /\ mem' = mem /\ mem \in Instances
         /\ job'.slot = job.slot /\ job'.op = job.op /\ job'.stored
         /\ job'.inst = mem /\ job'.step = IF dirty THEN "recheck" ELSE "handle"
<1>1. job \in Jobs /\ mem \in Instances
    BY DEF Get, ObjectTypes, NoJob
<1>2. job' = [job EXCEPT !.inst = mem, !.stored = TRUE,
                         !.step = IF dirty THEN "recheck" ELSE "handle"]
    BY DEF Get
<1>3. (IF dirty THEN "recheck" ELSE "handle") \in Steps
    BY DEF Steps
<1>4. job' \in Jobs /\ job'.slot = job.slot /\ job'.op = job.op /\ job'.stored
      /\ job'.inst = mem /\ job'.step = IF dirty THEN "recheck" ELSE "handle"
    BY <1>1, <1>2, <1>3 DEF Jobs
<1> QED
    BY <1>1, <1>4, NoneAssumption DEF Get

LEMMA SelectEffect ==
  ASSUME ObjectTypes, RestTypes, Select, db.status \in Recoverable
  PROVE  /\ job' \in Jobs /\ job' # None /\ mem' = mem /\ UNCHANGED netVars
         /\ job'.slot = job.slot /\ job'.op = job.op /\ job'.stored = job.stored
         /\ job'.inst = db.ckpt /\ job'.step = "put"
<1>1. job \in Jobs /\ db.ckpt \in Instances
    BY DEF Select, ObjectTypes, RestTypes, NoJob
<1>2. job' = [job EXCEPT !.inst = db.ckpt, !.step = "put"]
    BY DEF Select
<1>3. job' \in Jobs /\ job'.slot = job.slot /\ job'.op = job.op /\ job'.stored = job.stored
      /\ job'.inst = db.ckpt /\ job'.step = "put"
    BY <1>1, <1>2 DEF Jobs, Steps
<1> QED
    BY <1>3, NoneAssumption DEF Select

LEMMA PutEffect ==
  ASSUME ObjectTypes, Put
  PROVE  /\ job' \in Jobs /\ job' # None /\ mem' = job.inst /\ mem' \in Instances
         /\ job'.slot = job.slot /\ job'.op = job.op /\ job'.stored
         /\ job'.inst = job.inst /\ job'.step = IF dirty THEN "recheck" ELSE "handle"
<1>1. job \in Jobs /\ job.inst \in Instances
    BY DEF Put, ObjectTypes, JobShape, NoJob
<1>2. job' = [job EXCEPT !.stored = TRUE, !.step = IF dirty THEN "recheck" ELSE "handle"]
    BY DEF Put
<1>3. (IF dirty THEN "recheck" ELSE "handle") \in Steps
    BY DEF Steps
<1>4. job' \in Jobs /\ job'.slot = job.slot /\ job'.op = job.op /\ job'.stored
      /\ job'.inst = job.inst /\ job'.step = IF dirty THEN "recheck" ELSE "handle"
    BY <1>1, <1>2, <1>3 DEF Jobs
<1> QED
    BY <1>1, <1>4, NoneAssumption DEF Put

LEMMA RecheckEffect ==
  ASSUME ObjectTypes, Recheck
  PROVE  /\ job' \in Jobs /\ job' # None /\ mem' = mem
         /\ job'.slot = job.slot /\ job'.op = job.op /\ job'.stored = job.stored
         /\ job'.inst = job.inst /\ job'.step = "handle" /\ job.inst \in Instances
<1>1. job \in Jobs /\ job.inst \in Instances
    BY DEF Recheck, ObjectTypes, JobShape, NoJob
<1>2. job' = [job EXCEPT !.step = "handle"]
    BY DEF Recheck
<1>3. job' \in Jobs /\ job'.slot = job.slot /\ job'.op = job.op /\ job'.stored = job.stored
      /\ job'.inst = job.inst /\ job'.step = "handle"
    BY <1>1, <1>2 DEF Jobs, Steps
<1> QED
    BY <1>1, <1>3, NoneAssumption DEF Recheck

\* The handler goes on to a step with an instance it has changed.
Goes(step) ==
  /\ ~NoJob
  /\ job' \in Jobs /\ job' # None
  /\ job'.slot = job.slot /\ job'.op = job.op /\ job'.stored = job.stored
  /\ job'.inst \in Instances /\ job'.step = step
  /\ mem' = IF job.stored THEN job'.inst ELSE mem
  /\ mem' \in Instances \cup {None}

LEMMA MutateGoes ==
  ASSUME ObjectTypes, ~NoJob, NEW i \in Instances, NEW step \in Steps, Mutate(i, step)
  PROVE  Goes(step) /\ job'.inst = i
BY MutateEffect DEF Goes

LEMMA JobTypes == ObjectTypes /\ ~NoJob /\ job.step # "get" => job \in Jobs /\ job.inst \in Instances
BY DEF ObjectTypes, JobShape, NoJob

LEMMA MoveEffect ==
  ASSUME ObjectTypes, Move
  PROVE  \/ /\ Finish(Refused) /\ mem' = mem /\ UNCHANGED <<combatTimer, restored>>
         \/ /\ Goes("checkpoint") /\ UNCHANGED netVars
            /\ job.inst.phase \in {"exploring", "room_clear"}
            /\ job'.inst.phase = "combat_planning"
            /\ job'.inst.room = job.inst.room + 1 /\ job'.inst.round = 1
            /\ combatTimer' /\ ~restored'
<1>1. CASE job.inst.phase \in {"exploring", "room_clear"} /\ job.inst.room < LastRoom
  <2> DEFINE i == [job.inst EXCEPT !.room = @ + 1, !.phase = "combat_planning", !.round = 1]
  <2>1. job.inst \in Instances /\ job.inst.room + 1 \in 0 .. LastRoom /\ 1 \in 0 .. MaxRounds
      BY <1>1, JobTypes, BoundsAssumption, InstanceTypes DEF Move, Handling
  <2>2. i \in Instances /\ i.phase = "combat_planning" /\ i.room = job.inst.room + 1 /\ i.round = 1
      BY <2>1 DEF Instances, Phases
  <2>3. Mutate(i, "checkpoint") /\ "checkpoint" \in Steps /\ ~NoJob
      BY <1>1 DEF Move, Handling, Steps
  <2> HIDE DEF i
  <2> QED
      BY <1>1, <2>2, <2>3, MutateGoes DEF Move
<1>2. CASE ~(job.inst.phase \in {"exploring", "room_clear"} /\ job.inst.room < LastRoom)
    BY <1>2 DEF Move, Reject
<1> QED
    BY <1>1, <1>2

LEMMA SubmitEffect ==
  ASSUME ObjectTypes, Submit
  PROVE  \/ /\ Finish(Refused) /\ mem' = mem /\ UNCHANGED combatTimer
         \/ /\ Goes("resolve") /\ UNCHANGED netVars
            /\ job.inst.phase = "combat_planning" /\ job'.inst.phase = "combat_resolving"
            /\ job'.inst.room = job.inst.room /\ job'.inst.round = job.inst.round
            /\ ~combatTimer'
<1>1. CASE job.inst.phase = "combat_planning"
  <2> DEFINE i == [job.inst EXCEPT !.phase = "combat_resolving"]
  <2>1. job.inst \in Instances /\ "combat_resolving" \in Phases
      BY JobTypes DEF Submit, Handling, Phases
  <2>2. i \in Instances /\ i.phase = "combat_resolving" /\ i.room = job.inst.room
        /\ i.round = job.inst.round
      BY <2>1, InstanceUpdates
  <2>3. Mutate(i, "resolve") /\ "resolve" \in Steps /\ ~NoJob
      BY <1>1 DEF Submit, Handling, Steps
  <2> HIDE DEF i
  <2> QED
      BY <1>1, <2>2, <2>3, MutateGoes DEF Submit
<1>2. CASE job.inst.phase # "combat_planning"
    BY <1>2 DEF Submit, Reject
<1> QED
    BY <1>1, <1>2

LEMMA RetreatEffect ==
  ASSUME ObjectTypes, Retreat
  PROVE  /\ Goes("abandon") /\ job'.inst.phase = "retreated"
         /\ job'.inst.room = job.inst.room
<1> DEFINE i == [job.inst EXCEPT !.phase = "retreated"]
<1>1. job.inst \in Instances /\ "retreated" \in Phases
    BY JobTypes DEF Retreat, Handling, Phases
<1>2. i \in Instances /\ i.phase = "retreated" /\ i.room = job.inst.room
    BY <1>1, InstanceUpdates
<1>3. Mutate(i, "abandon") /\ "abandon" \in Steps /\ ~NoJob
    BY DEF Retreat, Handling, Steps
<1> HIDE DEF i
<1> QED
    BY <1>2, <1>3, MutateGoes DEF Retreat

LEMMA AssignEffect ==
  ASSUME ObjectTypes, AssignLoot
  PROVE  \/ /\ Finish(Refused) /\ mem' = mem
         \/ /\ Goes("checkpoint") /\ UNCHANGED netVars
            /\ job.inst.phase = "distributing" /\ job'.inst.phase = "distributing"
            /\ job'.inst.room = job.inst.room
<1>1. CASE job.inst.phase = "distributing"
  <2>1. PICK item \in Items : Mutate([job.inst EXCEPT !.assigned = @ \cup {item}], "checkpoint")
      BY <1>1 DEF AssignLoot
  <2> DEFINE i == [job.inst EXCEPT !.assigned = @ \cup {item}]
  <2>2. job.inst \in Instances /\ job.inst.assigned \cup {item} \in SUBSET Items
      BY JobTypes, InstanceTypes DEF AssignLoot, Handling
  <2>3. i \in Instances /\ i.phase = "distributing" /\ i.room = job.inst.room
      BY <1>1, <2>2 DEF Instances
  <2>4. Mutate(i, "checkpoint") /\ "checkpoint" \in Steps /\ ~NoJob
      BY <2>1 DEF AssignLoot, Handling, Steps
  <2> HIDE DEF i
  <2> QED
      BY <1>1, <2>3, <2>4, MutateGoes DEF AssignLoot
<1>2. CASE job.inst.phase # "distributing"
    BY <1>2 DEF AssignLoot, Reject
<1> QED
    BY <1>1, <1>2

LEMMA ConfirmEffect ==
  ASSUME ObjectTypes, Confirm
  PROVE  \/ /\ Finish(Refused) /\ mem' = mem /\ UNCHANGED distTimer
         \/ /\ Goes("finalize") /\ UNCHANGED netVars
            /\ job.inst.phase = "distributing" /\ job'.inst = job.inst
            /\ ~distTimer'
<1>1. CASE job.inst.phase = "distributing" /\ job.inst.assigned = Items
  <2>1. Mutate(job.inst, "finalize") /\ "finalize" \in Steps /\ ~NoJob /\ job.inst \in Instances
      BY <1>1, JobTypes DEF Confirm, Handling, Steps
  <2> QED
      BY <1>1, <2>1, MutateGoes DEF Confirm
<1>2. CASE ~(job.inst.phase = "distributing" /\ job.inst.assigned = Items)
    BY <1>2 DEF Confirm, Reject
<1> QED
    BY <1>1, <1>2

\* The four ends of a round.
LEMMA NextRoundEffect ==
  ASSUME ObjectTypes, NextRound
  PROVE  /\ Goes("checkpoint") /\ job'.inst.phase = "combat_planning"
         /\ job'.inst.room = job.inst.room /\ job'.inst.round = job.inst.round + 1
<1> DEFINE i == [job.inst EXCEPT !.phase = "combat_planning", !.round = @ + 1]
<1>1. job.inst \in Instances /\ "combat_planning" \in Phases /\ job.inst.round + 1 \in 0 .. MaxRounds
    BY JobTypes, InstanceTypes, BoundsAssumption DEF NextRound, Resolving, Phases
<1>2. i \in Instances /\ i.phase = "combat_planning" /\ i.room = job.inst.room
      /\ i.round = job.inst.round + 1
    BY <1>1 DEF Instances
<1>3. Mutate(i, "checkpoint") /\ "checkpoint" \in Steps /\ ~NoJob
    BY DEF NextRound, Resolving, Steps
<1> HIDE DEF i
<1> QED
    BY <1>2, <1>3, MutateGoes

LEMMA RoomClearedEffect ==
  ASSUME ObjectTypes, RoomCleared
  PROVE  /\ Goes("checkpoint") /\ job'.inst.phase = "room_clear"
         /\ job'.inst.room = job.inst.room
<1> DEFINE i == [job.inst EXCEPT !.phase = "room_clear", !.round = 0]
<1>1. job.inst \in Instances /\ "room_clear" \in Phases /\ 0 \in 0 .. MaxRounds
    BY JobTypes, BoundsAssumption DEF RoomCleared, Resolving, Phases
<1>2. i \in Instances /\ i.phase = "room_clear" /\ i.room = job.inst.room
    BY <1>1 DEF Instances
<1>3. Mutate(i, "checkpoint") /\ "checkpoint" \in Steps /\ ~NoJob
    BY DEF RoomCleared, Resolving, Steps
<1> HIDE DEF i
<1> QED
    BY <1>2, <1>3, MutateGoes

LEMMA BossVictoryEffect ==
  ASSUME ObjectTypes, BossVictory
  PROVE  /\ \/ Goes("complete") /\ job'.inst.phase = "completed"
            \/ Goes("begin") /\ job'.inst.phase = "distributing"
         /\ job'.inst.room = job.inst.room
<1> DEFINE won == [job.inst EXCEPT !.round = 0]
           done == [won EXCEPT !.phase = "completed"]
           held == [won EXCEPT !.phase = "distributing", !.assigned = {}]
<1>1. job.inst \in Instances /\ 0 \in 0 .. MaxRounds /\ ~NoJob
    BY JobTypes, BoundsAssumption DEF BossVictory, Resolving
<1>2. won \in Instances /\ won.room = job.inst.room
    BY <1>1 DEF Instances
<1> HIDE DEF won
<1>3. done \in Instances /\ done.phase = "completed" /\ done.room = job.inst.room
    BY <1>2 DEF Instances, Phases
<1>4. held \in Instances /\ held.phase = "distributing" /\ held.room = job.inst.room
    BY <1>2 DEF Instances, Phases
<1>5. Mutate(done, "complete") \/ Mutate(held, "begin")
    BY DEF BossVictory, won
<1> HIDE DEF done, held
<1> QED
    BY <1>1, <1>3, <1>4, <1>5, MutateGoes DEF Steps

LEMMA PartyWipeEffect ==
  ASSUME ObjectTypes, PartyWipe
  PROVE  Goes("wipe") /\ job'.inst.phase = "wiped" /\ job'.inst.room = job.inst.room
<1> DEFINE i == [job.inst EXCEPT !.phase = "wiped", !.round = 0]
<1>1. job.inst \in Instances /\ "wiped" \in Phases /\ 0 \in 0 .. MaxRounds
    BY JobTypes, BoundsAssumption DEF PartyWipe, Resolving, Phases
<1>2. i \in Instances /\ i.phase = "wiped" /\ i.room = job.inst.room
    BY <1>1 DEF Instances
<1>3. Mutate(i, "wipe") /\ "wipe" \in Steps /\ ~NoJob
    BY DEF PartyWipe, Resolving, Steps
<1> HIDE DEF i
<1> QED
    BY <1>2, <1>3, MutateGoes

LEMMA CommitEffect ==
  ASSUME ObjectTypes, Commit
  PROVE  /\ job.step \in RPCs
         /\ Goes(IF job.step = "begin" THEN "checkpoint" ELSE "leave")
         /\ job'.inst.phase = IF job.step = "finalize" THEN "completed" ELSE job.inst.phase
         /\ job'.inst.room = job.inst.room /\ job'.inst.round = job.inst.round
<1> DEFINE i == IF job.step = "finalize" THEN [job.inst EXCEPT !.phase = "completed"] ELSE job.inst
           step == IF job.step = "begin" THEN "checkpoint" ELSE "leave"
<1>1. ~NoJob /\ job.step \in RPCs
    BY GuardedRpcs DEF Commit
<1>2. job.inst \in Instances /\ "completed" \in Phases
    BY <1>1, JobTypes DEF Phases, RPCs
<1>3. /\ i \in Instances /\ i.phase = IF job.step = "finalize" THEN "completed" ELSE job.inst.phase
      /\ i.room = job.inst.room /\ i.round = job.inst.round
    BY <1>2 DEF Instances
<1>4. Mutate(i, step) /\ step \in Steps
    BY DEF Commit, Steps
<1> HIDE DEF i, step
<1>5. Goes(step) /\ job'.inst = i
    BY <1>1, <1>3, <1>4, MutateGoes
<1> QED
    BY <1>1, <1>3, <1>5 DEF step

\* The planning timer's callback makes itself the holder of the run.
LEMMA TimerEffect ==
  ASSUME ObjectTypes, CombatTimerFires
  PROVE  \/ UNCHANGED <<mem, job>>
         \/ /\ job' \in Jobs /\ job' # None /\ job'.slot = "timer" /\ job'.op = "submit"
            /\ job'.step = "resolve" /\ job'.stored
            /\ mem \in Instances /\ mem.phase = "combat_planning"
            /\ mem' \in Instances /\ mem' = job'.inst /\ mem'.phase = "combat_resolving"
            /\ mem'.room = mem.room /\ mem'.round = mem.round
<1>1. CASE mem # None /\ mem.phase = "combat_planning"
  <2> DEFINE i == [mem EXCEPT !.phase = "combat_resolving"]
             j == [slot |-> "timer", op |-> "submit", step |-> "resolve", inst |-> i, stored |-> TRUE]
  <2>1. mem \in Instances /\ "combat_resolving" \in Phases
      BY <1>1 DEF ObjectTypes, Phases
  <2>2. i \in Instances /\ i.phase = "combat_resolving" /\ i.room = mem.room /\ i.round = mem.round
      BY <2>1, InstanceUpdates
  <2>3. mem' = i /\ job' = j
      BY <1>1 DEF CombatTimerFires
  <2> HIDE DEF i
  <2>4. j \in Jobs /\ j.slot = "timer" /\ j.op = "submit" /\ j.step = "resolve" /\ j.stored
        /\ j.inst = i
      BY <2>2 DEF Jobs, Posts, Steps
  <2> QED
      BY <1>1, <2>1, <2>2, <2>3, <2>4, NoneAssumption
<1>2. CASE ~(mem # None /\ mem.phase = "combat_planning")
    BY <1>2 DEF CombatTimerFires
<1> QED
    BY <1>1, <1>2

LEMMA DistTimerEffect ==
  ASSUME ObjectTypes, DistTimerFires
  PROVE  \/ UNCHANGED <<mem, job, untimed>>
         \/ /\ job' \in Jobs /\ job' # None /\ job'.slot = "timer" /\ job'.op = "confirm"
            /\ job'.step = "get" /\ untimed'
            /\ mem \in Instances /\ mem.phase = "distributing"
            /\ mem' \in Instances /\ mem'.phase = "distributing" /\ mem'.room = mem.room
<1>1. CASE mem # None /\ mem.phase = "distributing"
  <2> DEFINE i == [mem EXCEPT !.assigned = Items]
             j == [slot |-> "timer", op |-> "confirm", step |-> "get", inst |-> None, stored |-> FALSE]
  <2>1. mem \in Instances
      BY <1>1 DEF ObjectTypes
  <2>2. i \in Instances /\ i.phase = "distributing" /\ i.room = mem.room
      BY <1>1, <2>1 DEF Instances
  <2>3. mem' = i /\ job' = j /\ untimed'
      BY <1>1 DEF DistTimerFires
  <2> HIDE DEF i
  <2>4. j \in Jobs /\ j.slot = "timer" /\ j.op = "confirm" /\ j.step = "get"
      BY DEF Jobs, Posts, Steps
  <2> QED
      BY <1>1, <2>1, <2>2, <2>3, <2>4, NoneAssumption
<1>2. CASE ~(mem # None /\ mem.phase = "distributing")
    BY <1>2 DEF DistTimerFires
<1> QED
    BY <1>1, <1>2

LEMMA AcceptEffect ==
  ASSUME ObjectTypes, NetTypes, NEW s \in Slots, Accept(s)
  PROVE  /\ job' \in Jobs /\ job' # None /\ job'.slot = s /\ s # "poll" /\ job'.op = req[s]
         /\ job'.step = "get" /\ mem' = mem
<1>1. job' = [slot |-> s, op |-> req[s], step |-> "get", inst |-> None, stored |-> FALSE]
    BY DEF Accept
<1>2. s # "poll"
    BY NoneAssumption DEF Accept, NetTypes, PollGets, Posts
<1>3. job' \in Jobs /\ job'.slot = s /\ job'.op = req[s] /\ job'.step = "get"
    BY <1>1 DEF Jobs, Steps, Accept
<1> QED
    BY <1>2, <1>3, NoneAssumption DEF Accept

\* Storing what GET has read takes the run from its holder.
LEMMA StoreEffect ==
  ASSUME ObjectTypes, RestTypes, NEW s \in Slots, Store(s)
  PROVE  /\ mem' = reader /\ mem' \in Instances /\ reader' = None
         /\ NoJob => job' = job
         /\ ~NoJob => /\ job' \in Jobs /\ job' # None /\ job'.slot = job.slot /\ job'.op = job.op
                      /\ job'.step = job.step /\ job'.inst = job.inst
         /\ ~raced' => /\ ~raced /\ mem = None /\ reader = db.ckpt /\ db.status \in Recoverable
                       /\ ~NoJob => job.step = "get"
<1>1. reader \in Instances
    BY DEF Store, RestTypes
<1>2. ASSUME ~NoJob
      PROVE  /\ job' \in Jobs /\ job' # None /\ job'.slot = job.slot /\ job'.op = job.op
             /\ job'.step = job.step /\ job'.inst = job.inst
  <2>1. job \in Jobs /\ job' = [job EXCEPT !.stored = FALSE]
      BY <1>2 DEF Store, ObjectTypes, NoJob
  <2>2. job' \in Jobs /\ job'.slot = job.slot /\ job'.op = job.op
        /\ job'.step = job.step /\ job'.inst = job.inst
      BY <2>1 DEF Jobs
  <2> QED
      BY <2>2, NoneAssumption
<1> QED
    BY <1>1, <1>2 DEF Store

\* Every step of the server keeps the three parts of the type invariant.
LEMMA ObjectStep == ObjectTypes /\ NetTypes /\ RestTypes /\ ServerStep => ObjectTypes'
<1> SUFFICES ASSUME ObjectTypes, NetTypes, RestTypes, ServerStep
             PROVE  ObjectTypes'
    OBVIOUS
<1>n. ASSUME job' = None, mem' \in Instances \cup {None}
      PROVE  ObjectTypes'
    BY <1>n DEF ObjectTypes, JobShape, NoJob
<1>m. mem \in Instances \cup {None}
    BY DEF ObjectTypes
<1>1. ASSUME NEW s \in Slots, Accept(s)
      PROVE  ObjectTypes'
    BY <1>1, <1>m, AcceptEffect DEF ObjectTypes, JobShape, NoJob
<1>2. ASSUME NEW s \in Slots, Read(s) \/ ReadRow(s) \/ ReadFails(s)
      PROVE  ObjectTypes'
    BY <1>2 DEF Read, ReadRow, ReadFails, ObjectTypes, JobShape, NoJob
<1>3. ASSUME NEW s \in Slots, Store(s)
      PROVE  ObjectTypes'
    BY <1>3, StoreEffect DEF ObjectTypes, JobShape, NoJob
<1>4. CASE Get
    BY <1>4, GetEffect DEF Get, ObjectTypes, JobShape, NoJob
<1>5. CASE Select
  <2>1. CASE db.status \in Recoverable
      BY <1>5, <2>1, SelectEffect DEF Select, ObjectTypes, RestTypes, JobShape, NoJob
  <2>2. CASE db.status \notin Recoverable
      BY <1>5, <1>n, <1>m, <2>2 DEF Select, Finish
  <2> QED
      BY <2>1, <2>2
<1>6. CASE Put
    BY <1>6, PutEffect DEF Put, ObjectTypes, JobShape, NoJob
<1>7. CASE Recheck
    BY <1>7, RecheckEffect DEF Recheck, ObjectTypes, JobShape, NoJob
<1>8. CASE Move
    BY <1>8, <1>n, <1>m, MoveEffect DEF Goes, Finish, ObjectTypes, JobShape, NoJob
<1>9. CASE Submit
    BY <1>9, <1>n, <1>m, SubmitEffect DEF Submit, Handling, Goes, Finish, ObjectTypes, JobShape, NoJob
<1>10. CASE Retreat
    BY <1>10, RetreatEffect DEF Retreat, Handling, Goes, ObjectTypes, JobShape, NoJob
<1>11. CASE AssignLoot
    BY <1>11, <1>n, <1>m, AssignEffect DEF Goes, Finish, ObjectTypes, JobShape, NoJob
<1>12. CASE Confirm
    BY <1>12, <1>n, <1>m, ConfirmEffect DEF Confirm, Handling, Goes, Finish, ObjectTypes, JobShape, NoJob
<1>13. CASE NextRound
    BY <1>13, NextRoundEffect DEF Goes, ObjectTypes, JobShape, NoJob
<1>14. CASE RoomCleared
    BY <1>14, RoomClearedEffect DEF Goes, ObjectTypes, JobShape, NoJob
<1>15. CASE BossVictory
    BY <1>15, BossVictoryEffect DEF BossVictory, Resolving, Goes, ObjectTypes, JobShape, NoJob
<1>16. CASE PartyWipe
    BY <1>16, PartyWipeEffect DEF PartyWipe, Resolving, Goes, ObjectTypes, JobShape, NoJob
<1>17. CASE Commit
    BY <1>17, CommitEffect DEF Goes, ObjectTypes, JobShape, NoJob, RPCs
<1>18. CASE RpcFails \/ Leave \/ Checkpoint
    BY <1>18, <1>n, <1>m DEF RpcFails, Leave, Checkpoint, Finish
<1>19. CASE CombatTimerFires
    BY <1>19, TimerEffect DEF ObjectTypes, JobShape, NoJob
<1>20. CASE DistTimerFires
    BY <1>20, DistTimerEffect DEF ObjectTypes, JobShape, NoJob
<1>21. CASE Crash \/ Evict \/ Expire
    BY <1>21, <1>n DEF Crash, Evict, Expire, Quiet, ObjectTypes, JobShape, NoJob
<1> QED
    BY <1>1, <1>2, <1>3, <1>4, <1>5, <1>6, <1>7, <1>8, <1>9, <1>10, <1>11, <1>12, <1>13, <1>14,
       <1>15, <1>16, <1>17, <1>18, <1>19, <1>20, <1>21 DEF ServerStep, HandlerStep, ReaderStep

LEMMA NetStep == ObjectTypes /\ NetTypes /\ RestTypes /\ ServerStep => NetTypes'
<1> SUFFICES ASSUME ObjectTypes, NetTypes, RestTypes, ServerStep
             PROVE  NetTypes'
    OBVIOUS
<1> USE RefusalTypes
<1>u. UNCHANGED netVars => NetTypes'
    BY DEF netVars, NetTypes, PollGets
<1>r. ASSUME NEW s \in Slots, NEW a \in Replies, ReplyTo(s, a)
      PROVE  NetTypes'
    BY <1>r DEF ReplyTo, NetTypes, PollGets, Slots
<1>i. /\ ~NoJob /\ job.step # "get" => job.inst \in Instances
      /\ mem # None => mem \in Instances
      /\ reader # None => reader \in Instances
    BY JobTypes DEF ObjectTypes, RestTypes
<1>1. ASSUME NEW s \in Slots, Accept(s)
      PROVE  NetTypes'
    BY <1>1, <1>u DEF Accept
<1>2. ASSUME NEW s \in Slots, Read(s) \/ ReadRow(s) \/ ReadFails(s) \/ Store(s)
      PROVE  NetTypes'
    BY <1>2, <1>u, <1>r, <1>i, InstanceTypes DEF Read, ReadRow, ReadFails, Store
<1>3. CASE Get \/ Put \/ Recheck
    BY <1>3, <1>u DEF Get, Put, Recheck
<1>4. CASE Select
    BY <1>4, <1>u, FinishEffect DEF Select
<1>5. CASE Move \/ Submit \/ Retreat \/ AssignLoot \/ Confirm
    BY <1>5, <1>u, FinishEffect DEF Move, Submit, Retreat, AssignLoot, Confirm, Reject, Handling
<1>6. CASE NextRound \/ RoomCleared \/ BossVictory \/ PartyWipe \/ Commit
    BY <1>6, <1>u DEF NextRound, RoomCleared, BossVictory, PartyWipe, Commit
<1>7. CASE RpcFails
  <2>1. ~NoJob /\ job.inst \in Instances
      BY <1>7, <1>i, GuardedRpcs DEF RpcFails, RPCs
  <2>2. PICK a \in Replies : Finish(a)
      BY <1>7, <2>1, InstanceTypes DEF RpcFails
  <2> QED
      BY <2>1, <2>2, FinishEffect
<1>8. CASE Leave
  <2>1. ~NoJob /\ job.inst \in Instances
      BY <1>8, <1>i DEF Leave
  <2>2. PICK a \in Replies : Finish(a)
      BY <1>8, <2>1, InstanceTypes DEF Leave
  <2> QED
      BY <2>1, <2>2, FinishEffect
<1>9. CASE Checkpoint
  <2>1. ~NoJob /\ job.inst \in Instances
      BY <1>9, <1>i DEF Checkpoint
  <2>2. PICK a \in Replies : Finish(a)
      BY <1>9, <2>1, InstanceTypes DEF Checkpoint
  <2> QED
      BY <2>1, <2>2, FinishEffect
<1>10. CASE CombatTimerFires \/ DistTimerFires \/ Evict \/ Expire
    BY <1>10, <1>u DEF CombatTimerFires, DistTimerFires, Evict, Expire
<1>11. CASE Crash
    BY <1>11 DEF Crash, NetTypes, PollGets, Slots, Replies
<1> QED
    BY <1>1, <1>2, <1>3, <1>4, <1>5, <1>6, <1>7, <1>8, <1>9, <1>10, <1>11
    DEF ServerStep, HandlerStep, ReaderStep

LEMMA RestStep == ObjectTypes /\ NetTypes /\ RestTypes /\ ServerStep => RestTypes'
<1> SUFFICES ASSUME ObjectTypes, NetTypes, RestTypes, ServerStep
             PROVE  RestTypes'
    OBVIOUS
<1>f. Fault \/ faults' = faults => faults' \in 0 .. MaxFaults
    BY BoundsAssumption DEF Fault, RestTypes
<1>i. /\ ~NoJob /\ job.step # "get" => job.inst \in Instances
      /\ mem # None => mem \in Instances
    BY JobTypes DEF ObjectTypes
<1>1. ASSUME NEW s \in Slots, Accept(s)
      PROVE  RestTypes'
    BY <1>1 DEF Accept, RestTypes
<1>2. ASSUME NEW s \in Slots, Read(s)
      PROVE  RestTypes'
    BY <1>2, <1>f, <1>i, WrittenRow DEF Read, RestTypes, ghosts
<1>3. ASSUME NEW s \in Slots, ReadRow(s) \/ ReadFails(s) \/ Store(s)
      PROVE  RestTypes'
  <2>1. CASE ReadRow(s)
      BY <2>1, <1>f DEF ReadRow, RestTypes, ghosts
  <2>2. CASE ReadFails(s)
      BY <2>2, <1>f DEF ReadFails, RestTypes, ghosts
  <2>3. CASE Store(s)
      BY <2>3 DEF Store, RestTypes
  <2> QED
      BY <1>3, <2>1, <2>2, <2>3
<1>4. CASE Get \/ Select \/ Put
  <2>1. CASE Get \/ Select
      BY <2>1 DEF Get, Select, RestTypes, ghosts
  <2>2. CASE Put
      BY <2>2 DEF Put, RestTypes
  <2> QED
      BY <1>4, <2>1, <2>2
<1>5. CASE Recheck
  <2>i. job.inst \in Instances
      BY <1>5, <1>i DEF Recheck
  <2>w. Written(job.inst) \in [status : Statuses, ckpt : Instances, outcomes : 0 .. 2, loots : 0 .. 2]
      BY <2>i, WrittenRow
  <2>1. /\ db' \in [status : Statuses, ckpt : Instances, outcomes : 0 .. 2, loots : 0 .. 2]
        /\ dirty' \in BOOLEAN /\ faults' \in 0 .. MaxFaults
      BY <1>5, <1>f, <2>w DEF Recheck, RestTypes
  <2> QED
      BY <1>5, <2>1 DEF Recheck, RestTypes, ghosts
<1>6. CASE Move \/ Submit \/ Retreat \/ AssignLoot \/ Confirm
    BY <1>6 DEF Move, Submit, Retreat, AssignLoot, Confirm, RestTypes, ghosts
<1>7. CASE NextRound \/ RoomCleared \/ BossVictory \/ PartyWipe
  <2>1. last' \in Nat
      BY <1>7, <1>i, InstanceTypes
      DEF NextRound, RoomCleared, BossVictory, PartyWipe, Resolving, Resolved
  <2> QED
      BY <1>7, <2>1 DEF NextRound, RoomCleared, BossVictory, PartyWipe, RestTypes
<1>8. CASE Commit
  <2>1. db' \in [status : Statuses, ckpt : Instances, outcomes : 0 .. 2, loots : 0 .. 2]
      BY <1>8, GuardedRpcs, AppliedRow DEF Commit
  <2> QED
      BY <1>8, <2>1 DEF Commit, RestTypes, ghosts
<1>9. CASE RpcFails
    BY <1>9, <1>f DEF RpcFails, RestTypes
<1>10. CASE Leave
    BY <1>10 DEF Leave, RestTypes, ghosts
<1>11. CASE Checkpoint
  <2>i. job.inst \in Instances
      BY <1>11, <1>i DEF Checkpoint
  <2>w. Written(job.inst) \in [status : Statuses, ckpt : Instances, outcomes : 0 .. 2, loots : 0 .. 2]
      BY <2>i, WrittenRow
  <2>1. /\ db' \in [status : Statuses, ckpt : Instances, outcomes : 0 .. 2, loots : 0 .. 2]
        /\ dirty' \in BOOLEAN /\ faults' \in 0 .. MaxFaults
      BY <1>11, <1>f, <2>w DEF Checkpoint, RestTypes
  <2> QED
      BY <1>11, <2>1 DEF Checkpoint, RestTypes
<1>12. CASE CombatTimerFires \/ DistTimerFires
    BY <1>12 DEF CombatTimerFires, DistTimerFires, RestTypes, ghosts
<1>13. CASE Crash \/ Evict
  <2>1. CASE Crash
      BY <2>1, <1>f DEF Crash, RestTypes
  <2>2. CASE Evict
      BY <2>2 DEF Evict, RestTypes
  <2> QED
      BY <1>13, <2>1, <2>2
<1>14. CASE Expire
    BY <1>14 DEF Expire, RestTypes, ghosts, Statuses
<1> QED
    BY <1>1, <1>2, <1>3, <1>4, <1>5, <1>6, <1>7, <1>8, <1>9, <1>10, <1>11, <1>12, <1>13, <1>14
    DEF ServerStep, HandlerStep, ReaderStep

\* The page never touches the server's state.
LEMMA ClientFrame ==
  ASSUME ClientStep, faults \in Nat
  PROVE  UNCHANGED serverVars /\ (faults' = faults \/ faults' = faults + 1)
<1>1. ASSUME NEW op \in Posts, Command(op)
      PROVE  UNCHANGED <<serverVars, faults>>
    BY <1>1 DEF Command
<1>2. CASE CommandAnswered \/ CountdownExpires \/ AutoAnswered \/ FallbackAnswered
           \/ Validate \/ ValidateAnswered \/ RecoverAnswered
    BY <1>2 DEF CommandAnswered, CountdownExpires, AutoAnswered, FallbackAnswered,
                Validate, ValidateAnswered, RecoverAnswered
<1>3. CASE Reload
    BY <1>3 DEF Reload, Fault
<1>4. ASSUME NEW s \in Slots, Drop(s)
      PROVE  UNCHANGED serverVars /\ faults' = faults + 1
    BY <1>4 DEF Drop, Fault
<1> QED
    BY <1>1, <1>2, <1>3, <1>4 DEF ClientStep

LEMMA CallTypes ==
  ASSUME NetTypes, ClientTypes, NEW s \in Slots, NEW what \in Purposes, NEW op \in Posts \cup {"get"},
         Call(s, what, op), s = "poll" => op = "get"
  PROVE  /\ req' \in [Slots -> Posts \cup {"get", None}]
         /\ PollGets'
         /\ doing' \in [Slots -> Purposes \cup {None}]
BY DEF Call, NetTypes, ClientTypes, PollGets, Slots

LEMMA TakeTypes ==
  ASSUME NetTypes, ClientTypes, NEW s \in Slots, Take(s)
  PROVE  /\ resp' \in [Slots -> Replies \cup {None}]
         /\ doing' \in [Slots -> Purposes \cup {None}]
BY DEF Take, NetTypes, ClientTypes

\* An answer that holds a state holds a view.
LEMMA StateView == \A a \in Replies : a.kind = "state" => a.view \in Views
BY DEF Replies

LEMMA ApplyTypes ==
  ASSUME ClientTypes, NEW v \in Views, ApplyState(v)
  PROVE  /\ runId' \in BOOLEAN /\ saved' \in BOOLEAN /\ view' \in Views
         /\ countdown' \in BOOLEAN /\ fired' \in BOOLEAN
<1>1. countdown' \in BOOLEAN
    BY DEF ApplyState
<1> QED
    BY <1>1 DEF ApplyState, ClientTypes

LEMMA ClearTypes ==
  ASSUME ClientTypes, Clear
  PROVE  /\ runId' \in BOOLEAN /\ saved' \in BOOLEAN /\ view' \in Views \cup {None}
         /\ countdown' \in BOOLEAN /\ fired' \in BOOLEAN /\ submitting' \in BOOLEAN
BY DEF Clear, ClientTypes

\* The page's steps keep its own types and the network's.
LEMMA PageStep == NetTypes /\ ClientTypes /\ ClientStep => NetTypes' /\ ClientTypes'
<1> SUFFICES ASSUME NetTypes, ClientTypes, ClientStep
             PROVE  NetTypes' /\ ClientTypes'
    OBVIOUS
<1>p. Posts \subseteq Purposes /\ {"auto", "fallback", "validate", "recover"} \subseteq Purposes
      /\ "submit" \in Posts
    BY DEF Purposes, Posts
<1>s. {"cmd", "auto", "poll"} = Slots
    BY DEF Slots
<1>r. \A s \in Slots : resp[s] # None => resp[s] \in Replies
    BY DEF NetTypes
<1>v. \A s \in Slots : resp[s] # None /\ resp[s].kind = "state" => resp[s].view \in Views
    BY <1>r, StateView
<1>q. req' = req => req' \in [Slots -> Posts \cup {"get", None}] /\ PollGets'
    BY DEF NetTypes, PollGets
<1>1. ASSUME NEW op \in Posts, Command(op)
      PROVE  NetTypes' /\ ClientTypes'
  <2>1. Call("cmd", op, op) /\ "cmd" \in Slots /\ op \in Purposes /\ op \in Posts \cup {"get"}
      BY <1>1, <1>p, <1>s DEF Command
  <2> QED
      BY <1>1, <2>1, CallTypes DEF Command, NetTypes, ClientTypes
<1>2. CASE CommandAnswered
  <2>1. Take("cmd") /\ "cmd" \in Slots /\ req' = req
      BY <1>2, <1>s DEF CommandAnswered
  <2>2. NetTypes' /\ doing' \in [Slots -> Purposes \cup {None}]
      BY <1>q, <2>1, TakeTypes DEF NetTypes
  <2>3. PICK op \in Posts :
          /\ resp["cmd"] # None
          /\ \/ Clear
             \/ /\ resp["cmd"].kind = "state" /\ ApplyState(resp["cmd"].view)
                /\ submitting' = (submitting /\ op # "submit")
             \/ /\ submitting' = (submitting /\ op # "submit")
                /\ UNCHANGED <<runId, saved, view, countdown, fired>>
      BY <1>2 DEF CommandAnswered, Arrived
  <2> QED
      BY <1>v, <2>1, <2>2, <2>3, ClearTypes, ApplyTypes DEF ClientTypes
<1>3. CASE CountdownExpires
  <2>1. CASE ~fired /\ ~submitting /\ runId /\ view.phase = "combat_planning"
    <3>1. Call("auto", "auto", "submit") /\ "auto" \in Slots /\ "auto" \in Purposes
          /\ "submit" \in Posts \cup {"get"}
        BY <1>3, <2>1, <1>p, <1>s DEF CountdownExpires
    <3> QED
        BY <1>3, <2>1, <3>1, CallTypes DEF CountdownExpires, NetTypes, ClientTypes
  <2>2. CASE ~(~fired /\ ~submitting /\ runId /\ view.phase = "combat_planning")
      BY <1>3, <1>q, <2>2 DEF CountdownExpires, NetTypes, ClientTypes
  <2> QED
      BY <2>1, <2>2
<1>4. CASE AutoAnswered
  <2>1. CASE Take("auto") /\ UNCHANGED req
    <3>1. NetTypes' /\ doing' \in [Slots -> Purposes \cup {None}]
        BY <1>q, <1>s, <2>1, TakeTypes DEF NetTypes
    <3>2. resp["auto"] # None
          /\ (Clear \/ (/\ resp["auto"].kind = "state" /\ ApplyState(resp["auto"].view)
                        /\ submitting' = FALSE) \/ UNCHANGED client)
        BY <1>4 DEF AutoAnswered, Arrived
    <3> QED
        BY <1>v, <1>s, <3>1, <3>2, ClearTypes, ApplyTypes DEF ClientTypes, client
  <2>2. CASE /\ resp' = [resp EXCEPT !["auto"] = None]
             /\ doing' = [doing EXCEPT !["auto"] = "fallback"]
             /\ req' = [req EXCEPT !["auto"] = "get"]
             /\ UNCHANGED client
      BY <1>p, <2>2 DEF NetTypes, ClientTypes, client, PollGets, Slots
  <2> QED
      BY <1>4, <2>1, <2>2 DEF AutoAnswered
<1>5. CASE FallbackAnswered
  <2>1. NetTypes' /\ doing' \in [Slots -> Purposes \cup {None}] /\ resp["auto"] # None
      BY <1>5, <1>q, <1>s, TakeTypes DEF NetTypes, FallbackAnswered, Arrived
  <2> QED
      BY <1>5, <1>v, <1>s, <2>1, ApplyTypes DEF FallbackAnswered, ClientTypes
<1>6. CASE Validate
  <2>1. Call("poll", "validate", "get") /\ "poll" \in Slots /\ "validate" \in Purposes
      BY <1>6, <1>p, <1>s DEF Validate
  <2> QED
      BY <1>6, <2>1, CallTypes DEF Validate, NetTypes, ClientTypes, client
<1>7. CASE ValidateAnswered
  <2>1. NetTypes' /\ doing' \in [Slots -> Purposes \cup {None}] /\ resp["poll"] # None
      BY <1>7, <1>q, <1>s, TakeTypes DEF NetTypes, ValidateAnswered, Arrived
  <2>2. \/ Clear
        \/ resp["poll"].kind = "state" /\ ApplyState(resp["poll"].view) /\ UNCHANGED submitting
        \/ UNCHANGED client
      BY <1>7 DEF ValidateAnswered
  <2> QED
      BY <1>v, <1>s, <2>1, <2>2, ClearTypes, ApplyTypes DEF ClientTypes, client
<1>8. CASE Reload
  <2>1. req' \in [Slots -> Posts \cup {"get", None}] /\ PollGets'
      BY <1>8, <1>s DEF Reload, NetTypes, PollGets
  <2>2. doing' \in [Slots -> Purposes \cup {None}]
      BY <1>8, <1>p DEF Reload
  <2>3. resp' \in [Slots -> Replies \cup {None}]
      BY <1>8 DEF Reload
  <2> QED
      BY <1>8, <2>1, <2>2, <2>3 DEF Reload, NetTypes, ClientTypes
<1>9. CASE RecoverAnswered
  <2>1. NetTypes' /\ doing' \in [Slots -> Purposes \cup {None}] /\ resp["poll"] # None
      BY <1>9, <1>q, <1>s, TakeTypes DEF NetTypes, RecoverAnswered, Arrived
  <2> QED
      BY <1>9, <1>v, <1>s, <2>1, ApplyTypes DEF RecoverAnswered, ClientTypes
<1>10. ASSUME NEW s \in Slots, Drop(s)
       PROVE  NetTypes' /\ ClientTypes'
  <2>1. [kind |-> "neterr"] \in Replies
      BY DEF Replies
  <2> QED
      BY <1>10, <1>q, <2>1 DEF Drop, NetTypes, ClientTypes, client
<1> QED
    BY <1>1, <1>2, <1>3, <1>4, <1>5, <1>6, <1>7, <1>8, <1>9, <1>10 DEF ClientStep

LEMMA RestFrame == RestTypes /\ UNCHANGED serverVars /\ faults' \in 0 .. MaxFaults => RestTypes'
BY DEF RestTypes, serverVars

LEMMA TypeStep == TypeInv /\ [Next]_allVars => TypeInv'
<1> SUFFICES ASSUME TypeInv, [Next]_allVars
             PROVE  TypeInv'
    OBVIOUS
<1>t. ObjectTypes /\ NetTypes /\ RestTypes /\ ClientTypes
    BY TypeParts
<1>1. CASE ServerStep /\ UNCHANGED <<client, doing>>
  <2>1. ObjectTypes' /\ NetTypes' /\ RestTypes'
      BY <1>t, <1>1, ObjectStep, NetStep, RestStep
  <2>2. ClientTypes'
      BY <1>t, <1>1 DEF ClientTypes, client
  <2> QED
      BY <2>1, <2>2 DEF TypeInv, ObjectTypes, NetTypes, RestTypes, ClientTypes, ClientTypeOK, TypeOK
<1>2. CASE ClientStep
  <2>1. UNCHANGED serverVars
      BY <1>t, <1>2, ClientFrame, BoundsAssumption DEF RestTypes
  <2>2. faults' \in 0 .. MaxFaults
      BY <1>t, <1>2, BoundsAssumption
      DEF RestTypes, ClientStep, Command, CommandAnswered, CountdownExpires, AutoAnswered,
          FallbackAnswered, Validate, ValidateAnswered, RecoverAnswered, Reload, Drop, Fault
  <2>3. ObjectTypes' /\ RestTypes'
      BY <1>t, <2>1, <2>2, RestFrame DEF ObjectTypes, JobShape, NoJob, serverVars
  <2>4. NetTypes' /\ ClientTypes'
      BY <1>t, <1>2, PageStep
  <2> QED
      BY <2>3, <2>4 DEF TypeInv, ObjectTypes, NetTypes, RestTypes, ClientTypes, ClientTypeOK, TypeOK
<1>3. CASE UNCHANGED allVars
    BY <1>3 DEF allVars, vars, client, TypeInv, ClientTypeOK, TypeOK, JobShape, PollGets, NoJob
<1> QED
    BY <1>1, <1>2, <1>3 DEF Next

LEMMA EntranceType == Entrance \in Instances
BY BoundsAssumption DEF Entrance, Instances, Phases

LEMMA TypeInit == ClientInit => TypeInv
<1> SUFFICES ASSUME ClientInit
             PROVE  TypeInv
    OBVIOUS
<1>1. ObjectTypes
    BY EntranceType DEF ClientInit, Init, ObjectTypes, JobShape, NoJob
<1>2. NetTypes
    BY DEF ClientInit, Init, NetTypes, PollGets, Slots
<1>3. RestTypes
  <2>1. db \in [status : Statuses, ckpt : Instances, outcomes : 0 .. 2, loots : 0 .. 2]
      BY EntranceType DEF ClientInit, Init, Statuses, Recoverable, Running
  <2>2. faults \in 0 .. MaxFaults /\ last \in Nat
      BY BoundsAssumption DEF ClientInit, Init
  <2> QED
      BY <2>1, <2>2 DEF ClientInit, Init, RestTypes
<1>4. ClientTypes
    BY EntranceType, InstanceTypes DEF ClientInit, ClientTypes
<1> QED
    BY <1>1, <1>2, <1>3, <1>4, TypeParts

\* Every variable of the server and of the page keeps its type, and the holder
\* of the run's lock is at a step that fits its request and its object's phase.
THEOREM TypeCorrect == Spec => []TypeInv
BY TypeInit, TypeStep, PTL DEF Spec

\* Every variable of the server and of the page keeps its type.
THEOREM PageTypes == Spec => []ClientTypeOK
<1>1. TypeInv => ClientTypeOK
    BY DEF TypeInv
<1> QED
    BY <1>1, TypeCorrect, PTL

\* combatSubmitting is on only while a submission, or the GET after a failed
\* one, is under way (DungeonStateManager.ts): no interleaving of commands,
\* countdown, answers and reloads leaves the page unable to submit.
THEOREM SubmittingWaits == Spec => []SubmittingMeansWaiting
<1>1. ClientInit => SubmittingMeansWaiting
    BY DEF ClientInit, SubmittingMeansWaiting
<1>2. TypeInv /\ SubmittingMeansWaiting /\ [Next]_allVars => SubmittingMeansWaiting'
  <2> SUFFICES ASSUME TypeInv, SubmittingMeansWaiting, [Next]_allVars
               PROVE  SubmittingMeansWaiting'
      OBVIOUS
  <2>d. doing \in [Slots -> Purposes \cup {None}] /\ Slots = {"cmd", "auto", "poll"}
      BY DEF TypeInv, ClientTypeOK, Slots
  <2>n. None # "auto" /\ None # "fallback" /\ \A op \in Posts : None # op
      BY NoPurposeAssumption DEF Purposes
  <2>1. CASE ServerStep /\ UNCHANGED <<client, doing>>
      BY <2>1 DEF SubmittingMeansWaiting, client
  <2>2. ASSUME NEW op \in Posts, Command(op)
        PROVE  SubmittingMeansWaiting'
    <3>1. doing["cmd"] = None /\ doing' = [doing EXCEPT !["cmd"] = op]
        BY <2>2 DEF Command, Call
    <3>2. doing'["cmd"] = op /\ doing'["auto"] = doing["auto"]
        BY <3>1, <2>d
    <3>3. CASE op = "submit"
        BY <3>2, <3>3 DEF SubmittingMeansWaiting
    <3>4. CASE op # "submit"
      <4>1. submitting' <=> submitting
          BY <2>2, <3>4 DEF Command
      <4> QED
          BY <3>1, <3>2, <4>1, NoPurposeAssumption DEF SubmittingMeansWaiting, Purposes, Posts
    <3> QED
        BY <3>3, <3>4
  <2>3. CASE CommandAnswered
    <3>1. PICK op \in Posts :
            /\ doing["cmd"] = op
            /\ Take("cmd")
            /\ submitting' = FALSE \/ submitting' = (submitting /\ op # "submit")
        BY <2>3 DEF CommandAnswered, Arrived, Clear
    <3> QED
        BY <3>1, <2>d DEF Take, SubmittingMeansWaiting
  <2>4. CASE CountdownExpires
    <3>1. CASE ~fired /\ ~submitting /\ runId /\ view.phase = "combat_planning"
        BY <2>4, <3>1, <2>d, <2>n DEF CountdownExpires, Call, SubmittingMeansWaiting
    <3>2. CASE ~(~fired /\ ~submitting /\ runId /\ view.phase = "combat_planning")
        BY <2>4, <3>2 DEF CountdownExpires, SubmittingMeansWaiting
    <3> QED
        BY <3>1, <3>2
  <2>5. CASE AutoAnswered
      BY <2>5, <2>d, <2>n DEF AutoAnswered, Clear, SubmittingMeansWaiting
  <2>6. CASE FallbackAnswered
      BY <2>6 DEF FallbackAnswered, SubmittingMeansWaiting
  <2>7. CASE Validate
      BY <2>7, <2>d DEF Validate, Call, client, SubmittingMeansWaiting
  <2>8. CASE ValidateAnswered
      BY <2>8, <2>d DEF ValidateAnswered, Clear, Take, client, SubmittingMeansWaiting
  <2>9. CASE Reload
      BY <2>9 DEF Reload, SubmittingMeansWaiting
  <2>10. CASE RecoverAnswered
      BY <2>10, <2>d DEF RecoverAnswered, Take, SubmittingMeansWaiting
  <2>11. ASSUME NEW s \in Slots, Drop(s)
         PROVE  SubmittingMeansWaiting'
      BY <2>11 DEF Drop, client, SubmittingMeansWaiting
  <2>12. CASE UNCHANGED allVars
      BY <2>12 DEF allVars, client, SubmittingMeansWaiting
  <2> QED
      BY <2>1, <2>2, <2>3, <2>4, <2>5, <2>6, <2>7, <2>8, <2>9, <2>10, <2>11, <2>12
      DEF Next, ClientStep
<1> QED
    BY <1>1, <1>2, TypeCorrect, PTL DEF Spec

\* A step of the system is one of the server's or leaves the server as it was.
LEMMA ServerOrFrame == TypeInv /\ [Next]_allVars => ServerStep \/ UNCHANGED serverVars
<1> SUFFICES ASSUME TypeInv, [Next]_allVars
             PROVE  ServerStep \/ UNCHANGED serverVars
    OBVIOUS
<1>1. faults \in Nat
    BY BoundsAssumption DEF TypeInv, ClientTypeOK, TypeOK
<1>2. CASE ServerStep /\ UNCHANGED <<client, doing>>
    BY <1>2
<1>3. CASE ClientStep
    BY <1>1, <1>3, ClientFrame
<1>4. CASE UNCHANGED allVars
    BY <1>4 DEF allVars, vars, serverVars
<1> QED
    BY <1>2, <1>3, <1>4 DEF Next

\* A GET's steps before it stores change neither memory nor the job.
LEMMA ReaderFrame ==
  ASSUME NEW s \in Slots, Read(s) \/ ReadRow(s) \/ ReadFails(s)
  PROVE  UNCHANGED <<mem, job, combatTimer, distTimer, restored, untimed, torn, raced, last>>
BY DEF Read, ReadRow, ReadFails, ghosts

\* Ghosts that are set stay set: raced here, torn and faults below.
LEMMA Unraced == TypeInv /\ [Next]_allVars /\ ~raced' => ~raced
BY ServerOrFrame
DEF serverVars, ServerStep, HandlerStep, ReaderStep, Accept, Read, ReadRow, ReadFails, Store,
    Get, Select, Put, Recheck, Move, Submit, Retreat, AssignLoot, Confirm,
    NextRound, RoomCleared, BossVictory, PartyWipe, Commit, RpcFails, Leave, Checkpoint,
    CombatTimerFires, DistTimerFires, Crash, Evict, Expire, ghosts

\* Every step keeps JobHoldsRun.
LEMMA HoldsStep == TypeInv /\ JobHoldsRun /\ [Next]_allVars => JobHoldsRun'
<1> SUFFICES ASSUME TypeInv, JobHoldsRun, [Next]_allVars
             PROVE  JobHoldsRun'
    OBVIOUS
<1>t. ObjectTypes /\ NetTypes /\ RestTypes
    BY TypeParts
<1>n. job' = None => JobHoldsRun'
    BY DEF JobHoldsRun, NoJob
<1>r. ~raced' => ~raced
    BY Unraced
<1>0. CASE UNCHANGED serverVars
    BY <1>0 DEF serverVars, JobHoldsRun, NoJob
<1>1. ASSUME NEW s \in Slots, Accept(s)
      PROVE  JobHoldsRun'
    BY <1>1, <1>t, AcceptEffect DEF JobHoldsRun, NoJob
<1>2. ASSUME NEW s \in Slots, Read(s) \/ ReadRow(s) \/ ReadFails(s)
      PROVE  JobHoldsRun'
  <2>1. UNCHANGED <<mem, job, raced>> /\ (db' = db \/ mem # None)
      BY <1>2, ReaderFrame DEF Read, ReadRow, ReadFails
  <2> QED
      BY <2>1 DEF JobHoldsRun, NoJob
<1>3. ASSUME NEW s \in Slots, Store(s)
      PROVE  JobHoldsRun'
    BY <1>3, <1>t, StoreEffect DEF JobHoldsRun, NoJob
<1>4. CASE Get
    BY <1>4, <1>t, GetEffect DEF JobHoldsRun, NoJob
<1>5. CASE Select
  <2>1. CASE db.status \in Recoverable
    <3>1. mem = None /\ job.step = "get" /\ ~NoJob /\ UNCHANGED <<db, raced>>
        BY <1>5 DEF Select, ghosts
    <3> QED
        BY <1>5, <1>t, <2>1, <3>1, SelectEffect DEF JobHoldsRun, NoJob
  <2>2. CASE db.status \notin Recoverable
      BY <1>5, <1>n, <2>2 DEF Select, Finish
  <2> QED
      BY <2>1, <2>2
<1>6. CASE Put
    BY <1>6, <1>t, PutEffect DEF JobHoldsRun, NoJob
<1>7. CASE Recheck
    BY <1>7, <1>t, RecheckEffect DEF Recheck, ghosts, JobHoldsRun, NoJob
<1>g. ASSUME NEW step \in Steps \ {"get", "put"}, Goes(step), job.step \notin {"get", "put"}
      PROVE  JobHoldsRun'
    BY <1>g, <1>r DEF Goes, JobHoldsRun, NoJob
<1>8. CASE Move
    BY <1>8, <1>t, <1>n, <1>g, MoveEffect DEF Move, Handling, Finish, Steps
<1>9. CASE Submit
    BY <1>9, <1>t, <1>n, <1>g, SubmitEffect DEF Submit, Handling, Finish, Steps
<1>10. CASE Retreat
    BY <1>10, <1>t, <1>n, <1>g, RetreatEffect DEF Retreat, Handling, Finish, Steps
<1>11. CASE AssignLoot
    BY <1>11, <1>t, <1>n, <1>g, AssignEffect DEF AssignLoot, Handling, Finish, Steps
<1>12. CASE Confirm
    BY <1>12, <1>t, <1>n, <1>g, ConfirmEffect DEF Confirm, Handling, Finish, Steps
<1>13. CASE NextRound \/ RoomCleared \/ BossVictory \/ PartyWipe
    BY <1>13, <1>t, <1>g, NextRoundEffect, RoomClearedEffect, BossVictoryEffect, PartyWipeEffect
    DEF NextRound, RoomCleared, BossVictory, PartyWipe, Resolving, Steps
<1>14. CASE Commit
    BY <1>14, <1>t, <1>g, CommitEffect DEF Steps, RPCs
<1>15. CASE RpcFails \/ Leave \/ Checkpoint
    BY <1>15, <1>n DEF RpcFails, Leave, Checkpoint, Finish
<1>16. CASE CombatTimerFires
  <2>1. NoJob
      BY <1>16 DEF CombatTimerFires
  <2> QED
      BY <1>16, <1>n, <1>t, <2>1, TimerEffect DEF JobHoldsRun, NoJob
<1>17. CASE DistTimerFires
  <2>1. NoJob
      BY <1>17 DEF DistTimerFires
  <2> QED
      BY <1>17, <1>n, <1>t, <2>1, DistTimerEffect DEF JobHoldsRun, NoJob
<1>18. CASE Crash \/ Evict \/ Expire
    BY <1>18, <1>n DEF Crash, Evict, Expire, Quiet, NoJob
<1> QED
    BY ServerOrFrame, <1>0, <1>1, <1>2, <1>3, <1>4, <1>5, <1>6, <1>7, <1>8, <1>9, <1>10, <1>11,
       <1>12, <1>13, <1>14, <1>15, <1>16, <1>17, <1>18 DEF ServerStep, HandlerStep, ReaderStep

\* Unless GET came between, the handler's object is the one in memory.
LEMMA Held ==
  ASSUME TypeInv, JobHoldsRun, ~raced, ~NoJob, job.step \notin {"get", "put"}
  PROVE  job \in Jobs /\ mem = job.inst /\ mem \in Instances /\ mem # None /\ job.stored
<1>1. job \in Jobs /\ job.inst \in Instances
    BY TypeParts, JobTypes
<1> QED
    BY <1>1, NoneAssumption DEF JobHoldsRun

LEMMA HeldGoes ==
  ASSUME TypeInv, JobHoldsRun, ~raced, NEW step \in Steps, Goes(step),
         job.step \notin {"get", "put"}
  PROVE  /\ mem = job.inst /\ mem \in Instances /\ mem # None /\ job \in Jobs
         /\ mem' = job'.inst /\ mem' \in Instances /\ mem' # None
         /\ ~NoJob' /\ job' \in Jobs /\ job'.step = step /\ job'.op = job.op
BY Held, NoneAssumption DEF Goes, NoJob

\* Every step keeps StartedInv.
LEMMA StartedStep == TypeInv /\ StartedInv /\ [Next]_allVars => StartedInv'
<1> SUFFICES ASSUME TypeInv, StartedInv, [Next]_allVars
             PROVE  StartedInv'
    OBVIOUS
<1>t. ObjectTypes /\ NetTypes /\ RestTypes
    BY TypeParts
<1>0. CASE UNCHANGED serverVars
    BY <1>0 DEF serverVars, StartedInv, NoJob, Started
<1>n. ASSUME job' = None, mem' = mem \/ mem' = None, reader' = reader \/ reader' = None,
             db'.ckpt = db.ckpt \/ (~NoJob /\ job.step # "get" /\ db'.ckpt = job.inst)
      PROVE  StartedInv'
    BY <1>n DEF StartedInv, NoJob, Started
<1>g. ASSUME NEW step \in Steps, Goes(step), Started(job'.inst), reader' = reader, db'.ckpt = db.ckpt
      PROVE  StartedInv'
    BY <1>g DEF Goes, StartedInv, NoJob, Started
<1>1. ASSUME NEW s \in Slots, Accept(s)
      PROVE  StartedInv'
    BY <1>1, <1>t, AcceptEffect DEF Accept, StartedInv, NoJob, Started
<1>2. ASSUME NEW s \in Slots, Read(s)
      PROVE  StartedInv'
  <2>1. UNCHANGED <<mem, job, reader>> /\ mem \in Instances
      BY <1>2, <1>t DEF Read, ObjectTypes
  <2>2. db'.ckpt \in {db.ckpt, mem}
      BY <1>2, <1>t, <2>1, WrittenRow DEF Read
  <2> QED
      BY <2>1, <2>2, NoneAssumption DEF StartedInv, NoJob, Started
<1>3. ASSUME NEW s \in Slots, ReadRow(s) \/ ReadFails(s)
      PROVE  StartedInv'
    BY <1>3 DEF ReadRow, ReadFails, StartedInv, NoJob, Started
<1>4. ASSUME NEW s \in Slots, Store(s)
      PROVE  StartedInv'
  <2>1. /\ mem' = reader /\ reader # None /\ reader' = None /\ db' = db
        /\ (~NoJob' /\ job'.step # "get") => ~NoJob /\ job.step # "get" /\ job'.inst = job.inst
      BY <1>4, <1>t, StoreEffect DEF Store, NoJob
  <2> QED
      BY <2>1 DEF StartedInv, Started
<1>5. CASE Get
  <2>1. /\ job' # None /\ job'.inst = mem /\ mem' = mem /\ mem # None
        /\ UNCHANGED <<reader, db>>
      BY <1>5, <1>t, GetEffect DEF Get
  <2> QED
      BY <2>1 DEF StartedInv, Started, NoJob
<1>6. CASE Select
  <2>1. CASE db.status \in Recoverable
    <3>1. /\ job' # None /\ job'.inst = db.ckpt /\ mem' = mem /\ UNCHANGED <<reader, db>>
        BY <1>6, <1>t, <2>1, SelectEffect DEF Select
    <3> QED
        BY <3>1 DEF StartedInv, Started, NoJob
  <2>2. CASE db.status \notin Recoverable
      BY <1>6, <1>n, <2>2 DEF Select, Finish
  <2> QED
      BY <2>1, <2>2
<1>7. CASE Put
  <2>1. /\ job' # None /\ job'.inst = job.inst /\ mem' = job.inst /\ UNCHANGED <<reader, db>>
        /\ ~NoJob /\ job.step # "get"
      BY <1>7, <1>t, PutEffect DEF Put
  <2> QED
      BY <2>1 DEF StartedInv, Started, NoJob
<1>8. CASE Recheck
  <2>1. /\ job' # None /\ job'.inst = job.inst /\ mem' = mem /\ reader' = reader
        /\ ~NoJob /\ job.step # "get" /\ job.inst \in Instances
      BY <1>8, <1>t, RecheckEffect DEF Recheck
  <2>2. db'.ckpt \in {db.ckpt, job.inst}
      BY <1>8, <1>t, <2>1, WrittenRow DEF Recheck
  <2> QED
      BY <2>1, <2>2 DEF StartedInv, Started, NoJob
<1>9. CASE Move
  <2>1. CASE Finish(Refused) /\ mem' = mem
      BY <1>9, <1>n, <2>1 DEF Move, Finish
  <2>2. CASE Goes("checkpoint") /\ job'.inst.round = 1
    <3>1. Started(job'.inst)
        BY <2>2 DEF Started
    <3> QED
        BY <1>9, <1>g, <2>2, <3>1 DEF Move, Steps
  <2> QED
      BY <1>9, <1>t, <2>1, <2>2, MoveEffect
<1>10. CASE Submit
    BY <1>10, <1>t, <1>n, <1>g, SubmitEffect DEF Submit, Finish, Started, Steps
<1>11. CASE Retreat
    BY <1>11, <1>t, <1>g, RetreatEffect DEF Retreat, Started, Steps
<1>12. CASE AssignLoot
    BY <1>12, <1>t, <1>n, <1>g, AssignEffect DEF AssignLoot, Finish, Started, Steps
<1>13. CASE Confirm
    BY <1>13, <1>t, <1>n, <1>g, ConfirmEffect DEF Confirm, Finish, Started, Steps
<1>14. CASE NextRound
  <2>1. job.inst.round \in Nat
      BY <1>14, <1>t, JobTypes, InstanceTypes DEF NextRound, Resolving
  <2> QED
    <3>1. Goes("checkpoint") /\ job'.inst.round = job.inst.round + 1
        BY <1>14, <1>t, NextRoundEffect
    <3>2. Started(job'.inst)
        BY <2>1, <3>1 DEF Started
    <3> QED
        BY <1>14, <1>g, <3>1, <3>2 DEF NextRound, Steps
<1>15. CASE RoomCleared \/ BossVictory \/ PartyWipe
    BY <1>15, <1>t, <1>g, RoomClearedEffect, BossVictoryEffect, PartyWipeEffect
    DEF RoomCleared, BossVictory, PartyWipe, Started, Steps
<1>16. CASE Commit
  <2>1. job.step \in RPCs /\ ~NoJob /\ db'.ckpt = db.ckpt /\ reader' = reader
      BY <1>16, <1>t, CommitEffect, AppliedRow DEF Commit
  <2>2. Started(job'.inst)
      BY <1>16, <1>t, <2>1, CommitEffect DEF Started, StartedInv, RPCs
  <2> QED
      BY <1>16, <1>t, <1>g, <2>1, <2>2, CommitEffect DEF Steps
<1>17. CASE RpcFails \/ Leave
    BY <1>17, <1>n DEF RpcFails, Leave, Finish
<1>18. CASE Checkpoint
  <2>1. job.inst \in Instances /\ ~NoJob /\ job.step # "get"
      BY <1>18, <1>t, JobTypes DEF Checkpoint
  <2>2. db'.ckpt \in {db.ckpt, job.inst}
      BY <1>18, <1>t, <2>1, WrittenRow DEF Checkpoint
  <2> QED
      BY <1>18, <1>n, <2>1, <2>2 DEF Checkpoint, Finish
<1>19. CASE CombatTimerFires
  <2>1. UNCHANGED <<reader, db>> /\ NoJob
      BY <1>19 DEF CombatTimerFires
  <2> QED
      BY <1>19, <1>t, <2>1, TimerEffect DEF StartedInv, Started, NoJob
<1>20. CASE DistTimerFires
  <2>1. UNCHANGED <<reader, db>> /\ NoJob
      BY <1>20 DEF DistTimerFires
  <2> QED
      BY <1>20, <1>t, <2>1, DistTimerEffect DEF StartedInv, Started, NoJob
<1>21. CASE Crash \/ Evict \/ Expire
  <2>1. db'.ckpt = db.ckpt
      BY <1>21, <1>t DEF Crash, Evict, Expire, RestTypes
  <2> QED
      BY <1>21, <1>n, <2>1 DEF Crash, Evict, Expire, Quiet, NoJob
<1> QED
    BY ServerOrFrame, <1>0, <1>1, <1>2, <1>3, <1>4, <1>5, <1>6, <1>7, <1>8, <1>9, <1>10, <1>11,
       <1>12, <1>13, <1>14, <1>15, <1>16, <1>17, <1>18, <1>19, <1>20, <1>21
    DEF ServerStep, HandlerStep, ReaderStep

\* Every step keeps SavedInv: only a handler that goes on to its checkpoint
\* changes the object, and a checkpoint that fails marks it dirty.
LEMMA SavedStep == TypeInv /\ JobHoldsRun /\ SavedInv /\ [Next]_allVars => SavedInv'
<1> SUFFICES ASSUME TypeInv, JobHoldsRun, SavedInv, [Next]_allVars, ~raced'
             PROVE  SavedInv'
    BY DEF SavedInv
<1>t. ObjectTypes /\ NetTypes /\ RestTypes
    BY TypeParts
<1>r. ~raced
    BY Unraced
<1>h. ~NoJob /\ job.step \notin {"get", "put"} => mem = job.inst /\ mem \in Instances /\ mem # None
    BY <1>r, Held
<1>0. CASE UNCHANGED serverVars
    BY <1>0 DEF serverVars, SavedInv, NoJob
<1>s. ASSUME mem' = mem, dirty' = dirty, db'.ckpt = db.ckpt, NoJob \/ job.step # "checkpoint"
      PROVE  SavedInv'
    BY <1>s, <1>r DEF SavedInv
<1>p. ASSUME mem' = None \/ mem'.phase \notin {"exploring", "room_clear", "combat_planning"}
      PROVE  SavedInv'
    BY <1>p DEF SavedInv
<1>k. ASSUME mem' = db'.ckpt \/ dirty'
      PROVE  SavedInv'
    BY <1>k DEF SavedInv
<1>c. ASSUME ~NoJob', job'.step = "checkpoint"
      PROVE  SavedInv'
    BY <1>c DEF SavedInv
<1>g. ASSUME NEW step \in Steps, Goes(step), job.step \notin {"get", "put"}
      PROVE  mem' = job'.inst /\ ~NoJob' /\ job'.step = step
    BY <1>g, <1>r, HeldGoes
<1>1. ASSUME NEW s \in Slots, Accept(s)
      PROVE  SavedInv'
    BY <1>1, <1>s DEF Accept
<1>2. ASSUME NEW s \in Slots, Read(s)
      PROVE  SavedInv'
  <2>1. UNCHANGED <<mem, job>> /\ mem \in Instances
      BY <1>2, <1>t DEF Read, ObjectTypes
  <2>2. (dirty' = dirty /\ db' = db) \/ db'.ckpt = mem
      BY <1>2, <1>t, <2>1, WrittenRow DEF Read, RestTypes
  <2> QED
      BY <1>r, <2>1, <2>2 DEF SavedInv, NoJob
<1>3. ASSUME NEW s \in Slots, ReadRow(s) \/ ReadFails(s)
      PROVE  SavedInv'
    BY <1>3, <1>r DEF ReadRow, ReadFails, SavedInv, NoJob
<1>4. ASSUME NEW s \in Slots, Store(s)
      PROVE  SavedInv'
    BY <1>4, <1>t, <1>k, StoreEffect DEF Store
<1>5. CASE Get \/ Select
    BY <1>5, <1>s DEF Get, Select
<1>6. CASE Put
    BY <1>6, <1>r, <1>k DEF Put, JobHoldsRun
<1>7. CASE Recheck
  <2>1. mem' = mem /\ job.inst = mem /\ mem \in Instances /\ job.step = "recheck"
      BY <1>7, <1>h DEF Recheck
  <2>2. (dirty' = dirty /\ db' = db) \/ db'.ckpt = mem
      BY <1>7, <1>t, <2>1, WrittenRow DEF Recheck
  <2> QED
      BY <1>s, <1>k, <2>1, <2>2
<1>8. CASE Move
    BY <1>8, <1>t, <1>s, <1>c, <1>g, MoveEffect DEF Move, Handling, Steps
<1>9. CASE Submit
    BY <1>9, <1>t, <1>s, <1>p, <1>g, SubmitEffect DEF Submit, Handling, Steps
<1>10. CASE Retreat
    BY <1>10, <1>t, <1>p, <1>g, RetreatEffect DEF Retreat, Handling, Steps
<1>11. CASE AssignLoot
    BY <1>11, <1>t, <1>s, <1>c, <1>g, AssignEffect DEF AssignLoot, Handling, Steps
<1>12. CASE Confirm
    BY <1>12, <1>t, <1>s, <1>p, <1>g, ConfirmEffect DEF Confirm, Handling, Steps
<1>13. CASE NextRound \/ RoomCleared \/ BossVictory \/ PartyWipe
    BY <1>13, <1>t, <1>c, <1>p, <1>g, NextRoundEffect, RoomClearedEffect, BossVictoryEffect,
       PartyWipeEffect DEF NextRound, RoomCleared, BossVictory, PartyWipe, Resolving, Steps
<1>14. CASE Commit
    BY <1>14, <1>t, <1>p, <1>g, CommitEffect DEF Steps, RPCs, ObjectTypes, JobShape, Goes
<1>15. CASE RpcFails
  <2>1. mem' = mem /\ ~NoJob /\ job.step \in RPCs
      BY <1>15, GuardedRpcs DEF RpcFails
  <2> QED
      BY <1>t, <1>h, <1>p, <2>1 DEF RPCs, ObjectTypes, JobShape
<1>16. CASE Leave
    BY <1>16, <1>p DEF Leave
<1>17. CASE Checkpoint
  <2>1. mem' = mem /\ job.inst = mem /\ mem \in Instances
      BY <1>17, <1>h DEF Checkpoint
  <2>2. dirty' \/ db'.ckpt = mem
      BY <1>17, <1>t, <2>1, WrittenRow DEF Checkpoint
  <2> QED
      BY <1>k, <2>1, <2>2
<1>18. CASE CombatTimerFires
  <2>1. NoJob /\ UNCHANGED <<dirty, db>>
      BY <1>18 DEF CombatTimerFires
  <2> QED
      BY <1>18, <1>t, <1>s, <1>p, <2>1, TimerEffect
<1>19. CASE DistTimerFires
  <2>1. NoJob /\ UNCHANGED <<dirty, db>>
      BY <1>19 DEF DistTimerFires
  <2> QED
      BY <1>19, <1>t, <1>s, <1>p, <2>1, DistTimerEffect
<1>20. CASE Crash \/ Evict
    BY <1>20, <1>p DEF Crash, Evict
<1>21. CASE Expire
    BY <1>21, <1>t, <1>s DEF Expire, Quiet, RestTypes
<1> QED
    BY ServerOrFrame, <1>0, <1>1, <1>2, <1>3, <1>4, <1>5, <1>6, <1>7, <1>8, <1>9, <1>10, <1>11,
       <1>12, <1>13, <1>14, <1>15, <1>16, <1>17, <1>18, <1>19, <1>20, <1>21
    DEF ServerStep, HandlerStep, ReaderStep

\* Every step keeps TimersInv.
LEMMA TimersStep == TypeInv /\ JobHoldsRun /\ TimersInv /\ [Next]_allVars => TimersInv'
<1> SUFFICES ASSUME TypeInv, JobHoldsRun, TimersInv, [Next]_allVars, ~raced'
             PROVE  TimersInv'
    BY DEF TimersInv
<1>t. ObjectTypes /\ NetTypes /\ RestTypes
    BY TypeParts
<1>r. ~raced
    BY Unraced
<1>h. ~NoJob /\ job.step \notin {"get", "put"} => mem = job.inst /\ mem \in Instances /\ mem # None
    BY <1>r, Held
<1>i. /\ combatTimer => mem # None /\ mem.phase = "combat_planning"
      /\ distTimer => mem # None /\ mem.phase \in {"distributing", "retreated"}
      /\ distTimer => NoJob \/ job.op # "confirm"
      /\ mem # None /\ ~restored =>
           /\ mem.phase = "combat_planning" => combatTimer
           /\ mem.phase = "distributing" =>
                distTimer \/ untimed
                  \/ (~NoJob /\ job.op = "submit" /\ job.step \in {"begin", "checkpoint"})
    BY <1>r DEF TimersInv
<1>0. CASE UNCHANGED serverVars
    BY <1>0 DEF serverVars, TimersInv, NoJob
<1>s. ASSUME UNCHANGED <<mem, combatTimer, distTimer, restored, untimed>>,
             \/ NoJob \/ job.op # "submit" \/ job.step \notin {"begin", "checkpoint"},
             NoJob' \/ (~NoJob /\ job'.op = job.op)
      PROVE  TimersInv'
    BY <1>s, <1>i DEF TimersInv
<1>o. ASSUME mem' = None, ~combatTimer', ~distTimer'
      PROVE  TimersInv'
    BY <1>o DEF TimersInv
<1>g. ASSUME NEW step \in Steps, Goes(step), job.step \notin {"get", "put"}
      PROVE  /\ mem = job.inst /\ mem # None /\ mem' = job'.inst /\ mem' # None
             /\ ~NoJob /\ ~NoJob' /\ job'.step = step /\ job'.op = job.op
    BY <1>g, <1>r, HeldGoes DEF Goes
<1>1. ASSUME NEW s \in Slots, Accept(s)
      PROVE  TimersInv'
  <2>1. /\ UNCHANGED <<mem, combatTimer, restored>> /\ NoJob /\ job'.op = req[s]
        /\ distTimer' <=> distTimer /\ req[s] # "confirm"
        /\ untimed' <=> untimed \/ (distTimer /\ req[s] = "confirm")
      BY <1>1, <1>t, AcceptEffect DEF Accept
  <2> QED
      BY <1>i, <2>1 DEF TimersInv
<1>2. ASSUME NEW s \in Slots, Read(s) \/ ReadRow(s) \/ ReadFails(s)
      PROVE  TimersInv'
    BY <1>2, <1>i, ReaderFrame DEF TimersInv, NoJob
<1>3. ASSUME NEW s \in Slots, Store(s)
      PROVE  TimersInv'
  <2>1. mem = None /\ restored' /\ UNCHANGED <<combatTimer, distTimer>>
      BY <1>3, <1>t, StoreEffect DEF Store
  <2> QED
      BY <1>i, <2>1 DEF TimersInv
<1>4. CASE Get
    BY <1>4, <1>t, <1>s, GetEffect DEF Get, ghosts
<1>5. CASE Select
  <2>1. UNCHANGED <<mem, combatTimer, distTimer, restored, untimed>> /\ job.step = "get" /\ ~NoJob
      BY <1>5 DEF Select, ghosts
  <2>2. job' = None \/ job'.op = job.op
      BY <1>5, <1>t, SelectEffect DEF Select, Finish
  <2> QED
      BY <1>s, <2>1, <2>2 DEF NoJob
<1>6. CASE Put
  <2>1. mem = None /\ restored' /\ UNCHANGED <<combatTimer, distTimer>>
      BY <1>6, <1>r DEF Put, JobHoldsRun
  <2> QED
      BY <1>i, <2>1 DEF TimersInv
<1>7. CASE Recheck
    BY <1>7, <1>t, <1>s, RecheckEffect DEF Recheck, ghosts
<1>8. CASE Move
  <2>1. CASE Finish(Refused) /\ mem' = mem /\ UNCHANGED <<combatTimer, restored>>
      BY <1>8, <1>s, <2>1 DEF Move, Handling, Finish, NoJob
  <2>2. CASE /\ Goes("checkpoint") /\ job.inst.phase \in {"exploring", "room_clear"}
             /\ job'.inst.phase = "combat_planning" /\ combatTimer' /\ ~restored'
    <3>1. mem.phase \in {"exploring", "room_clear"} /\ mem'.phase = "combat_planning"
          /\ mem' # None /\ distTimer' = distTimer
        BY <1>8, <1>g, <2>2 DEF Move, Handling, Steps
    <3> QED
        BY <1>i, <2>2, <3>1 DEF TimersInv
  <2> QED
      BY <1>8, <1>t, <2>1, <2>2, MoveEffect
<1>9. CASE Submit
  <2>1. CASE Finish(Refused) /\ mem' = mem /\ UNCHANGED combatTimer
      BY <1>9, <1>s, <2>1 DEF Submit, Handling, Finish, NoJob, ghosts
  <2>2. CASE /\ Goes("resolve") /\ job.inst.phase = "combat_planning"
             /\ job'.inst.phase = "combat_resolving" /\ ~combatTimer'
    <3>1. mem.phase = "combat_planning" /\ mem'.phase = "combat_resolving"
          /\ mem' # None /\ distTimer' = distTimer
        BY <1>9, <1>g, <2>2 DEF Submit, Handling, Steps
    <3> QED
        BY <1>i, <2>2, <3>1 DEF TimersInv
  <2> QED
      BY <1>9, <1>t, <2>1, <2>2, SubmitEffect
<1>10. CASE Retreat
  <2>1. mem'.phase = "retreated" /\ mem' # None /\ ~combatTimer' /\ distTimer' = distTimer
        /\ ~NoJob' /\ job'.op = "retreat"
      BY <1>10, <1>t, <1>g, RetreatEffect DEF Retreat, Handling, Steps
  <2> QED
      BY <2>1 DEF TimersInv
<1>11. CASE AssignLoot
  <2>1. CASE Finish(Refused) /\ mem' = mem
      BY <1>11, <1>s, <2>1 DEF AssignLoot, Handling, Finish, NoJob, ghosts
  <2>2. CASE /\ Goes("checkpoint") /\ job.inst.phase = "distributing"
             /\ job'.inst.phase = "distributing"
    <3>1. /\ mem.phase = "distributing" /\ mem # None /\ mem'.phase = "distributing" /\ mem' # None
          /\ UNCHANGED <<combatTimer, distTimer, restored, untimed>>
          /\ job.op = "assign" /\ job'.op = "assign"
        BY <1>11, <1>g, <2>2 DEF AssignLoot, Handling, Steps, ghosts
    <3> QED
        BY <1>i, <3>1 DEF TimersInv
  <2> QED
      BY <1>11, <1>t, <2>1, <2>2, AssignEffect
<1>12. CASE Confirm
  <2>1. CASE Finish(Refused) /\ mem' = mem /\ UNCHANGED distTimer
      BY <1>12, <1>s, <2>1 DEF Confirm, Handling, Finish, NoJob, ghosts
  <2>2. CASE Goes("finalize") /\ job'.inst = job.inst /\ ~distTimer'
    <3>1. /\ mem' = mem /\ UNCHANGED <<combatTimer, restored, untimed>>
          /\ job.op = "confirm" /\ job'.op = "confirm" /\ ~NoJob
        BY <1>12, <1>g, <2>2 DEF Confirm, Handling, Steps, ghosts
    <3> QED
        BY <1>i, <2>2, <3>1 DEF TimersInv
  <2> QED
      BY <1>12, <1>t, <2>1, <2>2, ConfirmEffect
<1>13. CASE NextRound \/ RoomCleared \/ BossVictory \/ PartyWipe
  <2>1. job.step = "resolve" /\ ~NoJob /\ job.inst.phase = "combat_resolving" /\ job.op = "submit"
      BY <1>13, <1>t DEF NextRound, RoomCleared, BossVictory, PartyWipe, Resolving, ObjectTypes, JobShape
  <2>2. ~combatTimer /\ ~distTimer
      BY <1>h, <1>i, <2>1
  <2>3. CASE NextRound
    <3>1. mem' # None /\ mem'.phase = "combat_planning" /\ combatTimer' /\ distTimer' = distTimer
        BY <1>t, <1>g, <2>1, <2>3, NextRoundEffect DEF NextRound, Steps
    <3> QED
        BY <2>2, <3>1 DEF TimersInv
  <2>4. CASE RoomCleared \/ PartyWipe
    <3>1. mem' # None /\ mem'.phase \in {"room_clear", "wiped"} /\ UNCHANGED <<combatTimer, distTimer>>
        BY <1>t, <1>g, <2>1, <2>4, RoomClearedEffect, PartyWipeEffect DEF RoomCleared, PartyWipe, Steps
    <3> QED
        BY <2>2, <3>1 DEF TimersInv
  <2>5. CASE BossVictory
    <3>1. /\ mem' # None /\ UNCHANGED <<combatTimer, distTimer>>
          /\ ~NoJob' /\ job'.op = "submit"
          /\ \/ mem'.phase = "completed"
             \/ mem'.phase = "distributing" /\ job'.step = "begin"
        BY <1>t, <1>g, <2>1, <2>5, BossVictoryEffect DEF BossVictory, Steps
    <3> QED
        BY <2>2, <3>1 DEF TimersInv
  <2> QED
      BY <1>13, <2>3, <2>4, <2>5
<1>14. CASE Commit
  <2>1. /\ job.step \in RPCs /\ mem # None /\ mem' # None /\ ~NoJob /\ ~NoJob' /\ job'.op = job.op
        /\ mem'.phase = IF job.step = "finalize" THEN "completed" ELSE mem.phase
        /\ mem = job.inst
        /\ job'.step = IF job.step = "begin" THEN "checkpoint" ELSE "leave"
        /\ UNCHANGED <<combatTimer, distTimer, restored, untimed>>
      BY <1>14, <1>t, <1>g, CommitEffect DEF Commit, Steps, RPCs, ghosts
  <2>2. CASE job.step = "begin"
      BY <1>t, <1>i, <2>1, <2>2 DEF TimersInv, ObjectTypes, JobShape
  <2>3. CASE job.step = "finalize"
      BY <1>t, <1>i, <2>1, <2>3 DEF TimersInv, ObjectTypes, JobShape
  <2>4. CASE job.step \in {"complete", "wipe", "abandon"}
    <3>1. mem.phase \in {"completed", "wiped", "retreated"}
          /\ (job.step = "abandon" => job.op = "retreat")
        BY <1>t, <2>1, <2>4 DEF ObjectTypes, JobShape
    <3>2. mem'.phase = mem.phase
        BY <2>1, <2>4
    <3> QED
        BY <1>i, <2>1, <3>1, <3>2 DEF TimersInv
  <2> QED
      BY <2>1, <2>2, <2>3, <2>4 DEF RPCs
<1>15. CASE RpcFails
  <2>1. /\ UNCHANGED <<mem, combatTimer, distTimer, restored>> /\ job' = None
        /\ untimed' <=> untimed \/ job.step = "begin"
        /\ job.step \in RPCs
      BY <1>15, GuardedRpcs DEF RpcFails, Finish
  <2> QED
      BY <1>i, <2>1 DEF TimersInv, NoJob, RPCs
<1>16. CASE Leave
    BY <1>16, <1>o DEF Leave
<1>17. CASE Checkpoint
  <2> DEFINE begun == job.op = "submit" /\ job.inst.phase = "distributing"
  <2>1. /\ UNCHANGED <<mem, combatTimer>> /\ job' = None /\ mem = job.inst /\ mem # None
        /\ distTimer' <=> distTimer \/ begun
        /\ untimed' <=> untimed /\ ~begun
        /\ restored' <=> restored /\ ~begun
      BY <1>17, <1>h DEF Checkpoint, Finish
  <2> QED
      BY <1>i, <2>1 DEF TimersInv, NoJob
<1>18. CASE CombatTimerFires
  <2>1. NoJob /\ ~combatTimer' /\ UNCHANGED <<distTimer, restored, untimed>>
      BY <1>18 DEF CombatTimerFires, ghosts
  <2>2. CASE mem # None /\ mem.phase = "combat_planning"
    <3>1. mem' # None /\ mem'.phase = "combat_resolving"
      <4>1. mem' = [mem EXCEPT !.phase = "combat_resolving"] /\ mem \in Instances
          BY <1>18, <1>t, <2>2 DEF CombatTimerFires, ObjectTypes
      <4> QED
          BY <4>1, NoneAssumption DEF Instances, Phases
    <3> QED
        BY <1>i, <2>1, <2>2, <3>1 DEF TimersInv
  <2>3. CASE ~(mem # None /\ mem.phase = "combat_planning")
    <3>1. UNCHANGED <<mem, job>>
        BY <1>18, <2>3 DEF CombatTimerFires
    <3> QED
        BY <1>i, <2>1, <2>3, <3>1 DEF TimersInv, NoJob
  <2> QED
      BY <2>2, <2>3
<1>19. CASE DistTimerFires
  <2>1. NoJob /\ ~distTimer' /\ UNCHANGED <<combatTimer, restored>>
      BY <1>19 DEF DistTimerFires
  <2>2. CASE mem # None /\ mem.phase = "distributing"
    <3>1. mem' # None /\ mem'.phase = "distributing" /\ untimed'
      <4>1. mem' = [mem EXCEPT !.assigned = Items] /\ mem \in Instances /\ untimed'
          BY <1>19, <1>t, <2>2 DEF DistTimerFires, ObjectTypes
      <4> QED
          BY <2>2, <4>1, NoneAssumption DEF Instances
    <3> QED
        BY <1>i, <2>1, <2>2, <3>1 DEF TimersInv
  <2>3. CASE ~(mem # None /\ mem.phase = "distributing")
    <3>1. UNCHANGED <<mem, job, untimed>>
        BY <1>19, <2>3 DEF DistTimerFires
    <3> QED
        BY <1>i, <2>1, <2>3, <3>1 DEF TimersInv, NoJob
  <2> QED
      BY <2>2, <2>3
<1>20. CASE Crash \/ Evict
    BY <1>20, <1>o DEF Crash, Evict, Quiet
<1>21. CASE Expire
    BY <1>21, <1>i DEF Expire, ghosts, TimersInv, NoJob
<1> QED
    BY ServerOrFrame, <1>0, <1>1, <1>2, <1>3, <1>4, <1>5, <1>6, <1>7, <1>8, <1>9, <1>10, <1>11,
       <1>12, <1>13, <1>14, <1>15, <1>16, <1>17, <1>18, <1>19, <1>20, <1>21
    DEF ServerStep, HandlerStep, ReaderStep

\* The rounds of a room rank below those of the next.
LEMMA Ranks ==
  ASSUME NEW i \in Instances
  PROVE  /\ Rank(i) = i.room * (MaxRounds + 1) + i.round
         /\ i.room * (MaxRounds + 1) \in Nat
         /\ i.round \in 0 .. MaxRounds
         /\ Rank(i) <= i.room * (MaxRounds + 1) + MaxRounds
         /\ (i.room + 1) * (MaxRounds + 1) = i.room * (MaxRounds + 1) + MaxRounds + 1
<1>1. i.room \in Nat /\ i.round \in 0 .. MaxRounds /\ MaxRounds \in Nat
    BY InstanceTypes, BoundsAssumption
<1> QED
    BY <1>1 DEF Rank

\* Every step keeps RoundsInv.
LEMMA RoundsStep ==
  TypeInv /\ JobHoldsRun /\ StartedInv /\ RoundsInv /\ [Next]_allVars => RoundsInv'
<1> SUFFICES ASSUME TypeInv, JobHoldsRun, StartedInv, RoundsInv, [Next]_allVars, ~raced'
             PROVE  RoundsInv'
    BY DEF RoundsInv
<1>t. ObjectTypes /\ NetTypes /\ RestTypes
    BY TypeParts
<1>r. ~raced
    BY Unraced
<1>m. MaxRounds \in Nat /\ last \in Nat
    BY <1>t, BoundsAssumption DEF RestTypes
<1>h. ~NoJob /\ job.step \notin {"get", "put"} => mem = job.inst /\ mem \in Instances /\ mem # None
    BY <1>r, Held
<1>i. mem # None => /\ last <= mem.room * (MaxRounds + 1) + MaxRounds
                    /\ mem.phase = "combat_planning" => Rank(mem) > last
    BY <1>r DEF RoundsInv
<1>0. CASE UNCHANGED serverVars
    BY <1>0 DEF serverVars, RoundsInv
<1>s. ASSUME UNCHANGED <<mem, last>>
      PROVE  RoundsInv'
    BY <1>s, <1>i DEF RoundsInv
<1>o. ASSUME mem' = None
      PROVE  RoundsInv'
    BY <1>o DEF RoundsInv
<1>k. ASSUME last' = last, mem # None, mem'.room = mem.room, mem'.phase # "combat_planning"
      PROVE  RoundsInv'
    BY <1>k, <1>i DEF RoundsInv
<1>z. ASSUME last' = 0, NEW i \in Instances, mem' = i, Started(i)
      PROVE  RoundsInv'
  <2>1. 0 <= i.room * (MaxRounds + 1) + MaxRounds
      BY <1>m, Ranks
  <2>2. i.phase = "combat_planning" => Rank(i) > 0
      BY <1>m, <1>z, Ranks DEF Started
  <2> QED
      BY <1>z, <2>1, <2>2 DEF RoundsInv
<1>f. ASSUME NEW i \in Instances, mem = i, last' = Rank(i), mem'.room = i.room,
             mem'.phase # "combat_planning"
      PROVE  RoundsInv'
    BY <1>f, Ranks DEF RoundsInv
<1>g. ASSUME NEW step \in Steps, Goes(step), job.step \notin {"get", "put"}
      PROVE  /\ mem = job.inst /\ mem \in Instances /\ mem # None
             /\ mem' = job'.inst /\ mem' \in Instances
    BY <1>g, <1>r, HeldGoes DEF Goes
<1>1. ASSUME NEW s \in Slots, Accept(s)
      PROVE  RoundsInv'
    BY <1>1, <1>s DEF Accept
<1>2. ASSUME NEW s \in Slots, Read(s) \/ ReadRow(s) \/ ReadFails(s)
      PROVE  RoundsInv'
    BY <1>2, <1>s, ReaderFrame
<1>3. ASSUME NEW s \in Slots, Store(s)
      PROVE  RoundsInv'
  <2>1. reader \in Instances /\ mem' = reader /\ last' = 0 /\ Started(reader)
      BY <1>3, <1>t, StoreEffect DEF Store, StartedInv
  <2> QED
      BY <1>z, <2>1
<1>4. CASE Get \/ Select \/ Recheck
    BY <1>4, <1>s DEF Get, Select, Recheck, ghosts
<1>5. CASE Put
  <2>1. job.inst \in Instances /\ mem' = job.inst /\ last' = 0 /\ Started(job.inst)
      BY <1>5, <1>t, JobTypes DEF Put, StartedInv
  <2> QED
      BY <1>z, <2>1
<1>6. CASE Move
  <2>1. CASE mem' = mem
      BY <1>6, <1>s, <2>1 DEF Move
  <2>2. CASE /\ Goes("checkpoint") /\ job'.inst.room = job.inst.room + 1 /\ job'.inst.round = 1
    <3>1. /\ mem \in Instances /\ mem # None /\ mem' \in Instances /\ last' = last
          /\ mem'.room = mem.room + 1 /\ mem'.round = 1
        BY <1>6, <1>g, <2>2 DEF Move, Handling, Steps
    <3>2. mem'.room * (MaxRounds + 1) = mem.room * (MaxRounds + 1) + MaxRounds + 1
        BY <3>1, Ranks
    <3>3. Rank(mem') = mem'.room * (MaxRounds + 1) + 1
        BY <3>1, Ranks
    <3>4. mem.room * (MaxRounds + 1) \in Nat
        BY <3>1, Ranks
    <3>5. last' <= mem'.room * (MaxRounds + 1) + MaxRounds /\ Rank(mem') > last'
        BY <1>m, <1>i, <3>1, <3>2, <3>3, <3>4
    <3> QED
        BY <3>5 DEF RoundsInv, Rank
  <2> QED
      BY <1>6, <1>t, <2>1, <2>2, MoveEffect
<1>7. CASE Submit
    BY <1>7, <1>t, <1>s, <1>k, <1>g, SubmitEffect DEF Submit, Handling, Steps, ghosts
<1>8. CASE Retreat
    BY <1>8, <1>t, <1>k, <1>g, RetreatEffect DEF Retreat, Handling, Steps, ghosts
<1>9. CASE AssignLoot
    BY <1>9, <1>t, <1>s, <1>k, <1>g, AssignEffect DEF AssignLoot, Handling, Steps, ghosts
<1>10. CASE Confirm
    BY <1>10, <1>t, <1>s, <1>g, ConfirmEffect DEF Confirm, Handling, Steps, ghosts
<1>11. CASE NextRound
  <2>1. /\ mem \in Instances /\ mem' \in Instances /\ last' = Rank(mem)
        /\ mem'.room = mem.room /\ mem'.round = mem.round + 1
      BY <1>11, <1>t, <1>g, NextRoundEffect DEF NextRound, Resolving, Resolved, Steps
  <2>2. last' <= mem'.room * (MaxRounds + 1) + MaxRounds
      BY <2>1, Ranks
  <2>3. Rank(mem) = mem.room * (MaxRounds + 1) + mem.round
        /\ Rank(mem') = mem.room * (MaxRounds + 1) + mem.round + 1
        /\ mem.room * (MaxRounds + 1) \in Nat /\ mem.round \in Nat
      BY <1>m, <2>1, Ranks
  <2>4. Rank(mem') > last'
      BY <2>1, <2>3
  <2> QED
      BY <2>2, <2>4 DEF RoundsInv, Rank
<1>12. CASE RoomCleared \/ BossVictory \/ PartyWipe
  <2>1. /\ mem \in Instances /\ last' = Rank(mem) /\ mem'.room = mem.room
        /\ mem'.phase # "combat_planning"
      BY <1>12, <1>t, <1>g, RoomClearedEffect, BossVictoryEffect, PartyWipeEffect
      DEF RoomCleared, BossVictory, PartyWipe, Resolving, Resolved, Steps
  <2> QED
      BY <1>f, <2>1
<1>13. CASE Commit
  <2>1. /\ mem # None /\ mem'.room = mem.room /\ last' = last /\ job.step \in RPCs /\ ~NoJob
        /\ mem'.phase = IF job.step = "finalize" THEN "completed" ELSE job.inst.phase
      BY <1>13, <1>t, <1>g, CommitEffect DEF Commit, Steps, RPCs, ghosts
  <2>2. mem'.phase # "combat_planning"
      BY <1>t, <2>1 DEF ObjectTypes, JobShape, RPCs
  <2> QED
      BY <1>k, <2>1, <2>2
<1>14. CASE RpcFails \/ Checkpoint \/ Expire
    BY <1>14, <1>s DEF RpcFails, Checkpoint, Expire, ghosts
<1>15. CASE Leave \/ Crash \/ Evict
    BY <1>15, <1>o DEF Leave, Crash, Evict
<1>16. CASE CombatTimerFires
  <2>1. last' = last
      BY <1>16 DEF CombatTimerFires, ghosts
  <2> QED
      BY <1>16, <1>t, <1>s, <1>k, <2>1, TimerEffect, NoneAssumption
<1>17. CASE DistTimerFires
  <2>1. last' = last
      BY <1>17 DEF DistTimerFires
  <2> QED
      BY <1>17, <1>t, <1>s, <1>k, <2>1, DistTimerEffect, NoneAssumption
<1> QED
    BY ServerOrFrame, <1>0, <1>1, <1>2, <1>3, <1>4, <1>5, <1>6, <1>7, <1>8, <1>9, <1>10, <1>11,
       <1>12, <1>13, <1>14, <1>15, <1>16, <1>17
    DEF ServerStep, HandlerStep, ReaderStep

\* A step that begins to resolve a round takes it from the planning phase.
LEMMA NewRound ==
  ASSUME TypeInv, JobHoldsRun, [Next]_allVars, ~raced,
         ~NoJob', job'.step = "resolve", NoJob \/ job.step # "resolve"
  PROVE  /\ mem \in Instances /\ mem # None /\ mem.phase = "combat_planning"
         /\ Rank(job'.inst) = Rank(mem)
<1>t. ObjectTypes /\ NetTypes /\ RestTypes
    BY TypeParts
<1>g. ASSUME NEW step \in Steps, Goes(step), job.step \notin {"get", "put"}
      PROVE  mem = job.inst /\ mem \in Instances /\ mem # None
    BY <1>g, HeldGoes DEF Goes
<1>0. ~UNCHANGED serverVars
    BY DEF serverVars, NoJob
<1>1. ASSUME NEW s \in Slots, Accept(s) \/ ReaderStep(s)
      PROVE  FALSE
    BY <1>1, <1>t, AcceptEffect, ReaderFrame, StoreEffect DEF ReaderStep, NoJob
<1>2. ~Get /\ ~Select /\ ~Put /\ ~Recheck
    BY <1>t, GetEffect, SelectEffect, PutEffect, RecheckEffect DEF Select, Finish, NoJob
<1>3. ~Move /\ ~Retreat /\ ~AssignLoot /\ ~Confirm
    BY <1>t, MoveEffect, RetreatEffect, AssignEffect, ConfirmEffect DEF Goes, Finish, NoJob
<1>4. ~NextRound /\ ~RoomCleared /\ ~BossVictory /\ ~PartyWipe
    BY DEF NextRound, RoomCleared, BossVictory, PartyWipe, Resolving
<1>5. ~Commit /\ ~RpcFails /\ ~Leave /\ ~Checkpoint
    BY <1>t, CommitEffect DEF RpcFails, Leave, Checkpoint, Finish, Goes, NoJob
<1>6. ~DistTimerFires /\ ~Crash /\ ~Evict /\ ~Expire
    BY <1>t, DistTimerEffect DEF DistTimerFires, Crash, Evict, Expire, Quiet, NoJob
<1>7. CASE Submit
  <2>1. /\ Goes("resolve") /\ job.inst.phase = "combat_planning"
        /\ job'.inst.room = job.inst.room /\ job'.inst.round = job.inst.round
      BY <1>7, <1>t, SubmitEffect DEF Finish, NoJob
  <2> QED
      BY <1>7, <1>g, <2>1 DEF Submit, Handling, Steps, Rank
<1>8. CASE CombatTimerFires
  <2>1. /\ mem \in Instances /\ mem.phase = "combat_planning" /\ mem' = job'.inst
        /\ mem'.room = mem.room /\ mem'.round = mem.round
      BY <1>8, <1>t, TimerEffect DEF CombatTimerFires, NoJob
  <2> QED
      BY <2>1, NoneAssumption DEF Rank
<1> QED
    BY ServerOrFrame, <1>0, <1>1, <1>2, <1>3, <1>4, <1>5, <1>6, <1>7, <1>8
    DEF ServerStep, HandlerStep

\* Every step keeps LootInv.
LEMMA LootStep == TypeInv /\ JobHoldsRun /\ LootInv /\ [Next]_allVars => LootInv'
<1> SUFFICES ASSUME TypeInv, JobHoldsRun, LootInv, [Next]_allVars, ~raced'
             PROVE  LootInv'
    BY DEF LootInv
<1>t. ObjectTypes /\ NetTypes /\ RestTypes
    BY TypeParts
<1>r. ~raced
    BY Unraced
<1>i. db.loots > 0 =>
        /\ db.loots = 1 /\ db.status = "completed"
        /\ mem # None => ~NoJob /\ job.step = "leave" /\ mem.phase = "completed"
        /\ ~NoJob => job.step \in {"get", "leave"}
    BY <1>r DEF LootInv
<1>0. CASE UNCHANGED serverVars
    BY <1>0 DEF serverVars, LootInv, NoJob
<1>1. CASE Commit
  <2>1. ~NoJob /\ job.step \in RPCs
      BY <1>1, GuardedRpcs DEF Commit
  <2>2. db.loots = 0
      BY <1>t, <1>i, <2>1 DEF RPCs, RestTypes
  <2>3. db' = Applied(job.step)
      BY <1>1 DEF Commit
  <2>4. /\ db'.loots = IF job.step \in {"complete", "finalize"} THEN Once(db.loots) ELSE db.loots
        /\ job.step \in {"complete", "finalize"} => db'.status = "completed"
      BY <1>t, <2>1, <2>3, AppliedRow DEF RPCs
  <2>5. /\ mem' = job'.inst /\ job'.step = (IF job.step = "begin" THEN "checkpoint" ELSE "leave")
        /\ ~NoJob'
        /\ job'.inst.phase = IF job.step = "finalize" THEN "completed" ELSE job.inst.phase
      BY <1>1, <1>t, <1>r, <2>1, CommitEffect, HeldGoes DEF Steps, RPCs
  <2>6. CASE job.step \in {"complete", "finalize"}
    <3>1. db'.loots = 1 /\ db'.status = "completed"
        BY <2>2, <2>4, <2>6 DEF Once
    <3>2. mem'.phase = "completed" /\ job'.step = "leave" /\ ~NoJob'
        BY <1>t, <2>1, <2>5, <2>6 DEF ObjectTypes, JobShape
    <3> QED
        BY <3>1, <3>2 DEF LootInv
  <2>7. CASE job.step \notin {"complete", "finalize"}
      BY <2>2, <2>4, <2>7 DEF LootInv
  <2> QED
      BY <2>6, <2>7
<1>2. ASSUME ServerStep, ~Commit
      PROVE  LootInv'
  <2>1. db'.loots = db.loots
    <3>1. ASSUME NEW i \in Instances
          PROVE  Written(i).loots = db.loots
        BY <1>t, WrittenRow
    <3>2. /\ mem # None => mem \in Instances
          /\ ~NoJob /\ job.step # "get" => job.inst \in Instances
        BY <1>t, JobTypes DEF ObjectTypes
    <3>3. ASSUME NEW s \in Slots, Accept(s) \/ ReaderStep(s)
          PROVE  db'.loots = db.loots
        BY <3>1, <3>2, <3>3 DEF Accept, ReaderStep, Read, ReadRow, ReadFails, Store
    <3>4. CASE Recheck \/ Checkpoint
        BY <3>1, <3>2, <3>4 DEF Recheck, Checkpoint
    <3>5. CASE Expire
        BY <1>t, <3>5 DEF Expire, RestTypes
    <3>6. CASE \/ Get \/ Select \/ Put \/ Move \/ Submit \/ Retreat \/ AssignLoot \/ Confirm
               \/ NextRound \/ RoomCleared \/ BossVictory \/ PartyWipe \/ RpcFails \/ Leave
               \/ CombatTimerFires \/ DistTimerFires \/ Crash \/ Evict
        BY <3>6 DEF Get, Select, Put, Move, Submit, Retreat, AssignLoot, Confirm, NextRound,
             RoomCleared, BossVictory, PartyWipe, RpcFails, Leave, CombatTimerFires,
             DistTimerFires, Crash, Evict
    <3> QED
        BY <1>2, <3>3, <3>4, <3>5, <3>6 DEF ServerStep, HandlerStep
  <2> SUFFICES ASSUME db.loots > 0
               PROVE  /\ db'.status = "completed"
                      /\ mem' # None =>
                           ~NoJob' /\ job'.step = "leave" /\ mem'.phase = "completed"
                      /\ ~NoJob' => job'.step \in {"get", "leave"}
      BY <1>i, <2>1 DEF LootInv
  <2>2. /\ db.status = "completed"
        /\ mem # None => ~NoJob /\ job.step = "leave" /\ mem.phase = "completed" /\ mem \in Instances
        /\ ~NoJob => job.step \in {"get", "leave"}
      BY <1>i, <1>t DEF ObjectTypes
  <2>3. ASSUME NEW s \in Slots, Accept(s)
        PROVE  mem' = mem /\ db' = db /\ mem = None /\ job'.step = "get"
      BY <1>t, <2>2, <2>3, AcceptEffect DEF Accept
  <2>4. ASSUME NEW s \in Slots, ReaderStep(s)
        PROVE  mem' = mem /\ job' = job /\ db'.status = "completed"
    <3>1. ~Store(s)
        BY <1>t, <2>2, StoreEffect DEF Recoverable, Running
    <3>2. mem # None => Written(mem).status = "completed"
        BY <1>t, <2>2, WrittenRow DEF StatusOf
    <3> QED
        BY <2>2, <2>4, <3>1, <3>2 DEF ReaderStep, Read, ReadRow, ReadFails
  <2>5. CASE Select
      BY <2>2, <2>5 DEF Select, Finish, Recoverable, Running, NoJob
  <2>6. CASE Leave
      BY <2>2, <2>6 DEF Leave, Finish, NoJob
  <2>7. CASE CombatTimerFires \/ DistTimerFires
    <3>1. mem = None /\ UNCHANGED <<mem, job, db>>
        BY <2>2, <2>7 DEF CombatTimerFires, DistTimerFires
    <3> QED
        BY <2>2, <3>1 DEF NoJob
  <2>8. CASE Crash \/ Evict
      BY <2>2, <2>8 DEF Crash, Evict, NoJob, Quiet
  <2>9. ~Expire
      BY <2>2 DEF Expire, Running
  <2>10. ~Get /\ ~Put /\ ~Recheck /\ ~Move /\ ~Submit /\ ~Retreat /\ ~AssignLoot /\ ~Confirm
         /\ ~NextRound /\ ~RoomCleared /\ ~BossVictory /\ ~PartyWipe /\ ~RpcFails /\ ~Checkpoint
      BY <2>2, GuardedRpcs DEF Get, Put, Recheck, Move, Submit, Retreat, AssignLoot, Confirm, Handling,
         NextRound, RoomCleared, BossVictory, PartyWipe, Resolving, RpcFails, Checkpoint, RPCs
  <2> QED
      BY <1>2, <2>2, <2>3, <2>4, <2>5, <2>6, <2>7, <2>8, <2>9, <2>10
      DEF ServerStep, HandlerStep, NoJob
<1> QED
    BY ServerOrFrame, <1>0, <1>1, <1>2

\* Every step keeps LeaveClosed.
LEMMA LeaveStep == TypeInv /\ JobHoldsRun /\ LeaveClosed /\ [Next]_allVars => LeaveClosed'
<1> SUFFICES ASSUME TypeInv, JobHoldsRun, LeaveClosed, [Next]_allVars,
                    ~raced', ~NoJob', job'.step = "leave"
             PROVE  db'.status \in {"completed", "wiped", "abandoned"}
    BY DEF LeaveClosed
<1>t. ObjectTypes /\ NetTypes /\ RestTypes
    BY TypeParts
<1>r. ~raced
    BY Unraced
<1>g. ASSUME NEW step \in Steps \ {"leave"}, Goes(step)
      PROVE  FALSE
    BY <1>g DEF Goes
<1>0. CASE UNCHANGED serverVars
    BY <1>0, <1>r DEF serverVars, LeaveClosed, NoJob
<1>1. CASE Commit
  <2>1. job.step \in RPCs /\ job.step # "begin" /\ db' = Applied(job.step)
      BY <1>1, <1>t, <1>g, CommitEffect DEF Commit, Steps
  <2> QED
      BY <1>t, <2>1, AppliedRow DEF RPCs
<1>2. ASSUME NEW s \in Slots, ReaderStep(s)
      PROVE  db'.status \in {"completed", "wiped", "abandoned"}
  <2>1. ~Store(s)
      BY <1>t, StoreEffect DEF NoJob
  <2>2. Read(s) \/ ReadRow(s) \/ ReadFails(s)
      BY <1>2, <2>1 DEF ReaderStep
  <2>3. job' = job
      BY <2>2, ReaderFrame
  <2>4. ~NoJob /\ job.step = "leave"
      BY <2>3 DEF NoJob
  <2>5. mem \in Instances /\ mem.phase \in {"completed", "wiped", "retreated"}
      BY <1>t, <1>r, <2>4, Held DEF ObjectTypes, JobShape
  <2>6. Written(mem).status \in {"completed", "wiped", "abandoned"}
      BY <1>t, <2>5, WrittenRow DEF StatusOf
  <2>7. db.status \in {"completed", "wiped", "abandoned"}
      BY <1>r, <2>4 DEF LeaveClosed
  <2> QED
      BY <2>2, <2>6, <2>7 DEF Read, ReadRow, ReadFails
<1>3. ASSUME NEW s \in Slots, Accept(s)
      PROVE  FALSE
    BY <1>t, <1>3, AcceptEffect
<1>4. ~Get /\ ~Select /\ ~Put /\ ~Recheck
    BY <1>t, GetEffect, SelectEffect, PutEffect, RecheckEffect DEF Select, Finish, NoJob
<1>5. ~Move /\ ~Submit /\ ~Retreat /\ ~AssignLoot /\ ~Confirm
    BY <1>t, <1>g, MoveEffect, SubmitEffect, RetreatEffect, AssignEffect, ConfirmEffect
    DEF Finish, NoJob, Steps
<1>6. ~NextRound /\ ~RoomCleared /\ ~BossVictory /\ ~PartyWipe
    BY <1>t, <1>g, NextRoundEffect, RoomClearedEffect, BossVictoryEffect, PartyWipeEffect DEF Steps
<1>7. ~RpcFails /\ ~Leave /\ ~Checkpoint /\ ~Crash /\ ~Evict /\ ~Expire
    BY DEF RpcFails, Leave, Checkpoint, Crash, Evict, Expire, Finish, Quiet, NoJob
<1>8. ~CombatTimerFires /\ ~DistTimerFires
    BY <1>t, TimerEffect, DistTimerEffect DEF CombatTimerFires, DistTimerFires, NoJob
<1> QED
    BY ServerOrFrame, <1>0, <1>1, <1>2, <1>3, <1>4, <1>5, <1>6, <1>7, <1>8
    DEF ServerStep, HandlerStep

LEMMA Untorn == TypeInv /\ [Next]_allVars /\ ~torn' => ~torn
BY ServerOrFrame
DEF serverVars, ServerStep, HandlerStep, ReaderStep, Accept, Read, ReadRow, ReadFails, Store,
    Get, Select, Put, Recheck, Move, Submit, Retreat, AssignLoot, Confirm,
    NextRound, RoomCleared, BossVictory, PartyWipe, Commit, RpcFails, Leave, Checkpoint,
    CombatTimerFires, DistTimerFires, Crash, Evict, Expire, ghosts

\* Every step keeps NotLost.
LEMMA NotLostStep ==
  TypeInv /\ JobHoldsRun /\ LeaveClosed /\ NotLost /\ [Next]_allVars => NotLost'
<1> SUFFICES ASSUME TypeInv, JobHoldsRun, LeaveClosed, NotLost, [Next]_allVars,
                    ~raced', ~torn', mem' = None
             PROVE  ~LosesBegin'
    BY DEF NotLost
<1>t. ObjectTypes /\ NetTypes /\ RestTypes
    BY TypeParts
<1>r. ~raced /\ ~torn
    BY Unraced, Untorn
<1>i. mem = None => ~LosesBegin
    BY <1>r DEF NotLost
<1>s. ASSUME mem = None, db' = db
      PROVE  ~LosesBegin'
    BY <1>i, <1>s DEF LosesBegin
<1>h. ~NoJob /\ job.step \notin {"get", "put"} => mem # None
    BY <1>r, Held
<1>g. ASSUME NEW step \in Steps, Goes(step), job.step \notin {"get", "put"}
      PROVE  FALSE
    BY <1>g, <1>r, HeldGoes
<1>0. CASE UNCHANGED serverVars
    BY <1>0, <1>s DEF serverVars
<1>1. ASSUME NEW s \in Slots, Accept(s)
      PROVE  ~LosesBegin'
    BY <1>1, <1>s DEF Accept
<1>2. ASSUME NEW s \in Slots, ReaderStep(s)
      PROVE  ~LosesBegin'
  <2>1. ~Store(s) /\ ~Read(s)
      BY <1>t, StoreEffect, NoneAssumption DEF Read
  <2> QED
      BY <1>2, <1>s, <2>1 DEF ReaderStep, ReadRow, ReadFails
<1>3. CASE Get \/ Select
    BY <1>3, <1>s DEF Get, Select
<1>4. CASE Put
    BY <1>4, <1>t, PutEffect, NoneAssumption
<1>5. ~Recheck /\ ~Checkpoint /\ ~RpcFails
    BY <1>h, GuardedRpcs DEF Recheck, Checkpoint, RpcFails, RPCs
<1>6. ~Move /\ ~Submit /\ ~Retreat /\ ~AssignLoot /\ ~Confirm
    BY <1>t, <1>h, <1>g, MoveEffect, SubmitEffect, RetreatEffect, AssignEffect, ConfirmEffect
    DEF Move, Submit, Retreat, AssignLoot, Confirm, Handling, Steps
<1>7. ~NextRound /\ ~RoomCleared /\ ~BossVictory /\ ~PartyWipe
    BY <1>t, <1>g, NextRoundEffect, RoomClearedEffect, BossVictoryEffect, PartyWipeEffect
    DEF NextRound, RoomCleared, BossVictory, PartyWipe, Resolving, Steps
<1>8. ~Commit
    BY <1>t, <1>g, CommitEffect DEF Steps, RPCs
<1>9. CASE Leave
    BY <1>9, <1>r DEF Leave, LeaveClosed, LosesBegin
<1>10. CASE CombatTimerFires
    BY <1>10, <1>t, <1>s, TimerEffect, NoneAssumption DEF CombatTimerFires
<1>11. CASE DistTimerFires
    BY <1>11, <1>t, <1>s, DistTimerEffect, NoneAssumption DEF DistTimerFires
<1>12. CASE Crash \/ Evict
  <2>1. db' = db /\ (torn' <=> torn \/ LosesBegin)
      BY <1>12 DEF Crash, Evict
  <2> QED
      BY <2>1 DEF LosesBegin
<1>13. CASE Expire
    BY <1>13, <1>t DEF Expire, LosesBegin, RestTypes
<1> QED
    BY ServerOrFrame, <1>0, <1>1, <1>2, <1>3, <1>4, <1>5, <1>6, <1>7, <1>8, <1>9, <1>10, <1>11,
       <1>12, <1>13 DEF ServerStep, HandlerStep

\* The phases in which the fight with the boss, or the run, is over.
\* The phases of a run whose outcomes are applied.
Fought == {"distributing", "completed", "wiped", "retreated"}

\* Every step keeps OutcomesInv.
LEMMA OutcomesStep ==
  TypeInv /\ JobHoldsRun /\ NotLost /\ OutcomesInv /\ [Next]_allVars => OutcomesInv'
<1> SUFFICES ASSUME TypeInv, JobHoldsRun, NotLost, OutcomesInv, [Next]_allVars, ~raced', ~torn'
             PROVE  OutcomesInv'
    BY DEF OutcomesInv
<1>t. ObjectTypes /\ NetTypes /\ RestTypes
    BY TypeParts
<1>r. ~raced /\ ~torn
    BY Unraced, Untorn
<1>i. db.outcomes > 0 =>
        db.outcomes = 1 /\ db.status \notin Running /\ (mem # None => mem.phase \in Fought)
    BY <1>r DEF OutcomesInv, Fought
<1>h. ~NoJob /\ job.step \notin {"get", "put"} => mem = job.inst /\ mem \in Instances /\ mem # None
    BY <1>r, Held
<1>g. ASSUME NEW step \in Steps, Goes(step), job.step \notin {"get", "put"}
      PROVE  mem = job.inst /\ mem # None /\ mem' = job'.inst
    BY <1>g, <1>r, HeldGoes
<1>s. ASSUME db' = db, db.outcomes > 0 => (mem' = None \/ mem'.phase \in Fought)
      PROVE  OutcomesInv'
    BY <1>i, <1>s DEF OutcomesInv, Fought
<1>u. ASSUME db' = db, mem' = mem \/ mem' = None
      PROVE  OutcomesInv'
    BY <1>i, <1>s, <1>u
<1>w. ASSUME mem \in Instances, mem' = mem, db' = db \/ db' = Written(mem)
      PROVE  OutcomesInv'
  <2>1. /\ Written(mem).outcomes = db.outcomes /\ Written(mem).status = StatusOf(mem.phase)
      BY <1>t, <1>w, WrittenRow
  <2>2. mem.phase \in Fought => StatusOf(mem.phase) \notin Running
      BY DEF Fought, StatusOf, Running
  <2> QED
      BY <1>i, <1>w, <2>1, <2>2, NoneAssumption DEF OutcomesInv, Fought
<1>f. ASSUME db.outcomes > 0, db.status \in Recoverable, mem = None
      PROVE  db.ckpt.phase = "distributing"
    BY <1>i, <1>r, <1>f DEF NotLost, LosesBegin, Recoverable, Running
<1>0. CASE UNCHANGED serverVars
    BY <1>0, <1>u DEF serverVars
<1>1. ASSUME NEW s \in Slots, Accept(s)
      PROVE  OutcomesInv'
    BY <1>1, <1>u DEF Accept
<1>2. ASSUME NEW s \in Slots, Read(s)
      PROVE  OutcomesInv'
  <2>1. mem \in Instances /\ mem' = mem /\ (db' = db \/ db' = Written(mem))
      BY <1>2, <1>t DEF Read, ObjectTypes
  <2> QED
      BY <1>w, <2>1
<1>3. ASSUME NEW s \in Slots, ReadRow(s) \/ ReadFails(s)
      PROVE  OutcomesInv'
    BY <1>3, <1>u DEF ReadRow, ReadFails
<1>4. ASSUME NEW s \in Slots, Store(s)
      PROVE  OutcomesInv'
  <2>1. db' = db /\ mem = None /\ mem' = db.ckpt /\ db.status \in Recoverable
      BY <1>4, <1>t, StoreEffect DEF Store
  <2> QED
      BY <1>s, <1>f, <2>1 DEF Fought
<1>5. CASE Get \/ Select
    BY <1>5, <1>u DEF Get, Select
<1>6. CASE Put
  <2>1. db' = db /\ mem = None /\ mem' = db.ckpt /\ db.status \in Recoverable
      BY <1>6, <1>r DEF Put, JobHoldsRun
  <2> QED
      BY <1>s, <1>f, <2>1 DEF Fought
<1>7. CASE Recheck \/ Checkpoint
  <2>1. mem \in Instances /\ mem' = mem /\ (db' = db \/ db' = Written(mem))
      BY <1>7, <1>h DEF Recheck, Checkpoint
  <2> QED
      BY <1>w, <2>1
<1>8. CASE Move
    BY <1>8, <1>t, <1>i, <1>s, <1>u, <1>g, MoveEffect DEF Move, Handling, Fought, Steps
<1>9. CASE Submit
    BY <1>9, <1>t, <1>i, <1>s, <1>u, <1>g, SubmitEffect DEF Submit, Handling, Fought, Steps
<1>10. CASE Retreat
    BY <1>10, <1>t, <1>s, <1>g, RetreatEffect DEF Retreat, Handling, Fought, Steps
<1>11. CASE AssignLoot
    BY <1>11, <1>t, <1>s, <1>u, <1>g, AssignEffect DEF AssignLoot, Handling, Fought, Steps
<1>12. CASE Confirm
    BY <1>12, <1>t, <1>u, <1>g, ConfirmEffect DEF Confirm, Handling, Steps
<1>13. CASE NextRound \/ RoomCleared \/ BossVictory \/ PartyWipe
  <2>1. db' = db /\ job.step = "resolve" /\ ~NoJob
      BY <1>13 DEF NextRound, RoomCleared, BossVictory, PartyWipe, Resolving
  <2>2. db.outcomes <= 0
      BY <1>t, <1>i, <1>h, <2>1 DEF ObjectTypes, JobShape, Fought, RestTypes
  <2> QED
      BY <1>s, <2>1, <2>2, <1>t DEF RestTypes
<1>14. CASE Commit
  <2>1. /\ ~NoJob /\ job.step \in RPCs /\ db' = Applied(job.step)
        /\ db.status \in Guarded[job.step]
      BY <1>14, GuardedRpcs DEF Commit
  <2>2. mem # None /\ mem' = job'.inst
        /\ job'.inst.phase = IF job.step = "finalize" THEN "completed" ELSE job.inst.phase
      BY <1>14, <1>t, <1>g, <2>1, CommitEffect DEF Steps, RPCs
  <2>3. mem'.phase \in Fought
      BY <1>t, <2>1, <2>2 DEF ObjectTypes, JobShape, Fought, RPCs
  <2>4. db'.status \notin Running
      BY <1>t, <2>1, AppliedRow DEF Running
  <2>5. CASE job.step \in {"complete", "begin", "wipe"}
    <3>1. db.status \in Running
        BY <2>1, <2>5 DEF Guarded
    <3>2. db.outcomes = 0
        BY <1>t, <1>i, <3>1 DEF RestTypes
    <3>3. db'.outcomes = 1
        BY <1>t, <2>1, <2>5, <3>2, AppliedRow DEF Once
    <3> QED
        BY <2>3, <2>4, <3>3 DEF OutcomesInv, Fought
  <2>6. CASE job.step \in {"abandon", "finalize"}
    <3>1. db'.outcomes = db.outcomes
        BY <1>t, <2>1, <2>6, AppliedRow
    <3> QED
        BY <1>i, <2>3, <2>4, <3>1 DEF OutcomesInv, Fought
  <2> QED
      BY <2>1, <2>5, <2>6 DEF RPCs
<1>15. CASE RpcFails \/ Leave \/ Crash \/ Evict
    BY <1>15, <1>u DEF RpcFails, Leave, Crash, Evict
<1>16. CASE CombatTimerFires
    BY <1>16, <1>t, <1>i, <1>s, <1>u, TimerEffect, NoneAssumption DEF CombatTimerFires, Fought
<1>17. CASE DistTimerFires
    BY <1>17, <1>t, <1>s, <1>u, DistTimerEffect DEF DistTimerFires, Fought
<1>18. CASE Expire
  <2>1. mem' = mem /\ db.status \in Running /\ db'.outcomes = db.outcomes
      BY <1>18, <1>t DEF Expire, RestTypes
  <2> QED
      BY <1>i, <2>1 DEF OutcomesInv
<1> QED
    BY ServerOrFrame, <1>0, <1>1, <1>2, <1>3, <1>4, <1>5, <1>6, <1>7, <1>8, <1>9, <1>10, <1>11,
       <1>12, <1>13, <1>14, <1>15, <1>16, <1>17, <1>18 DEF ServerStep, HandlerStep, ReaderStep

\* Where nothing has failed yet, nothing had, and this step is no failure.
LEMMA CalmBefore == TypeInv /\ [Next]_allVars /\ Calm' => Calm /\ ~Fault /\ faults' = faults
<1> SUFFICES ASSUME TypeInv, [Next]_allVars, Calm'
             PROVE  Calm /\ ~Fault /\ faults' = faults
    OBVIOUS
<1>1. faults \in Nat
    BY TypeParts, BoundsAssumption DEF RestTypes
<1>2. faults' = faults \/ Fault
  <2>1. CASE ServerStep
      BY <2>1
      DEF ServerStep, HandlerStep, ReaderStep, Accept, Read, ReadRow, ReadFails, Store,
        Get, Select, Put, Recheck, Move, Submit, Retreat, AssignLoot, Confirm,
        NextRound, RoomCleared, BossVictory, PartyWipe, Commit, RpcFails, Leave, Checkpoint,
        CombatTimerFires, DistTimerFires, Crash, Evict, Expire
  <2>2. CASE ClientStep
      BY <2>2
      DEF ClientStep, Command, CommandAnswered, CountdownExpires, AutoAnswered,
          FallbackAnswered, Validate, ValidateAnswered, RecoverAnswered, Reload, Drop
  <2>3. CASE UNCHANGED allVars
      BY <2>3 DEF allVars, vars
  <2> QED
      BY <2>1, <2>2, <2>3 DEF Next
<1>3. ~Fault
    BY <1>1 DEF Calm, Fault
<1> QED
    BY <1>2, <1>3, Unraced DEF Calm

\* Every step keeps CalmInv.
LEMMA CalmStep == TypeInv /\ JobHoldsRun /\ CalmInv /\ [Next]_allVars => CalmInv'
<1> SUFFICES ASSUME TypeInv, JobHoldsRun, CalmInv, [Next]_allVars, Calm'
             PROVE  CalmInv'
    BY DEF CalmInv
<1>t. ObjectTypes /\ NetTypes /\ RestTypes
    BY TypeParts
<1>c. Calm /\ ~Fault /\ ~raced /\ ~raced'
    BY CalmBefore DEF Calm
<1>i. /\ ~dirty
      /\ ~NoJob => job.step # "recheck"
      /\ db.ckpt.phase \in {"exploring", "room_clear", "combat_planning", "distributing"}
      /\ db.status = "distributing" =>
           /\ db.ckpt.phase = "distributing" \/ (~NoJob /\ job.step = "checkpoint")
           /\ mem = None \/ mem.phase = "distributing"
                \/ (mem.phase = "retreated" /\ ~NoJob /\ job.step = "abandon")
      /\ mem # None /\ mem.phase = "retreated" =>
           db.status \notin Recoverable \/ (~NoJob /\ job.step = "abandon")
      /\ mem # None /\ mem.phase \in {"completed", "wiped"} =>
           db.status \notin Recoverable \/ (~NoJob /\ job.step \in {"complete", "wipe"})
    BY <1>c DEF CalmInv
<1>h. ~NoJob /\ job.step \notin {"get", "put"} => mem = job.inst /\ mem \in Instances /\ mem # None
    BY <1>c, Held
<1>g. ASSUME NEW step \in Steps, Goes(step), job.step \notin {"get", "put"}
      PROVE  /\ mem = job.inst /\ mem # None /\ mem' = job'.inst /\ mem' # None
             /\ ~NoJob /\ ~NoJob' /\ job'.step = step
    BY <1>g, <1>c, HeldGoes DEF Goes
\* Nothing changes but the holder, which was at a step that needs no excuse.
<1>s. ASSUME UNCHANGED <<mem, db, dirty>>,
             NoJob \/ job.step \notin {"checkpoint", "abandon", "complete", "wipe"},
             NoJob' \/ job'.step # "recheck"
      PROVE  CalmInv'
    BY <1>i, <1>s DEF CalmInv
\* Memory is filled from the row.
<1>k. ASSUME UNCHANGED <<db, dirty>>, mem' = db.ckpt, NoJob \/ job.step \in {"get", "put"},
             NoJob' \/ job'.step # "recheck"
      PROVE  CalmInv'
    BY <1>i, <1>k DEF CalmInv
\* The instance is played on, which a row being distributed never is.
<1>p. ASSUME UNCHANGED <<db, dirty>>, mem # None, db.status # "distributing",
             ~NoJob', job'.step # "recheck",
             mem'.phase \in {"completed", "wiped"} => job'.step \in {"complete", "wipe"},
             mem'.phase # "retreated"
      PROVE  CalmInv'
    BY <1>i, <1>p DEF CalmInv
<1>0. CASE UNCHANGED serverVars
    BY <1>0, <1>i DEF serverVars, CalmInv, NoJob
<1>1. ASSUME NEW s \in Slots, Accept(s)
      PROVE  CalmInv'
    BY <1>1, <1>t, <1>s, AcceptEffect DEF Accept
<1>2. ASSUME NEW s \in Slots, Read(s) \/ ReadRow(s) \/ ReadFails(s)
      PROVE  CalmInv'
  <2>1. UNCHANGED <<mem, job, db, dirty>>
    <3>1. dirty = FALSE
        BY <1>t, <1>i DEF RestTypes
    <3> QED
        BY <1>2, <1>c, <3>1 DEF Read, ReadRow, ReadFails, ghosts
  <2> QED
      BY <1>i, <2>1 DEF CalmInv, NoJob
<1>3. ASSUME NEW s \in Slots, Store(s)
      PROVE  CalmInv'
  <2>1. /\ UNCHANGED <<db, dirty>> /\ mem' = db.ckpt
        /\ NoJob \/ job.step = "get"
        /\ NoJob' \/ job'.step # "recheck"
      BY <1>3, <1>t, <1>c, StoreEffect DEF Store, NoJob
  <2> QED
      BY <1>k, <2>1
<1>4. CASE Get
    BY <1>4, <1>t, <1>i, <1>s, GetEffect DEF Get
<1>5. CASE Select
  <2>1. UNCHANGED <<mem, db, dirty>> /\ job.step = "get"
      BY <1>5 DEF Select
  <2>2. job' = None \/ job'.step = "put"
      BY <1>5, <1>t, SelectEffect DEF Select, Finish
  <2> QED
      BY <1>s, <2>1, <2>2 DEF NoJob
<1>6. CASE Put
    BY <1>6, <1>t, <1>c, <1>i, <1>k, PutEffect DEF Put, JobHoldsRun
<1>7. ~Recheck
    BY <1>i DEF Recheck
<1>8. CASE Move
  <2>1. CASE Finish(Refused) /\ mem' = mem
      BY <1>8, <1>s, <2>1 DEF Move, Handling, Finish, NoJob
  <2>2. CASE /\ Goes("checkpoint") /\ job.inst.phase \in {"exploring", "room_clear"}
             /\ job'.inst.phase = "combat_planning"
    <3>1. /\ mem # None /\ mem.phase \in {"exploring", "room_clear"}
          /\ mem'.phase = "combat_planning" /\ ~NoJob' /\ job'.step = "checkpoint"
          /\ UNCHANGED <<db, dirty>>
        BY <1>8, <1>g, <2>2 DEF Move, Handling, Steps
    <3> QED
        BY <1>i, <1>p, <3>1
  <2> QED
      BY <1>8, <1>t, <2>1, <2>2, MoveEffect
<1>9. CASE Submit
  <2>1. CASE Finish(Refused) /\ mem' = mem
      BY <1>9, <1>s, <2>1 DEF Submit, Handling, Finish, NoJob
  <2>2. CASE /\ Goes("resolve") /\ job.inst.phase = "combat_planning"
             /\ job'.inst.phase = "combat_resolving"
    <3>1. /\ mem # None /\ mem.phase = "combat_planning"
          /\ mem'.phase = "combat_resolving" /\ ~NoJob' /\ job'.step = "resolve"
          /\ UNCHANGED <<db, dirty>>
        BY <1>9, <1>g, <2>2 DEF Submit, Handling, Steps
    <3> QED
        BY <1>i, <1>p, <3>1
  <2> QED
      BY <1>9, <1>t, <2>1, <2>2, SubmitEffect
<1>10. CASE Retreat
  <2>1. /\ mem'.phase = "retreated" /\ ~NoJob' /\ job'.step = "abandon"
        /\ job.step = "handle" /\ UNCHANGED <<db, dirty>>
      BY <1>10, <1>t, <1>g, RetreatEffect DEF Retreat, Handling, Steps
  <2> QED
      BY <1>i, <2>1 DEF CalmInv
<1>11. CASE AssignLoot
  <2>1. CASE Finish(Refused) /\ mem' = mem
      BY <1>11, <1>s, <2>1 DEF AssignLoot, Handling, Finish, NoJob
  <2>2. CASE Goes("checkpoint") /\ job'.inst.phase = "distributing"
    <3>1. /\ mem'.phase = "distributing" /\ ~NoJob' /\ job'.step = "checkpoint"
          /\ UNCHANGED <<db, dirty>>
        BY <1>11, <1>g, <2>2 DEF AssignLoot, Handling, Steps
    <3> QED
        BY <1>i, <3>1 DEF CalmInv
  <2> QED
      BY <1>11, <1>t, <2>1, <2>2, AssignEffect
<1>12. CASE Confirm
  <2>1. CASE Finish(Refused) /\ mem' = mem
      BY <1>12, <1>s, <2>1 DEF Confirm, Handling, Finish, NoJob
  <2>2. CASE Goes("finalize") /\ job'.inst = job.inst
    <3>1. mem' = mem /\ ~NoJob' /\ job'.step = "finalize" /\ job.step = "handle"
          /\ UNCHANGED <<db, dirty>>
        BY <1>12, <1>g, <2>2 DEF Confirm, Handling, Steps
    <3> QED
        BY <1>s, <3>1
  <2> QED
      BY <1>12, <1>t, <2>1, <2>2, ConfirmEffect
<1>13. CASE NextRound \/ RoomCleared \/ BossVictory \/ PartyWipe
  <2>1. /\ job.step = "resolve" /\ ~NoJob /\ job.inst.phase = "combat_resolving"
        /\ UNCHANGED <<db, dirty>>
      BY <1>13, <1>t DEF NextRound, RoomCleared, BossVictory, PartyWipe, Resolving, ObjectTypes, JobShape
  <2>2. mem # None /\ db.status # "distributing"
      BY <1>h, <1>i, <2>1
  <2>3. CASE NextRound \/ RoomCleared
    <3>1. /\ mem'.phase \in {"combat_planning", "room_clear"} /\ ~NoJob' /\ job'.step = "checkpoint"
        BY <1>t, <1>g, <2>1, <2>3, NextRoundEffect, RoomClearedEffect DEF Steps
    <3> QED
        BY <1>p, <2>1, <2>2, <3>1
  <2>4. CASE BossVictory
    <3>1. /\ ~NoJob'
          /\ \/ mem'.phase = "completed" /\ job'.step = "complete"
             \/ mem'.phase = "distributing" /\ job'.step = "begin"
        BY <1>t, <1>g, <2>1, <2>4, BossVictoryEffect DEF Steps
    <3> QED
        BY <1>p, <2>1, <2>2, <3>1
  <2>5. CASE PartyWipe
    <3>1. ~NoJob' /\ mem'.phase = "wiped" /\ job'.step = "wipe"
        BY <1>t, <1>g, <2>1, <2>5, PartyWipeEffect DEF Steps
    <3> QED
        BY <1>p, <2>1, <2>2, <3>1
  <2> QED
      BY <1>13, <2>3, <2>4, <2>5
<1>14. CASE Commit
  <2>1. /\ ~NoJob /\ job.step \in RPCs /\ db' = Applied(job.step) /\ dirty' = dirty
      BY <1>14, GuardedRpcs DEF Commit
  <2>2. /\ mem' = job'.inst /\ ~NoJob'
        /\ job'.step = IF job.step = "begin" THEN "checkpoint" ELSE "leave"
        /\ job'.inst.phase = IF job.step = "finalize" THEN "completed" ELSE job.inst.phase
      BY <1>14, <1>t, <1>g, <2>1, CommitEffect DEF Steps, RPCs
  <2>3. db'.ckpt = db.ckpt
      BY <1>t, <2>1, AppliedRow
  <2>4. CASE job.step = "begin"
    <3>1. mem'.phase = "distributing" /\ job'.step = "checkpoint"
        BY <1>t, <2>1, <2>2, <2>4 DEF ObjectTypes, JobShape
    <3> QED
        BY <1>i, <2>1, <2>2, <2>3, <3>1 DEF CalmInv
  <2>5. CASE job.step # "begin"
    <3>1. db'.status \notin Recoverable
        BY <1>t, <2>1, <2>5, AppliedRow DEF Recoverable, Running, RPCs
    <3>2. db'.status # "distributing" /\ job'.step = "leave"
        BY <2>2, <2>5, <3>1 DEF Recoverable
    <3> QED
        BY <1>i, <2>1, <2>2, <2>3, <3>1, <3>2 DEF CalmInv
  <2> QED
      BY <2>4, <2>5
<1>15. CASE RpcFails
  <2>1. /\ ~NoJob /\ job.step \in RPCs /\ db.status \notin Guarded[job.step]
        /\ UNCHANGED <<mem, db, dirty>> /\ job' = None
      BY <1>15, <1>c, GuardedRpcs DEF RpcFails, Finish
  <2>2. mem = job.inst /\ mem # None
      BY <1>h, <2>1 DEF RPCs
  <2>3. CASE job.step \in {"complete", "wipe"}
    <3>1. mem.phase \in {"completed", "wiped"}
        BY <1>t, <2>1, <2>2, <2>3 DEF ObjectTypes, JobShape
    <3>2. db.status \notin Recoverable
        BY <1>i, <2>1, <2>2, <2>3, <3>1 DEF Guarded, Recoverable
    <3> QED
        BY <1>i, <2>1, <3>1, <3>2 DEF CalmInv, Recoverable, NoJob
  <2>4. CASE job.step = "abandon"
    <3>1. db.status \notin Recoverable
        BY <2>1, <2>4 DEF Guarded
    <3> QED
        BY <1>i, <2>1, <3>1 DEF CalmInv, Recoverable, NoJob
  <2>5. CASE job.step \in {"begin", "finalize"}
      BY <1>s, <2>1, <2>5 DEF NoJob
  <2> QED
      BY <2>1, <2>3, <2>4, <2>5 DEF RPCs
<1>16. CASE Leave
    BY <1>16, <1>i DEF Leave, Finish, CalmInv, NoJob
<1>17. CASE Checkpoint
  <2>1. /\ mem' = mem /\ job.inst = mem /\ mem \in Instances
        /\ mem.phase \in {"combat_planning", "room_clear", "distributing"}
      BY <1>17, <1>t, <1>h DEF Checkpoint, ObjectTypes, JobShape
  <2>2. db' = Written(mem) /\ ~dirty' /\ job' = None
      BY <1>17, <1>c, <2>1 DEF Checkpoint, Finish
  <2>3. db'.ckpt = mem /\ db'.status = StatusOf(mem.phase)
      BY <1>t, <2>1, <2>2, WrittenRow
  <2>4. db'.status = "distributing" => mem.phase = "distributing"
      BY <2>1, <2>3 DEF StatusOf
  <2> QED
      BY <2>1, <2>2, <2>3, <2>4 DEF CalmInv, NoJob
<1>18. CASE CombatTimerFires
  <2>1. NoJob /\ UNCHANGED <<db, dirty>>
      BY <1>18 DEF CombatTimerFires
  <2>2. CASE UNCHANGED <<mem, job>>
      BY <1>s, <2>1, <2>2 DEF NoJob
  <2>3. CASE /\ job' # None /\ job'.step = "resolve" /\ mem \in Instances
             /\ mem.phase = "combat_planning" /\ mem'.phase = "combat_resolving"
    <3>1. mem # None
        BY <2>3, NoneAssumption
    <3> QED
        BY <1>i, <1>p, <2>1, <2>3, <3>1 DEF NoJob
  <2> QED
      BY <1>18, <1>t, <2>2, <2>3, TimerEffect
<1>19. CASE DistTimerFires
  <2>1. NoJob /\ UNCHANGED <<db, dirty>>
      BY <1>19 DEF DistTimerFires
  <2>2. CASE UNCHANGED <<mem, job>>
      BY <1>s, <2>1, <2>2 DEF NoJob
  <2>3. CASE job' # None /\ job'.step = "get" /\ mem'.phase = "distributing"
      BY <1>i, <2>1, <2>3 DEF CalmInv, NoJob
  <2> QED
      BY <1>19, <1>t, <2>2, <2>3, DistTimerEffect
<1>20. ~Crash
    BY <1>c DEF Crash
<1>21. CASE Evict
    BY <1>21, <1>i DEF Evict, Quiet, CalmInv, NoJob
<1>22. CASE Expire
  <2>1. /\ UNCHANGED <<mem, job, dirty>> /\ db'.ckpt = db.ckpt /\ db'.status = "abandoned"
      BY <1>22, <1>t DEF Expire, RestTypes
  <2> QED
      BY <1>i, <2>1 DEF CalmInv, Recoverable, Running, NoJob
<1> QED
    BY ServerOrFrame, <1>0, <1>1, <1>2, <1>3, <1>4, <1>5, <1>6, <1>7, <1>8, <1>9, <1>10, <1>11,
       <1>12, <1>13, <1>14, <1>15, <1>16, <1>17, <1>18, <1>19, <1>20, <1>21, <1>22
    DEF ServerStep, HandlerStep, ReaderStep

LEMMA ServerInit == ClientInit => ServerInv
<1> SUFFICES ASSUME ClientInit
             PROVE  ServerInv
    OBVIOUS
<1>1. /\ mem = Entrance /\ job = None /\ reader = None /\ ~dirty /\ ~combatTimer /\ ~distTimer
      /\ db = [status |-> "exploring", ckpt |-> Entrance, outcomes |-> 0, loots |-> 0]
      /\ last = 0
    BY DEF ClientInit, Init
<1>2. /\ db.status = "exploring" /\ db.ckpt = Entrance /\ db.outcomes = 0 /\ db.loots = 0
      /\ Entrance.phase = "exploring" /\ Entrance.room = 0
    BY <1>1 DEF Entrance
<1>3. Entrance \in Instances /\ Entrance # None
    BY EntranceType, NoneAssumption
<1>4. JobHoldsRun /\ LootInv /\ LeaveClosed /\ NotLost /\ OutcomesInv
    BY <1>1, <1>2, <1>3 DEF JobHoldsRun, LootInv, LeaveClosed, NotLost, OutcomesInv, NoJob
<1>5. SavedInv /\ TimersInv /\ StartedInv /\ CalmInv
    BY <1>1, <1>2, <1>3 DEF SavedInv, TimersInv, StartedInv, Started, CalmInv, NoJob
<1>6. RoundsInv
  <2>1. 0 <= Entrance.room * (MaxRounds + 1) + MaxRounds
      BY <1>3, Ranks, BoundsAssumption
  <2> QED
      BY <1>1, <1>2, <2>1 DEF RoundsInv
<1> QED
    BY <1>4, <1>5, <1>6 DEF ServerInv

LEMMA ServerInvStep == TypeInv /\ ServerInv /\ [Next]_allVars => ServerInv'
BY HoldsStep, LootStep, LeaveStep, NotLostStep, OutcomesStep, SavedStep, TimersStep, StartedStep,
   RoundsStep, CalmStep DEF ServerInv

\* What the handlers, the timers and the row know of each other, in every
\* interleaving of requests, timers, GETs, restarts and cleanups: the inductive
\* invariant behind the theorems below.
THEOREM ServerConsistent == Spec => []ServerInv
BY ServerInit, ServerInvStep, TypeCorrect, PTL DEF Spec

\* The loot of a run is handed out once, whoever gets to its RPC first.
THEOREM LootHandedOutOnce == Spec => []LootOnce
<1>1. TypeInv /\ ServerInv => LootOnce
    BY TypeParts DEF ServerInv, LootInv, LootOnce, RestTypes
<1> QED
    BY <1>1, TypeCorrect, ServerConsistent, PTL

\* The outcomes of a run are applied to its agents once, unless memory was lost
\* between fn_begin_distribution and its checkpoint.
THEOREM OutcomesAppliedOnce == Spec => []OutcomesOnce
<1>1. TypeInv /\ ServerInv => OutcomesOnce
    BY TypeParts DEF ServerInv, OutcomesInv, OutcomesOnce, RestTypes
<1> QED
    BY <1>1, TypeCorrect, ServerConsistent, PTL

\* No late checkpoint, cleanup or retreat moves the row of a run whose outcomes
\* or loot were given out back or elsewhere.
THEOREM EndedStays == Spec => []EndedRunStaysEnded
<1>1. ServerInv => EndedRunStaysEnded
    BY DEF ServerInv, OutcomesInv, LootInv, EndedRunStaysEnded
<1> QED
    BY <1>1, ServerConsistent, PTL

\* Between two requests the row holds what is in memory, or the instance is
\* marked dirty.
THEOREM SavedOrDirty == Spec => []SavedUnlessDirty
<1>1. ServerInv => SavedUnlessDirty
    BY DEF ServerInv, SavedInv, SavedUnlessDirty
<1> QED
    BY <1>1, ServerConsistent, PTL

\* The planning and the distribution timer run in their phases, save for the
\* known ways to lose one.
THEOREM TimersFollowPhases == Spec => []PhaseHasTimer
<1>1. ServerInv => PhaseHasTimer
    BY DEF ServerInv, TimersInv, PhaseHasTimer, NoJob
<1> QED
    BY <1>1, ServerConsistent, PTL

\* A round is resolved once, and rounds are resolved in their order.
THEOREM RoundsResolvedInOrder == Spec => RoundsInOrder
<1> DEFINE A == (~NoJob' /\ job'.step = "resolve" /\ (NoJob \/ job.step # "resolve") /\ ~raced) =>
                   Rank(job'.inst) > last
<1>1. TypeInv /\ ServerInv /\ [Next]_allVars => [A]_vars
  <2> SUFFICES ASSUME TypeInv, ServerInv, [Next]_allVars,
                      ~NoJob', job'.step = "resolve", NoJob \/ job.step # "resolve", ~raced
               PROVE  Rank(job'.inst) > last
      OBVIOUS
  <2>1. /\ mem \in Instances /\ mem # None /\ mem.phase = "combat_planning"
        /\ Rank(job'.inst) = Rank(mem)
      BY NewRound DEF ServerInv
  <2> QED
      BY <2>1 DEF ServerInv, RoundsInv
<1> QED
    BY <1>1, TypeCorrect, ServerConsistent, PTL DEF Spec, RoundsInOrder

\* The run is over, or its handler is about to make it so.
Closing == Ended \/ Ending

\* A run that has come to its end, or is about to be committed, does not come
\* back while nothing fails.
LEMMA ClosingStays ==
  ASSUME TypeInv, ServerInv, [Next]_allVars, Calm', Closing
  PROVE  Closing'
<1>t. ObjectTypes /\ NetTypes /\ RestTypes
    BY TypeParts
<1>c. Calm /\ ~Fault /\ ~raced /\ ~raced'
    BY CalmBefore DEF Calm
<1>v. JobHoldsRun /\ CalmInv
    BY DEF ServerInv
<1>d. dirty = FALSE /\ (~NoJob => job.step # "recheck")
    BY <1>c, <1>t, <1>v DEF CalmInv, RestTypes
<1>h. ~NoJob /\ job.step \notin {"get", "put"} => mem = job.inst /\ mem \in Instances /\ mem # None
    BY <1>c, <1>v, Held
<1>g. ASSUME NEW step \in Steps, Goes(step), job.step \notin {"get", "put"}
      PROVE  mem = job.inst /\ mem' = job'.inst /\ ~NoJob /\ ~NoJob' /\ job'.step = step
    BY <1>g, <1>c, <1>v, HeldGoes DEF Goes
<1>0. CASE UNCHANGED serverVars
    BY <1>0 DEF serverVars, Closing, Ended, Ending, NoJob
<1>2. ASSUME NEW s \in Slots, Read(s) \/ ReadRow(s) \/ ReadFails(s)
      PROVE  Closing'
  <2>1. UNCHANGED <<mem, job, db>>
      BY <1>2, <1>c, <1>d DEF Read, ReadRow, ReadFails
  <2> QED
      BY <2>1 DEF Closing, Ended, Ending, NoJob
<1>20. ~Crash
    BY <1>c DEF Crash
<1>3. CASE Ending
  <2>1. ~NoJob /\ job.step \in {"complete", "wipe"}
      BY <1>3 DEF Ending
  <2>2. mem = job.inst /\ mem.phase \in {"completed", "wiped"} /\ mem # None
      BY <1>t, <1>h, <2>1 DEF ObjectTypes, JobShape
  <2>3. ASSUME NEW s \in Slots, Accept(s) \/ Store(s)
        PROVE  FALSE
      BY <1>t, <1>c, <2>1, <2>3, StoreEffect DEF Accept
  <2>4. CASE Commit
    <3>1. /\ db' = Applied(job.step) /\ mem' = job'.inst /\ job'.step = "leave" /\ ~NoJob'
          /\ job'.inst.phase = job.inst.phase
        BY <1>t, <1>g, <2>1, <2>4, CommitEffect DEF Commit, Steps
    <3>2. db'.status \notin Recoverable
        BY <1>t, <2>1, <3>1, AppliedRow DEF Recoverable, Running, RPCs
    <3> QED
        BY <2>2, <3>1, <3>2 DEF Closing, Ended
  <2>5. CASE RpcFails
    <3>1. /\ db.status \notin Guarded[job.step] /\ UNCHANGED <<mem, db>> /\ job' = None
        BY <1>c, <2>1, <2>5, GuardedRpcs DEF RpcFails, Finish
    <3>2. db.status # "distributing"
        BY <1>c, <1>v, <2>1, <2>2 DEF CalmInv
    <3>3. db.status \notin Recoverable
        BY <2>1, <3>1, <3>2 DEF Guarded, Recoverable
    <3> QED
        BY <2>2, <3>1, <3>3 DEF Closing, Ended, NoJob
  <2>6. /\ ~Get /\ ~Select /\ ~Put /\ ~Recheck /\ ~Move /\ ~Submit /\ ~Retreat /\ ~AssignLoot
        /\ ~Confirm /\ ~NextRound /\ ~RoomCleared /\ ~BossVictory /\ ~PartyWipe
        /\ ~Leave /\ ~Checkpoint /\ ~CombatTimerFires /\ ~DistTimerFires /\ ~Evict /\ ~Expire
      BY <2>1 DEF Get, Select, Put, Recheck, Move, Submit, Retreat, AssignLoot, Confirm, Handling,
         NextRound, RoomCleared, BossVictory, PartyWipe, Resolving, Leave, Checkpoint,
         CombatTimerFires, DistTimerFires, Evict, Expire, Quiet
  <2> QED
      BY ServerOrFrame, <1>0, <1>2, <1>20, <2>3, <2>4, <2>5, <2>6
      DEF ServerStep, HandlerStep, ReaderStep
<1>4. CASE Ended
  <2>1. /\ db.status \notin Recoverable
        /\ mem = None \/ mem.phase \in {"completed", "wiped", "retreated"}
        /\ ~NoJob => job.step \in {"get", "handle", "abandon", "leave"}
      BY <1>4 DEF Ended
  <2>s. ASSUME UNCHANGED <<mem, db>>,
               NoJob' \/ job'.step \in {"get", "handle", "abandon", "leave"}
        PROVE  Closing'
      BY <2>1, <2>s DEF Closing, Ended
  <2>o. ASSUME mem' = None, db' = db, job' = None
        PROVE  Closing'
      BY <2>1, <2>o DEF Closing, Ended, NoJob
  <2>2. ASSUME NEW s \in Slots, Accept(s)
        PROVE  Closing'
      BY <1>t, <2>2, <2>s, AcceptEffect DEF Accept
  <2>3. ASSUME NEW s \in Slots, Store(s)
        PROVE  FALSE
      BY <1>t, <1>c, <2>1, <2>3, StoreEffect
  <2>4. CASE Get
      BY <1>t, <1>d, <2>s, <2>4, GetEffect DEF Get
  <2>5. CASE Select
      BY <2>1, <2>s, <2>5 DEF Select, Finish, NoJob
  <2>6. /\ ~Put /\ ~Recheck /\ ~NextRound /\ ~RoomCleared /\ ~BossVictory /\ ~PartyWipe
        /\ ~Checkpoint /\ ~Expire
      BY <1>d, <2>1 DEF Put, Recheck, NextRound, RoomCleared, BossVictory, PartyWipe, Resolving,
         Checkpoint, Expire, Recoverable
  <2>7. CASE Move
    <3>1. ~(job.inst.phase \in {"exploring", "room_clear"})
        BY <1>h, <2>1, <2>7 DEF Move, Handling
    <3> QED
        BY <1>t, <2>s, <2>7, <3>1, MoveEffect DEF Move, Finish, NoJob
  <2>8. CASE Submit
    <3>1. job.inst.phase # "combat_planning"
        BY <1>h, <2>1, <2>8 DEF Submit, Handling
    <3> QED
        BY <1>t, <2>s, <2>8, <3>1, SubmitEffect DEF Submit, Finish, NoJob
  <2>9. CASE AssignLoot
    <3>1. job.inst.phase # "distributing"
        BY <1>h, <2>1, <2>9 DEF AssignLoot, Handling
    <3> QED
        BY <1>t, <2>s, <2>9, <3>1, AssignEffect DEF AssignLoot, Finish, NoJob
  <2>10. CASE Confirm
    <3>1. job.inst.phase # "distributing"
        BY <1>h, <2>1, <2>10 DEF Confirm, Handling
    <3> QED
        BY <1>t, <2>s, <2>10, <3>1, ConfirmEffect DEF Confirm, Finish, NoJob
  <2>11. CASE Retreat
    <3>1. mem'.phase = "retreated" /\ job'.step = "abandon" /\ db' = db
        BY <1>t, <1>g, <2>11, RetreatEffect DEF Retreat, Handling, Steps
    <3> QED
        BY <2>1, <3>1 DEF Closing, Ended
  <2>12. ~Commit
    <3>1. Commit => job.step = "abandon"
        BY <2>1, GuardedRpcs DEF Commit, RPCs
    <3> QED
        BY <2>1, <3>1 DEF Commit, Guarded
  <2>13. CASE RpcFails
      BY <2>s, <2>13 DEF RpcFails, Finish, NoJob
  <2>14. CASE Leave
      BY <2>o, <2>14 DEF Leave, Finish
  <2>15. CASE CombatTimerFires
    <3>1. UNCHANGED <<mem, db, job>>
        BY <2>1, <2>15 DEF CombatTimerFires
    <3> QED
        BY <2>1, <2>s, <3>1 DEF NoJob
  <2>16. CASE DistTimerFires
    <3>1. UNCHANGED <<mem, db, job>>
        BY <2>1, <2>16 DEF DistTimerFires
    <3> QED
        BY <2>1, <2>s, <3>1 DEF NoJob
  <2>17. CASE Evict
      BY <2>o, <2>17 DEF Evict, Quiet, NoJob
  <2> QED
      BY ServerOrFrame, <1>0, <1>2, <1>20, <2>2, <2>3, <2>4, <2>5, <2>6, <2>7, <2>8, <2>9, <2>10,
         <2>11, <2>12, <2>13, <2>14, <2>15, <2>16, <2>17 DEF ServerStep, HandlerStep, ReaderStep
<1> QED
    BY <1>3, <1>4 DEF Closing

\* A client only takes answers off the wire, or loses them, which is a fault.
LEMMA ClientAnswers ==
  ASSUME TypeInv, ClientStep, ~Fault, NEW s \in Slots
  PROVE  resp'[s] \in {resp[s], None}
<1>t. resp \in [Slots -> Replies \cup {None}] /\ Slots = {"cmd", "auto", "poll"}
    BY TypeParts DEF NetTypes, Slots
<1>1. ASSUME NEW op \in Posts, Command(op)
      PROVE  resp' = resp
    BY <1>1 DEF Command
<1>2. CASE CommandAnswered \/ FallbackAnswered \/ ValidateAnswered \/ RecoverAnswered
    BY <1>2, <1>t DEF CommandAnswered, FallbackAnswered, ValidateAnswered, RecoverAnswered, Take
<1>3. CASE AutoAnswered
    BY <1>3, <1>t DEF AutoAnswered, Take
<1>4. CASE CountdownExpires \/ Validate
    BY <1>4 DEF CountdownExpires, Validate
<1>5. ~Reload /\ \A r \in Slots : ~Drop(r)
    BY DEF Reload, Drop
<1> QED
    BY <1>1, <1>2, <1>3, <1>4, <1>5 DEF ClientStep

\* The page gives a run up only on an answer that tells it to.
LEMMA ClientGivesUp ==
  ASSUME TypeInv, ClientStep, ~Fault, runId, ~runId'
  PROVE  \E s \in Slots : GivesUp(s)
<1>1. ASSUME NEW op \in Posts, Command(op)
      PROVE  FALSE
    BY <1>1 DEF Command
<1>2. CASE CommandAnswered
    BY <1>2 DEF CommandAnswered, Arrived, ApplyState, GivesUp, Slots
<1>3. CASE AutoAnswered
    BY <1>3 DEF AutoAnswered, Arrived, ApplyState, client, GivesUp, Slots
<1>4. CASE ValidateAnswered
    BY <1>4 DEF ValidateAnswered, Arrived, ApplyState, client, GivesUp, Slots
<1>5. ~CountdownExpires /\ ~FallbackAnswered /\ ~Validate /\ ~RecoverAnswered
    BY DEF CountdownExpires, FallbackAnswered, Validate, RecoverAnswered, ApplyState, client
<1>6. ~Reload /\ \A r \in Slots : ~Drop(r)
    BY DEF Reload, Drop
<1> QED
    BY <1>1, <1>2, <1>3, <1>4, <1>5, <1>6 DEF ClientStep

\* Whom a handler and a GET answer.
LEMMA FinishAnswers ==
  ASSUME TypeInv, ~NoJob, NEW a \in Replies, Finish(a), NEW s \in Slots
  PROVE  resp'[s] = resp[s] \/ (resp'[s] = a /\ s # "poll")
<1>1. resp \in [Slots -> Replies \cup {None}] /\ job.slot # "poll"
    BY TypeParts DEF NetTypes, ObjectTypes, JobShape
<1>2. \/ resp' = resp
      \/ resp' = [resp EXCEPT ![job.slot] = a]
    BY DEF Finish, netVars
<1> QED
    BY <1>1, <1>2

LEMMA ReplyAnswers ==
  ASSUME TypeInv, NEW r \in Slots, NEW a \in Replies, ReplyTo(r, a), NEW s \in Slots
  PROVE  resp'[s] = resp[s] \/ resp'[s] = a
BY TypeParts DEF NetTypes, ReplyTo

LEMMA AnswerView ==
  ASSUME NEW i \in Instances
  PROVE  Answer(i).kind = "state" /\ Answer(i).view.phase = i.phase
BY DEF Answer, View

\* An answer that will make the page give up is sent only when the run is over,
\* or about to be.
LEMMA GivingUp ==
  ASSUME TypeInv, ServerInv, [Next]_allVars, ServerStep, Calm',
         NEW s \in Slots, GivesUp(s)', ~GivesUp(s)
  PROVE  Closing'
<1>t. ObjectTypes /\ NetTypes /\ RestTypes
    BY TypeParts
<1>c. Calm /\ ~Fault /\ ~raced /\ ~raced'
    BY CalmBefore DEF Calm
<1>v. JobHoldsRun /\ CalmInv /\ LeaveClosed
    BY DEF ServerInv
<1>i. /\ dirty = FALSE
      /\ ~NoJob => job.step # "recheck"
      /\ db.ckpt.phase \in {"exploring", "room_clear", "combat_planning", "distributing"}
      /\ db.status = "distributing" =>
           mem = None \/ mem.phase = "distributing"
             \/ (mem.phase = "retreated" /\ ~NoJob /\ job.step = "abandon")
      /\ mem # None /\ mem.phase \in {"completed", "wiped"} =>
           db.status \notin Recoverable \/ (~NoJob /\ job.step \in {"complete", "wipe"})
    BY <1>c, <1>t, <1>v DEF CalmInv, RestTypes
<1>h. ~NoJob /\ job.step \notin {"get", "put"} => mem = job.inst /\ mem \in Instances /\ mem # None
    BY <1>c, <1>v, Held
<1>n. resp'[s] # resp[s]
    BY DEF GivesUp
<1>x. \/ resp'[s].kind = "left"
      \/ (resp'[s].kind = "state" /\ resp'[s].view.phase \in Over)
      \/ (s = "poll" /\ resp'[s].kind \in {"gone", "refused"})
    BY DEF GivesUp
<1>f. ASSUME NEW a \in Replies, ~NoJob, Finish(a)
      PROVE  resp'[s] = a /\ s # "poll" /\ job' = None
    BY <1>f, <1>n, FinishAnswers DEF Finish
<1>1. ASSUME NEW r \in Slots, Accept(r)
      PROVE  FALSE
    BY <1>1, <1>n DEF Accept, netVars
<1>2. ASSUME NEW r \in Slots, Read(r)
      PROVE  Closing'
  <2>1. mem \in Instances /\ mem # None /\ ReplyTo(r, Answer(mem)) /\ UNCHANGED <<mem, job, db>>
      BY <1>2, <1>t, <1>c, <1>i DEF Read, ObjectTypes
  <2>2. resp'[s] = Answer(mem)
      BY <1>n, <2>1, ReplyAnswers, InstanceTypes
  <2>3. mem.phase \in {"completed", "wiped"}
      BY <1>x, <2>1, <2>2, AnswerView DEF Over
  <2>4. CASE ~NoJob /\ job.step \in {"complete", "wipe"}
      BY <2>1, <2>4 DEF Closing, Ending, NoJob
  <2>5. CASE NoJob \/ job.step \notin {"complete", "wipe"}
    <3>1. db.status \notin Recoverable
        BY <1>i, <2>1, <2>3, <2>5
    <3>2. ~NoJob => job.step \in {"get", "handle", "abandon", "leave"}
      <4>1. ~NoJob => job.step \in Steps
          BY <1>t DEF ObjectTypes, NoJob, Jobs
      <4>2. ~NoJob => job.step # "put"
          BY <1>c, <1>v, <2>1 DEF JobHoldsRun
      <4>3. ~NoJob => job.step \notin {"resolve", "begin", "finalize", "checkpoint"}
          BY <1>t, <1>h, <2>3 DEF ObjectTypes, JobShape
      <4> QED
          BY <1>i, <2>5, <4>1, <4>2, <4>3 DEF Steps
    <3> QED
        BY <2>1, <2>3, <3>1, <3>2 DEF Closing, Ended, NoJob
  <2> QED
      BY <2>4, <2>5
<1>3. ASSUME NEW r \in Slots, ReadRow(r)
      PROVE  Closing'
  <2>1. mem = None /\ UNCHANGED <<mem, job, db>> /\ db.status \notin Recoverable
      BY <1>3, <1>n DEF ReadRow, netVars
  <2>2. ~NoJob => job.step = "get"
      BY <1>c, <1>v, <1>h, <2>1 DEF JobHoldsRun
  <2> QED
      BY <2>1, <2>2 DEF Closing, Ended, NoJob
<1>4. ASSUME NEW r \in Slots, ReadFails(r)
      PROVE  FALSE
    BY <1>4, <1>c DEF ReadFails
<1>5. ASSUME NEW r \in Slots, Store(r)
      PROVE  FALSE
  <2>1. reader = db.ckpt /\ ReplyTo(r, Answer(reader)) /\ db.ckpt \in Instances
      BY <1>5, <1>t, <1>c, StoreEffect DEF Store, RestTypes
  <2>2. resp'[s] = Answer(db.ckpt)
      BY <1>n, <2>1, ReplyAnswers, InstanceTypes
  <2> QED
      BY <1>5, <1>x, <1>i, <2>1, <2>2, AnswerView DEF Over
<1>6. CASE Select
  <2>1. Finish(Gone) /\ ~NoJob
      BY <1>6, <1>n DEF Select, netVars
  <2> QED
      BY <1>f, <1>x, <2>1, RefusalTypes DEF Gone
<1>7. CASE Move \/ Submit \/ AssignLoot \/ Confirm
  <2>1. Finish(Refused) /\ ~NoJob
      BY <1>7, <1>t, <1>n, MoveEffect, SubmitEffect, AssignEffect, ConfirmEffect
      DEF netVars, Move, Submit, AssignLoot, Confirm, Handling
  <2> QED
      BY <1>f, <1>x, <2>1, RefusalTypes DEF Refused
<1>8. CASE RpcFails
  <2>1. ~NoJob /\ job.step \in RPCs /\ UNCHANGED <<mem, db>> /\ db.status \notin Guarded[job.step]
      BY <1>8, <1>c, GuardedRpcs DEF RpcFails
  <2>2. mem = job.inst /\ mem \in Instances /\ mem # None
      BY <1>h, <2>1 DEF RPCs
  <2>3. CASE job.step = "finalize"
    <3>1. Finish(Refused)
        BY <1>8, <2>3 DEF RpcFails
    <3> QED
        BY <1>f, <1>x, <2>1, <3>1, RefusalTypes DEF Refused
  <2>4. CASE job.step = "begin"
    <3>1. Finish(Answer(mem)) /\ mem.phase = "distributing"
        BY <1>8, <1>t, <2>1, <2>2, <2>4 DEF RpcFails, ObjectTypes, JobShape
    <3>2. resp'[s] = Answer(mem)
        BY <1>f, <2>1, <2>2, <3>1, InstanceTypes
    <3> QED
        BY <1>f, <1>x, <2>1, <2>2, <3>1, <3>2, InstanceTypes, AnswerView DEF Over
  <2>5. CASE job.step \in {"complete", "wipe", "abandon"}
    <3>1. mem.phase \in {"completed", "wiped", "retreated"} /\ job' = None
          /\ (job.step # "abandon" => mem.phase \in {"completed", "wiped"})
        BY <1>8, <1>t, <2>1, <2>2, <2>5 DEF RpcFails, Finish, ObjectTypes, JobShape
    <3>2. db.status \notin Recoverable
        BY <1>i, <2>1, <2>2, <2>5, <3>1 DEF Guarded, Recoverable
    <3> QED
        BY <2>1, <3>1, <3>2 DEF Closing, Ended, NoJob
  <2> QED
      BY <2>1, <2>3, <2>4, <2>5 DEF RPCs
<1>9. CASE Leave
  <2>1. ~NoJob /\ job.step = "leave" /\ mem' = None /\ db' = db /\ job' = None
      BY <1>9 DEF Leave, Finish
  <2>2. db.status \notin Recoverable
      BY <1>c, <1>v, <2>1 DEF LeaveClosed, Recoverable, Running
  <2> QED
      BY <2>1, <2>2 DEF Closing, Ended, NoJob
<1>10. CASE Checkpoint
  <2>1. ~NoJob /\ job.inst \in Instances /\ Finish(Answer(job.inst))
        /\ job.inst.phase \in {"combat_planning", "room_clear", "distributing"}
      BY <1>10, <1>t, <1>h DEF Checkpoint, ObjectTypes, JobShape
  <2>2. resp'[s] = Answer(job.inst) /\ s # "poll"
      BY <1>f, <2>1, InstanceTypes
  <2> QED
      BY <1>x, <2>1, <2>2, AnswerView DEF Over
<1>11. /\ ~Get /\ ~Put /\ ~Recheck /\ ~Retreat /\ ~NextRound /\ ~RoomCleared /\ ~BossVictory
       /\ ~PartyWipe /\ ~Commit /\ ~CombatTimerFires /\ ~DistTimerFires /\ ~Evict /\ ~Expire
    BY <1>n DEF netVars, Get, Put, Recheck, Retreat, NextRound, RoomCleared, BossVictory,
       PartyWipe, Commit, CombatTimerFires, DistTimerFires, Evict, Expire
<1>12. ~Crash
    BY <1>c DEF Crash
<1> QED
    BY <1>1, <1>2, <1>3, <1>4, <1>5, <1>6, <1>7, <1>8, <1>9, <1>10, <1>11, <1>12
    DEF ServerStep, HandlerStep, ReaderStep

\* Every step keeps ForgetInv.
LEMMA ForgetStep == TypeInv /\ ServerInv /\ ForgetInv /\ [Next]_allVars => ForgetInv'
<1> SUFFICES ASSUME TypeInv, ServerInv, ForgetInv, [Next]_allVars, Calm',
                    (\E s \in Slots : GivesUp(s)') \/ ~runId'
             PROVE  Closing'
    BY DEF ForgetInv, Closing
<1>c. Calm /\ ~Fault
    BY CalmBefore
<1>1. (\E s \in Slots : GivesUp(s)) \/ ~runId => Closing
    BY <1>c DEF ForgetInv, Closing
<1>2. CASE (\E s \in Slots : GivesUp(s)) \/ ~runId
    BY <1>1, <1>2, ClosingStays
<1>3. CASE ~(\E s \in Slots : GivesUp(s)) /\ runId
  <2>1. CASE ServerStep /\ UNCHANGED <<client, doing>>
    <3>1. PICK s \in Slots : GivesUp(s)'
        BY <1>3, <2>1 DEF client
    <3> QED
        BY <1>3, <2>1, <3>1, GivingUp
  <2>2. CASE ClientStep
    <3>1. runId'
        BY <1>c, <1>3, <2>2, ClientGivesUp
    <3>2. PICK s \in Slots : GivesUp(s)'
        BY <3>1
    <3>3. resp'[s] = resp[s]
        BY <1>c, <2>2, <3>2, ClientAnswers DEF GivesUp
    <3> QED
        BY <1>3, <3>2, <3>3 DEF GivesUp
  <2>3. CASE UNCHANGED allVars
      BY <1>3, <2>3 DEF allVars, vars, client, GivesUp
  <2> QED
      BY <2>1, <2>2, <2>3 DEF Next
<1> QED
    BY <1>2, <1>3

\* As long as nothing fails, the page forgets a run only when it is over in the
\* database, or when the lock-free GET has shown it the end of a handler that is
\* about to commit it.
THEOREM ForgottenWhenOver == Spec => []ForgottenOnlyWhenOver
<1>1. ClientInit => ForgetInv
    BY DEF ClientInit, Init, ForgetInv, GivesUp
<1>2. ForgetInv => ForgottenOnlyWhenOver
    BY DEF ForgetInv, ForgottenOnlyWhenOver, Calm, Ended, Ending
<1> QED
    BY <1>1, <1>2, ForgetStep, TypeCorrect, ServerConsistent, PTL DEF Spec

=============================================================================
