--------------------------- MODULE EpochMissions ---------------------------
(***************************************************************************)
(* Operatives and Resonance Points (RP) in one running epoch.              *)
(*                                                                         *)
(* Participants spend RP to deploy operatives, sweep for enemy ones and    *)
(* fortify their zones, and recall operatives for half the price.  Each of *)
(* these is a coroutine of several database calls.  Meanwhile the pipeline *)
(* of the current cycle grants RP, advances the operatives' timers, and    *)
(* resolves the missions whose time is up; so may the creator.             *)
(*                                                                         *)
(* Who runs the pipeline, and that only one does at a time, is EpochCycle's *)
(* subject: here it is one process that goes round and round.              *)
(***************************************************************************)
EXTENDS EpochPhase, ZoneSecurity, FiniteSets

CONSTANTS
    Sim,              \* participating simulations
    Agent, Owner,     \* their agents, and whose each is
    Zone, Home,       \* their zones, and whose each is
    ZoneLevel,        \* the zones' levels at the start
    Privileged,       \* simulations whose client bypasses row-level security
    Request,          \* HTTP requests that may be in progress at once
    Pipeline,         \* the resolution of the current cycle
    CreatorResolves,  \* may a request be the creator's operatives/resolve?
    RpPerCycle, RpCap, TransferCap,   \* config; p_rp_cap's default
    FortificationCycles,              \* FORTIFICATION_DURATION_CYCLES
    DeployKind,       \* the kinds of operatives deployed in a behaviour
    Resonance,        \* the choices for substrate_tap in a behaviour
    MissionId,        \* bound on missions in a behaviour
    MaxRequests,      \* bound on requests in a behaviour
    MaxFaults         \* bound on failed calls in a behaviour

Kind == {"spy", "saboteur", "propagandist", "assassin", "guardian", "infiltrator"}

ASSUME MissionAssumption ==
    /\ Owner \in [Agent -> Sim] /\ Home \in [Zone -> Sim]
    /\ ZoneLevel \in [Zone -> Level] /\ Privileged \subseteq Sim
    /\ Pipeline \notin Request /\ CreatorResolves \in BOOLEAN
    /\ RpPerCycle \in Nat /\ RpCap \in Nat /\ TransferCap \in Nat
    /\ FortificationCycles \in Nat \ {0}
    /\ DeployKind \subseteq Kind /\ Resonance \subseteq BOOLEAN
    /\ MaxRequests \in Nat /\ MaxFaults \in Nat
    /\ IsFiniteSet(MissionId) /\ 0 \notin MissionId

Proc == Request \cup {Pipeline}

\* OPERATIVE_RP_COSTS, OPERATIVE_DEPLOY_CYCLES, OPERATIVE_MISSION_CYCLES.
Cost == [spy |-> 3, saboteur |-> 5, propagandist |-> 4,
         assassin |-> 7, guardian |-> 4, infiltrator |-> 5]
Travel == [spy |-> 0, saboteur |-> 1, propagandist |-> 1,
           assassin |-> 2, guardian |-> 0, infiltrator |-> 2]
Stay == [spy |-> 3, saboteur |-> 1, propagandist |-> 2,
         assassin |-> 1, guardian |-> 0, infiltrator |-> 3]

\* FORTIFICATION_RP_COST and the price counter_intel_sweep names.
FortifyCost == 2
SweepCost   == 4

VARIABLES
    \* the game_epochs row, participants' current_rp
    status, current_cycle, rp,
    \* operative_missions, zones' security_level, zone_fortifications (the
    \* expiry cycle, 0 for a zone without one)
    missions, zone, fort,
    \* the coroutines: next call, and the locals it will use
    pc, loc,
    \* requests and failed calls so far
    asked, faults,
    \* history: how often a mission's effect was applied and its price
    \* refunded, the cycle it was inserted in, RP taken by requests that
    \* have not delivered, zones a saboteur reached, agents two requests have
    \* dealt with at once, and whether two processes have resolved at once
    effects, refunds, born, taken, hit, overlapped, contested

epoch   == <<status, current_cycle>>
zones   == <<zone, fort>>
bounds  == <<asked, faults>>
history == <<effects, refunds, born, taken, hit, overlapped, contested>>
vars    == <<epoch, rp, missions, zones, pc, loc, bounds, history>>

(***************************************************************************)
(* A mission's row.  left is the time until resolves_at, in cycles.        *)
(***************************************************************************)
Open    == {"deploying", "active"}
Outcome == {"success", "failed", "detected"}
MissionStatus == Open \cup Outcome \cup {"returning", "expired"}

Row == [status : MissionStatus, kind : Kind, agent : Agent, source : Sim,
        target : Sim \cup {"none"}, cost : Nat, tap : BOOLEAN, left : Nat]
NoMission == [status |-> "none"]

Missions == {m \in MissionId : missions[m] # NoMission}
OpenMissions == {m \in Missions : missions[m].status \in Open}

\* deploy counts an operative on its way back as busy.
Busy(a) == {m \in Missions : missions[m].agent = a
                /\ missions[m].status \in Open \cup {"returning"}}

\* A coroutine's locals: the sim that sweeps, the zone to fortify, the mission
\* it is dealing with, the row it is about to insert, the missions it has
\* selected with the status each had, and the epoch's status as it read it.
Blank == [sim |-> "none", zone |-> "none", mission |-> 0, order |-> NoMission,
          todo |-> {}, status |-> "lobby"]
Locals == [sim : Sim \cup {"none"}, zone : Zone \cup {"none"},
           mission : MissionId \cup {0}, order : Row \cup {NoMission},
           todo : SUBSET (MissionId \X MissionStatus), status : Status]

\* Labels of resolve_pending_missions; an outcome is about to be written.
Resolving == {"select", "resolve", "tap"} \cup Outcome
Label == {"idle", "spend", "insert", "refund", "return", "pay", "scan", "mark",
          "fortify", "grant", "timers", "advance", "expire"} \cup Resolving

Capped(n, cap) == IF n < cap THEN n ELSE cap

\* fn_batch_grant_rp's amount: half as much again during the foundation.
GrantAmount(s) == IF s = "foundation" THEN (3 * RpPerCycle) \div 2 ELSE RpPerCycle

\* start_epoch has granted the first RP.
Init ==
    /\ status = "foundation" /\ current_cycle = 1
    /\ rp = [s \in Sim |-> Capped(GrantAmount("foundation"), RpCap)]
    /\ missions = [m \in MissionId |-> NoMission]
    /\ zone = ZoneLevel /\ fort = [z \in Zone |-> 0]
    /\ pc = [p \in Proc |-> "idle"] /\ loc = [p \in Proc |-> Blank]
    /\ asked = 0 /\ faults = 0
    /\ effects = [m \in MissionId |-> 0] /\ refunds = [m \in MissionId |-> 0]
    /\ born = [m \in MissionId |-> 0]
    /\ taken = [r \in Request |-> 0] /\ hit = {} /\ overlapped = {}
    /\ contested = FALSE

Goto(p, l) == pc' = [pc EXCEPT ![p] = l]
Return(p) ==
    /\ Goto(p, "idle")
    /\ loc' = [loc EXCEPT ![p] = Blank]

\* A request arrives, and l is its next call.
Arrive(r, l) ==
    /\ pc[r] = "idle" /\ asked < MaxRequests
    /\ asked' = asked + 1
    /\ Goto(r, l)

\* The agent a request is dealing with, and the note that two of them are.
Concerns(r, a) ==
    \/ loc[r].order # NoMission /\ loc[r].order.agent = a
    \/ loc[r].mission # 0 /\ missions[loc[r].mission].agent = a
NoteOverlap(r, a) ==
    overlapped' = IF \E q \in Request \ {r} : Concerns(q, a)
                  THEN overlapped \cup {a} ELSE overlapped

(***************************************************************************)
(* spend_rp: one UPDATE with the balance in its WHERE clause.              *)
(***************************************************************************)
\* Mutant of SpendRp: the balance the caller saw when it began is trusted.
SpendRpUnchecked(r, s, n) ==
    /\ rp' = [rp EXCEPT ![s] = @ - n]
    /\ taken' = [taken EXCEPT ![r] = @ + n]

SpendRp(r, s, n) ==
    /\ rp[s] >= n
    /\ rp' = [rp EXCEPT ![s] = @ - n]
    /\ taken' = [taken EXCEPT ![r] = @ + n]

(***************************************************************************)
(* deploy.                                                                 *)
(***************************************************************************)
\* What may be deployed in which phase.
Deployable(k) == status \in ActiveStatus
                     /\ (status = "foundation" => k \in {"guardian", "spy"})

NewRow(a, k, t, tap) ==
    [status |-> IF Travel[k] = 0 THEN "active" ELSE "deploying",
     kind |-> k, agent |-> a, source |-> Owner[a],
     target |-> IF k = "guardian" THEN "none" ELSE t,
     cost |-> Cost[k] + (IF tap THEN 2 ELSE 0), tap |-> tap,
     left |-> Travel[k] + Stay[k]]

\* Rows in use or about to be: the bound MissionId leaves room for one more.
Reserved == Cardinality(Missions)
                + Cardinality({r \in Request : loc[r].order # NoMission})

\* Mutant of CheckDeploy: an operative on its way back counts as free.
CheckDeployOfReturning(r, a, k, t, tap) ==
    /\ Reserved < Cardinality(MissionId)
    /\ Deployable(k)
    /\ Busy(a) \cap OpenMissions = {}
    /\ Arrive(r, "spend")
    /\ loc' = [loc EXCEPT ![r].order = NewRow(a, k, t, tap)]
    /\ NoteOverlap(r, a)
    /\ UNCHANGED <<epoch, rp, missions, zones, faults, effects, refunds, born,
                   taken, hit, contested>>

\* The checks, up to the one that the agent is not on a mission.
CheckDeploy(r, a, k, t, tap) ==
    /\ Reserved < Cardinality(MissionId)
    /\ Deployable(k)
    /\ Busy(a) = {}
    /\ Arrive(r, "spend")
    /\ loc' = [loc EXCEPT ![r].order = NewRow(a, k, t, tap)]
    /\ NoteOverlap(r, a)
    /\ UNCHANGED <<epoch, rp, missions, zones, faults, effects, refunds, born,
                   taken, hit, contested>>

PayDeploy(r) ==
    /\ pc[r] = "spend"
    /\ SpendRp(r, loc[r].order.source, loc[r].order.cost)
    /\ Goto(r, "insert")
    /\ UNCHANGED <<epoch, missions, zones, loc, bounds, effects, refunds, born,
                   hit, overlapped, contested>>

CannotPayDeploy(r) ==
    /\ pc[r] = "spend"
    /\ rp[loc[r].order.source] < loc[r].order.cost
    /\ Return(r)
    /\ UNCHANGED <<epoch, rp, missions, zones, bounds, history>>

\* The database picks an unused identifier.
NewId == CHOOSE m \in MissionId : m \notin Missions

\* The first cycle whose AdvanceMissionTimers a mission inserted now will see.
FirstTick == IF pc[Pipeline] = "advance" THEN current_cycle + 1 ELSE current_cycle

\* Mutant of InsertMission: the agent is checked again, after the payment.
InsertMissionIfFree(r) ==
    /\ pc[r] = "insert"
    /\ IF Busy(loc[r].order.agent) = {}
       THEN LET m == NewId
            IN  /\ missions' = [missions EXCEPT ![m] = loc[r].order]
                /\ born' = [born EXCEPT ![m] = FirstTick]
                /\ taken' = [taken EXCEPT ![r] = @ - loc[r].order.cost]
       ELSE UNCHANGED <<missions, born, taken>>
    /\ Return(r)
    /\ UNCHANGED <<epoch, rp, zones, bounds, effects, refunds, hit, overlapped,
                   contested>>

InsertMission(r) ==
    /\ pc[r] = "insert"
    /\ LET m == NewId
       IN  /\ missions' = [missions EXCEPT ![m] = loc[r].order]
           /\ born' = [born EXCEPT ![m] = FirstTick]
    /\ taken' = [taken EXCEPT ![r] = @ - loc[r].order.cost]
    /\ Return(r)
    /\ UNCHANGED <<epoch, rp, zones, bounds, effects, refunds, hit, overlapped,
                   contested>>

(***************************************************************************)
(* recall.                                                                 *)
(***************************************************************************)
\* Mutant of CheckRecall: an operative on its way back may be recalled.
CheckRecallAgain(r, m) ==
    /\ status \in ActiveStatus
    /\ m \in Busy(missions[m].agent)
    /\ Arrive(r, "refund")
    /\ loc' = [loc EXCEPT ![r].mission = m]
    /\ NoteOverlap(r, missions[m].agent)
    /\ UNCHANGED <<epoch, rp, missions, zones, faults, effects, refunds, born,
                   taken, hit, contested>>

CheckRecall(r, m) ==
    /\ status \in ActiveStatus
    /\ m \in OpenMissions
    /\ Arrive(r, "refund")
    /\ loc' = [loc EXCEPT ![r].mission = m]
    /\ NoteOverlap(r, missions[m].agent)
    /\ UNCHANGED <<epoch, rp, missions, zones, faults, effects, refunds, born,
                   taken, hit, contested>>

\* grant_rp of half the price of the kind, rounded down.
RefundHalf(r) ==
    /\ pc[r] = "refund"
    /\ LET m == loc[r].mission
           s == missions[m].source
       IN  /\ rp' = [rp EXCEPT ![s] =
                        Capped(@ + Cost[missions[m].kind] \div 2, RpCap)]
           /\ refunds' = [refunds EXCEPT ![m] = @ + 1]
    /\ Goto(r, "return")
    /\ UNCHANGED <<epoch, missions, zones, loc, bounds, effects, born, taken,
                   hit, overlapped, contested>>

\* The UPDATE to "returning" does not look at the status.
ReturnOperative(r) ==
    /\ pc[r] = "return"
    /\ missions' = [missions EXCEPT ![loc[r].mission].status = "returning"]
    /\ Return(r)
    /\ UNCHANGED <<epoch, rp, zones, bounds, history>>

(***************************************************************************)
(* counter_intel_sweep.                                                    *)
(***************************************************************************)
CheckSweep(r, s) ==
    /\ status \in ActiveStatus /\ current_cycle >= 2
    /\ Arrive(r, "pay")
    /\ loc' = [loc EXCEPT ![r].sim = s]
    /\ UNCHANGED <<epoch, rp, missions, zones, faults, history>>

PaySweep(r) ==
    /\ pc[r] = "pay"
    /\ \/ /\ SpendRp(r, loc[r].sim, SweepCost)
          /\ Goto(r, "scan")
          /\ UNCHANGED loc
       \/ /\ rp[loc[r].sim] < SweepCost
          /\ Return(r)
          /\ UNCHANGED <<rp, taken>>
    /\ UNCHANGED <<epoch, missions, zones, bounds, effects, refunds, born, hit,
                   overlapped, contested>>

\* A guardian has no target and is never found.
Intruders(s) == {m \in OpenMissions : missions[m].target = s}

Scan(r) ==
    /\ pc[r] = "scan"
    /\ loc' = [loc EXCEPT ![r].todo =
                  {<<m, missions[m].status>> : m \in Intruders(loc[r].sim)}]
    /\ Goto(r, "mark")
    /\ UNCHANGED <<epoch, rp, missions, zones, bounds, history>>

\* The policy operative_missions_update: the row belongs to the simulation that
\* sent the operative.  Anybody else's UPDATE changes no row.
MayWrite(s, m) == s \in Privileged \cup {missions[m].source}

\* One UPDATE per intruder; one that fails is passed over.
MarkDetected(r) ==
    /\ pc[r] = "mark"
    /\ \E job \in loc[r].todo :
          /\ \/ /\ missions' = IF MayWrite(loc[r].sim, job[1])
                              THEN [missions EXCEPT ![job[1]].status = "detected"]
                              ELSE missions
                /\ UNCHANGED faults
             \/ /\ faults < MaxFaults /\ faults' = faults + 1
                /\ UNCHANGED missions
          /\ loc' = [loc EXCEPT ![r].todo = @ \ {job}]
    /\ UNCHANGED <<epoch, asked, rp, zones, pc, history>>

EndSweep(r) ==
    /\ pc[r] = "mark" /\ loc[r].todo = {}
    /\ taken' = [taken EXCEPT ![r] = @ - SweepCost]
    /\ Return(r)
    /\ UNCHANGED <<epoch, rp, missions, zones, bounds, effects, refunds, born,
                   hit, overlapped, contested>>

(***************************************************************************)
(* fortify_zone.  The RPC does the rest in one transaction.                *)
(***************************************************************************)
CheckFortify(r, z) ==
    /\ status = "foundation"
    /\ Arrive(r, "fortify")
    /\ loc' = [loc EXCEPT ![r].zone = z]
    /\ UNCHANGED <<epoch, rp, missions, zones, faults, history>>

FortifyZone(r) ==
    /\ pc[r] = "fortify"
    /\ LET z == loc[r].zone
           s == Home[z]
       IN  \/ /\ fort[z] = 0 /\ rp[s] >= FortifyCost
              /\ rp' = [rp EXCEPT ![s] = @ - FortifyCost]
              /\ zone' = [zone EXCEPT ![z] = Fortified(@)]
              /\ fort' = [fort EXCEPT ![z] = FoundationCycles + FortificationCycles]
           \/ /\ fort[z] # 0 \/ rp[s] < FortifyCost
              /\ UNCHANGED <<rp, zones>>
    /\ Return(r)
    /\ UNCHANGED <<epoch, missions, bounds, history>>

(***************************************************************************)
(* The pipeline of a cycle: its RP grant, timers and increment, ...        *)
(***************************************************************************)
StartCycle ==
    /\ pc[Pipeline] = "idle"
    /\ status \in ActiveStatus
    /\ Goto(Pipeline, "grant")
    /\ loc' = [loc EXCEPT ![Pipeline].status = status]
    /\ UNCHANGED <<epoch, rp, missions, zones, bounds, history>>

BatchGrantRp ==
    /\ pc[Pipeline] = "grant"
    /\ rp' = [s \in Sim |-> Capped(rp[s] + GrantAmount(loc[Pipeline].status), RpCap)]
    /\ Goto(Pipeline, "timers")
    /\ UNCHANGED <<epoch, missions, zones, loc, bounds, history>>

\* Mutant of AdvanceMissionTimers: only operatives under way are advanced.
AdvanceTravelTimers ==
    /\ pc[Pipeline] = "timers"
    /\ missions' = [m \in MissionId |->
          IF missions[m].status = "deploying" /\ missions[m].left > 0
          THEN [missions[m] EXCEPT !.left = @ - 1] ELSE missions[m]]
    /\ Goto(Pipeline, "advance")
    /\ UNCHANGED <<epoch, rp, zones, loc, bounds, history>>

\* A guardian's resolves_at, a year ahead, is left alone.
AdvanceMissionTimers ==
    /\ pc[Pipeline] = "timers"
    /\ missions' = [m \in MissionId |->
          IF m \in OpenMissions /\ missions[m].kind # "guardian" /\ missions[m].left > 0
          THEN [missions[m] EXCEPT !.left = @ - 1] ELSE missions[m]]
    /\ Goto(Pipeline, "advance")
    /\ UNCHANGED <<epoch, rp, zones, loc, bounds, history>>

\* The increment; the trigger fn_resolve_missions_on_epoch_end expires the
\* open missions of an epoch it completes.
AdvanceCycle ==
    /\ pc[Pipeline] = "advance"
    /\ current_cycle' = current_cycle + 1
    /\ status' = PhaseAfter(status, current_cycle + 1)
    /\ missions' = [m \in MissionId |->
          IF status' = "completed" /\ m \in OpenMissions
          THEN [missions[m] EXCEPT !.status = "expired"] ELSE missions[m]]
    /\ Goto(Pipeline, "select")
    /\ UNCHANGED <<rp, zones, loc, bounds, history>>

(***************************************************************************)
(* ... resolve_pending_missions, which the creator may also request, ...   *)
(***************************************************************************)
RequestResolve(r) ==
    /\ CreatorResolves
    /\ Arrive(r, "select")
    /\ UNCHANGED <<epoch, rp, missions, zones, loc, faults, history>>

Pending == {m \in OpenMissions : missions[m].kind # "guardian" /\ missions[m].left = 0}

SelectPending(p) ==
    /\ pc[p] = "select"
    /\ loc' = [loc EXCEPT ![p].todo = {<<m, missions[m].status>> : m \in Pending}]
    /\ Goto(p, "resolve")
    /\ contested' = (contested \/ \E q \in Proc \ {p} : pc[q] \in Resolving \ {"select"})
    /\ UNCHANGED <<epoch, rp, missions, zones, bounds, effects, refunds, born,
                   taken, hit, overlapped>>

\* Mutant of ActivateMission: the status is not compared.
ActivateBlindly(p) ==
    /\ pc[p] = "resolve"
    /\ \E m \in MissionId :
          /\ <<m, "deploying">> \in loc[p].todo
          /\ missions' = [missions EXCEPT ![m].status = "active"]
          /\ loc' = [loc EXCEPT ![p].todo = @ \ {<<m, "deploying">>}]
    /\ UNCHANGED <<epoch, rp, zones, pc, bounds, history>>

\* fn_transition_mission_status, from "deploying" to "active".
ActivateMission(p) ==
    /\ pc[p] = "resolve"
    /\ \E m \in MissionId :
          /\ <<m, "deploying">> \in loc[p].todo
          /\ missions' = IF missions[m].status = "deploying"
                         THEN [missions EXCEPT ![m].status = "active"] ELSE missions
          /\ loc' = [loc EXCEPT ![p].todo = @ \ {<<m, "deploying">>}]
    /\ UNCHANGED <<epoch, rp, zones, pc, bounds, history>>

\* _apply_saboteur_effect, as far as it goes here: one tier off a random zone.
ApplyEffect(m) ==
    LET targets == {z \in Zone : missions[m].kind = "saboteur"
                                    /\ Home[z] = missions[m].target}
    IN  \/ targets = {} /\ UNCHANGED <<zone, hit>>
        \/ \E z \in targets :
              /\ zone' = [zone EXCEPT ![z] = Sabotaged(@)]
              /\ hit' = hit \cup {z}

\* The roll succeeds: the effect comes first.  Other kinds' are only counted.
RollSuccess(p) ==
    /\ pc[p] = "resolve"
    /\ \E m \in MissionId :
          /\ <<m, "active">> \in loc[p].todo
          /\ ApplyEffect(m)
          /\ effects' = [effects EXCEPT ![m] = @ + 1]
          /\ loc' = [loc EXCEPT ![p].todo = @ \ {<<m, "active">>}, ![p].mission = m]
          /\ Goto(p, IF missions[m].tap THEN "tap" ELSE "success")
    /\ UNCHANGED <<epoch, rp, missions, fort, bounds, refunds, born, taken,
                   overlapped, contested>>

RollFailure(p) ==
    /\ pc[p] = "resolve"
    /\ \E m \in MissionId :
          /\ <<m, "active">> \in loc[p].todo
          /\ loc' = [loc EXCEPT ![p].todo = @ \ {<<m, "active">>}, ![p].mission = m]
    /\ Goto(p, "failed") \/ Goto(p, "detected")
    /\ UNCHANGED <<epoch, rp, missions, zones, bounds, history>>

\* fn_transfer_rp_atomic takes one RP from one simulation and gives it to another.
Transferred(from, to) ==
    [s \in Sim |-> CASE s = from -> rp[s] - 1
                     [] s = to   -> Capped(rp[s] + 1, TransferCap)
                     [] OTHER    -> rp[s]]

\* Mutant of TapRp: a successful transfer returns before the final UPDATE.
TapAndReturn(p) ==
    /\ pc[p] = "tap"
    /\ LET from == missions[loc[p].mission].target
           to   == missions[loc[p].mission].source
       IN  rp' = Transferred(from, to)
    /\ loc' = [loc EXCEPT ![p].mission = 0]
    /\ Goto(p, "resolve")
    /\ UNCHANGED <<epoch, missions, zones, bounds, history>>

\* Substrate Tap: fn_transfer_rp_atomic, called without a cap, so that its
\* default applies; an error is swallowed.
TapRp(p) ==
    /\ pc[p] = "tap"
    /\ LET from == missions[loc[p].mission].target
           to   == missions[loc[p].mission].source
       IN  \/ /\ rp' = IF rp[from] >= 1 THEN Transferred(from, to) ELSE rp
              /\ UNCHANGED faults
           \/ /\ faults < MaxFaults /\ faults' = faults + 1
              /\ UNCHANGED rp
    /\ Goto(p, "success")
    /\ UNCHANGED <<epoch, asked, missions, zones, loc, history>>

\* The UPDATE that ends the mission does not look at its status.
Conclude(p) ==
    /\ pc[p] \in Outcome
    /\ missions' = [missions EXCEPT ![loc[p].mission].status = pc[p]]
    /\ loc' = [loc EXCEPT ![p].mission = 0]
    /\ Goto(p, "resolve")
    /\ UNCHANGED <<epoch, rp, zones, bounds, history>>

AllResolved(p) ==
    /\ pc[p] = "resolve" /\ loc[p].todo = {}
    /\ IF p = Pipeline THEN Goto(p, "expire") /\ UNCHANGED loc ELSE Return(p)
    /\ UNCHANGED <<epoch, rp, missions, zones, bounds, history>>

(***************************************************************************)
(* ... and fn_expire_fortifications.                                       *)
(***************************************************************************)
\* Mutant of ExpireFortifications: the row goes, the tier stays.
ForgetFortifications ==
    /\ pc[Pipeline] = "expire"
    /\ fort' = [z \in Zone |-> IF fort[z] <= current_cycle THEN 0 ELSE fort[z]]
    /\ Return(Pipeline)
    /\ UNCHANGED <<epoch, rp, missions, zone, bounds, history>>

ExpireFortifications ==
    /\ pc[Pipeline] = "expire"
    /\ LET old == {z \in Zone : fort[z] \in 1..current_cycle}
       IN  /\ zone' = [z \in Zone |-> IF z \in old THEN Unfortified(zone[z]) ELSE zone[z]]
           /\ fort' = [z \in Zone |-> IF z \in old THEN 0 ELSE fort[z]]
    /\ Return(Pipeline)
    /\ UNCHANGED <<epoch, rp, missions, bounds, history>>

(***************************************************************************)
(* A call fails.  A request ends there; the pipeline gives up the missions *)
(* and goes on to the fortifications, or gives up the cycle.               *)
(***************************************************************************)
CallFails(p) ==
    /\ faults < MaxFaults
    /\ pc[p] \notin {"idle", "tap", "mark"}
    /\ faults' = faults + 1
    /\ IF p = Pipeline /\ pc[p] \in Resolving
       THEN Goto(p, "expire") /\ loc' = [loc EXCEPT ![p] = Blank]
       ELSE Return(p)
    /\ UNCHANGED <<epoch, asked, rp, missions, zones, history>>

-----------------------------------------------------------------------------
Begin(r) ==
    \/ \E a \in Agent, k \in DeployKind, tap \in Resonance :
          \E t \in Sim \ {Owner[a]} : CheckDeploy(r, a, k, t, tap)
    \/ \E m \in Missions : CheckRecall(r, m)
    \/ \E s \in Sim : CheckSweep(r, s)
    \/ \E z \in Zone : CheckFortify(r, z)
    \/ RequestResolve(r)

Continue(r) ==
    \/ PayDeploy(r) \/ CannotPayDeploy(r) \/ InsertMission(r)
    \/ RefundHalf(r) \/ ReturnOperative(r)
    \/ PaySweep(r) \/ Scan(r) \/ MarkDetected(r) \/ EndSweep(r)
    \/ FortifyZone(r)

Cycle ==
    \/ StartCycle \/ BatchGrantRp \/ AdvanceMissionTimers \/ AdvanceCycle
    \/ ExpireFortifications

Resolve(p) ==
    \/ SelectPending(p) \/ ActivateMission(p) \/ RollSuccess(p) \/ RollFailure(p)
    \/ TapRp(p) \/ Conclude(p) \/ AllResolved(p)

Next ==
    \/ \E r \in Request : Begin(r) \/ Continue(r)
    \/ Cycle
    \/ \E p \in Proc : Resolve(p) \/ CallFails(p)

Spec == Init /\ [][Next]_vars

-----------------------------------------------------------------------------
(***************************************************************************)
(* Properties.                                                             *)
(***************************************************************************)
TypeOK ==
    /\ status \in Status /\ current_cycle \in Nat /\ rp \in [Sim -> Nat]
    /\ missions \in [MissionId -> Row \cup {NoMission}]
    /\ zone \in [Zone -> Level] /\ fort \in [Zone -> Nat]
    /\ pc \in [Proc -> Label] /\ loc \in [Proc -> Locals] /\ faults \in Nat
    /\ effects \in [MissionId -> Nat] /\ refunds \in [MissionId -> Nat]
    /\ born \in [MissionId -> Nat] /\ taken \in [Request -> Nat]
    /\ hit \subseteq Zone /\ overlapped \subseteq Agent /\ contested \in BOOLEAN
    /\ asked \in Nat

\* RP buys something: as long as no call failed, no request ends with a mission
\* or a sweep paid for that its participant did not get.
RpBuysSomething ==
    faults = 0 => \A r \in Request : pc[r] = "idle" => taken[r] = 0

\* As long as no two requests deal with one agent at a time, it is on one
\* mission at a time, whatever the pipeline does to that mission meanwhile.
OneMissionPerAgent ==
    \A a \in Agent \ overlapped : Cardinality(Busy(a)) <= 1

\* ... and a deployment is refunded at most once.
RefundedOnce ==
    faults = 0 => \A m \in Missions :
        refunds[m] > 1 => missions[m].agent \in overlapped

\* Unless two processes resolve at once, or a call fails between an effect and
\* the UPDATE that ends the mission, each mission takes effect once at most,
\* although neither step looks at the status again.
EffectOnce ==
    faults = 0 /\ ~contested => \A m \in MissionId : effects[m] <= 1

\* A mission nobody recalls or detects is over once the timers have ticked
\* away its travel and its stay, one cycle later if it first had to be activated.
OnTime ==
    faults = 0 /\ pc[Pipeline] = "idle" =>
        \A m \in OpenMissions : missions[m].kind # "guardian" =>
            LET k == missions[m].kind
            IN  current_cycle - born[m] <=
                    Travel[k] + Stay[k] - (IF Travel[k] = 0 THEN 1 ELSE 0)

\* A zone no saboteur has reached is one tier above its first level while
\* it is fortified, and back at it afterwards, unless there is no tier above.
FortificationTemporary ==
    \A z \in Zone \ hit : Rank(ZoneLevel[z]) < 8 =>
        Rank(zone[z]) = Rank(ZoneLevel[z]) + (IF fort[z] = 0 THEN 0 ELSE 1)

\* A mission that is over, or whose operative was recalled, never becomes
\* active again: the transition to "active" compares the status.
NeverReactivated ==
    [][\A m \in Missions : missions[m].status \notin Open =>
            missions'[m].status \notin Open]_vars

\* Statements of the source that its code does not keep:
\* a sabotage that succeeds lowers a zone of the target;
SabotageLowers ==
    [][\A z \in Zone : z \in hit' \ hit /\ Rank(zone[z]) > 1
                           => Rank(zone'[z]) < Rank(zone[z])]_vars

\* a sweep reveals the enemy operatives it was paid for;
SweepReveals ==
    [][\A r \in Request, m \in Missions, was \in Open :
          /\ pc[r] = "mark" /\ <<m, was>> \in loc[r].todo \ loc'[r].todo
          /\ faults' = faults
          => missions'[m].status = "detected"]_vars

\* a participant's RP stays within the cap.
RpWithinCap == \A s \in Sim : rp[s] <= RpCap

=============================================================================
