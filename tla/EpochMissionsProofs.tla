------------------------ MODULE EpochMissionsProofs ------------------------
(*************************************************************************)
(* Theorems about operatives and Resonance Points, for any simulations,  *)
(* agents, zones, requests and failures: the types, what each coroutine  *)
(* holds at each of its calls, prices, fortifications and reactivation.  *)
(*************************************************************************)
EXTENDS EpochMissions, FiniteSetTheorems, TLAPS

\* The calls of a request and of the pipeline, by what they are about.
Ordering   == {"spend", "insert"}
Recalling  == {"refund", "return"}
Sweeping   == {"pay", "scan", "mark"}
Concluding == {"tap"} \cup Outcome
OfPipeline == {"grant", "timers", "advance", "expire"}
OfRequest  == Ordering \cup Recalling \cup Sweeping \cup {"fortify"}

\* A coroutine is at a call of its own kind, and its locals are those the call
\* needs: the row to insert, the mission recalled or concluded, and jobs about
\* missions that exist.
InPlace(p) ==
    /\ pc[p] \in OfPipeline => p = Pipeline
    /\ pc[p] \in OfRequest => p \in Request
    /\ loc[p].order # NoMission <=> pc[p] \in Ordering
    /\ loc[p].mission # 0 <=> pc[p] \in Recalling \cup Concluding
    /\ loc[p].mission \in Missions \cup {0}
    /\ loc[p].todo \subseteq Missions \X Open

\* Rows that requests have paid for or are about to, and room for all of them.
Orders == {r \in Request : loc[r].order # NoMission}
Room ==
    /\ IsFiniteSet(Orders)
    /\ Cardinality(Missions) + Cardinality(Orders) <= Cardinality(MissionId)

\* The RP a request has taken and not yet delivered for.
Owes(r) == CASE pc[r] = "insert" -> loc[r].order.cost
             [] pc[r] \in {"scan", "mark"} -> SweepCost
             [] OTHER -> 0
Owing == \A r \in Request :
    taken[r] >= Owes(r) /\ (faults = 0 => taken[r] = Owes(r))

(*************************************************************************)
(* The operators the model is built from.                                *)
(*************************************************************************)

\* The three tables of config values.
LEMMA KindNumbers ==
    \A k \in Kind : /\ Cost[k] \in Nat /\ Travel[k] \in Nat /\ Stay[k] \in Nat
                    /\ Cost[k] \div 2 \in Nat
                    /\ k # "guardian" => Travel[k] + Stay[k] >= 2
                    /\ Travel[k] = 0 /\ k # "guardian" => Travel[k] + Stay[k] = 3
BY DEF Kind, Cost, Travel, Stay

\* An empty place in the table is not a row.
LEMMA RowsAreMissions == \A row \in Row : row # NoMission
BY DEF Row, NoMission, MissionStatus, Open, Outcome

\* Every level, canonical or not, has a rank, ...
LEMMA RankType == \A l \in Level : Rank(l) \in 1..8
<1> SUFFICES ASSUME NEW l \in Level PROVE \E i \in 1..8 : Tiers[i] = Canonical(l)
  BY DEF Rank
<1>1. Tiers[4] = "moderate"
  BY DEF Tiers
<1> QED BY <1>1 DEF Level, Canonical

\* ... the rank of a tier is its place, ...
LEMMA RankOfTier == \A i \in 1..8 : Rank(Tiers[i]) = i /\ Tiers[i] \in Level
<1> SUFFICES ASSUME NEW i \in 1..8 PROVE Rank(Tiers[i]) = i
  BY DEF Level
<1>1. Canonical(Tiers[i]) = Tiers[i]
  BY DEF Tiers, Canonical
<1>2. \A j \in 1..8 : Tiers[j] = Tiers[i] => j = i
  BY DEF Tiers
<1> QED BY <1>1, <1>2 DEF Rank

\* ... and the three moves stay among the levels, by one tier where there is one.
LEMMA LevelMoves ==
    ASSUME NEW l \in Level
    PROVE  /\ Fortified(l) \in Level /\ Unfortified(l) \in Level /\ Sabotaged(l) \in Level
           /\ Rank(l) < 8 => Rank(Fortified(l)) = Rank(l) + 1
           /\ Rank(l) > 1 => Rank(Unfortified(l)) = Rank(l) - 1
<1>1. Rank(l) \in 1..8
  BY RankType
<1>2. Rank(l) < 8 => Rank(l) + 1 \in 1..8
  BY <1>1
<1>3. Rank(l) > 1 => Rank(l) - 1 \in 1..8
  BY <1>1
<1> QED BY <1>2, <1>3, RankOfTier DEF Fortified, Unfortified, Sabotaged

\* An UPDATE of the status leaves a row a row.
LEMMA SetStatus ==
    ASSUME NEW M \in [MissionId -> Row \cup {NoMission}], NEW m \in MissionId,
           M[m] # NoMission, NEW s \in MissionStatus
    PROVE  /\ [M EXCEPT ![m].status = s] \in [MissionId -> Row \cup {NoMission}]
           /\ [M EXCEPT ![m].status = s] = [M EXCEPT ![m] = [M[m] EXCEPT !.status = s]]
           /\ [M[m] EXCEPT !.status = s] \in Row
<1>1. M[m] \in Row
  OBVIOUS
<1>2. [M[m] EXCEPT !.status = s] \in Row
  BY <1>1 DEF Row
<1> QED BY <1>2

\* An update of a function keeps its type, also one outside its domain.
LEMMA Update ==
    ASSUME NEW S, NEW T, NEW f \in [S -> T], NEW x, NEW v, x \in S => v \in T
    PROVE  [f EXCEPT ![x] = v] \in [S -> T]
<1>1. CASE x \in S
  BY <1>1
<1>2. CASE x \notin S
  BY <1>2
<1> QED BY <1>1, <1>2

\* Each local may be set by itself.
LEMMA LocalsUpdate ==
    ASSUME TypeOK, NEW p \in Proc
    PROVE  /\ \A v \in Sim \cup {"none"} : [loc EXCEPT ![p].sim = v] \in [Proc -> Locals]
           /\ \A v \in Zone \cup {"none"} : [loc EXCEPT ![p].zone = v] \in [Proc -> Locals]
           /\ \A v \in MissionId \cup {0} : [loc EXCEPT ![p].mission = v] \in [Proc -> Locals]
           /\ \A v \in Row \cup {NoMission} : [loc EXCEPT ![p].order = v] \in [Proc -> Locals]
           /\ \A v \in Status : [loc EXCEPT ![p].status = v] \in [Proc -> Locals]
           /\ \A v \in SUBSET (MissionId \X MissionStatus) :
                  [loc EXCEPT ![p].todo = v] \in [Proc -> Locals]
<1>1. loc \in [Proc -> Locals] /\ loc[p] \in Locals
  BY DEF TypeOK
<1>2. \A v \in Sim \cup {"none"} : [loc[p] EXCEPT !.sim = v] \in Locals
  BY <1>1 DEF Locals
<1>3. \A v \in Zone \cup {"none"} : [loc[p] EXCEPT !.zone = v] \in Locals
  BY <1>1 DEF Locals
<1>4. \A v \in MissionId \cup {0} : [loc[p] EXCEPT !.mission = v] \in Locals
  BY <1>1 DEF Locals
<1>5. \A v \in Row \cup {NoMission} : [loc[p] EXCEPT !.order = v] \in Locals
  BY <1>1 DEF Locals
<1>6. \A v \in Status : [loc[p] EXCEPT !.status = v] \in Locals
  BY <1>1 DEF Locals
<1>7. \A v \in SUBSET (MissionId \X MissionStatus) : [loc[p] EXCEPT !.todo = v] \in Locals
  BY <1>1 DEF Locals
<1> QED BY <1>1, <1>2, <1>3, <1>4, <1>5, <1>6, <1>7

(*************************************************************************)
(* Types.                                                                *)
(*************************************************************************)

LEMMA BlankType == Blank \in Locals
BY DEF Blank, Locals, Status, ActiveStatus

LEMMA GotoType ==
    ASSUME TypeOK, NEW p \in Proc, NEW l \in Label, Goto(p, l)
    PROVE  pc' \in [Proc -> Label]
BY DEF TypeOK, Goto

LEMMA ReturnType ==
    ASSUME TypeOK, NEW p \in Proc, Return(p)
    PROVE  pc' \in [Proc -> Label] /\ loc' \in [Proc -> Locals]
<1>1. pc' \in [Proc -> Label]
  BY GotoType DEF Return, Label
<1>2. loc' \in [Proc -> Locals]
  BY BlankType DEF TypeOK, Return
<1> QED BY <1>1, <1>2

LEMMA ArriveType ==
    ASSUME TypeOK, NEW r \in Request, NEW l \in Label, Arrive(r, l)
    PROVE  pc' \in [Proc -> Label] /\ asked' \in Nat
<1>1. pc' \in [Proc -> Label]
  BY GotoType DEF Arrive, Proc
<1> QED BY <1>1 DEF TypeOK, Arrive

LEMMA OverlapType ==
    ASSUME TypeOK, NEW r \in Request, NEW a \in Agent, NoteOverlap(r, a)
    PROVE  overlapped' \subseteq Agent
BY DEF TypeOK, NoteOverlap

\* What the locals of a coroutine hold at each of its calls.
LEMMA Shape ==
    ASSUME TypeOK, NEW p \in Proc, InPlace(p)
    PROVE  /\ loc[p] \in Locals
           /\ pc[p] \in Ordering => loc[p].order \in Row /\ p \in Request
           /\ pc[p] \in Recalling \cup Concluding =>
                /\ loc[p].mission \in Missions /\ loc[p].mission \in MissionId
                /\ missions[loc[p].mission] \in Row
           /\ \A m, was : <<m, was>> \in loc[p].todo =>
                /\ m \in MissionId /\ m \in Missions /\ was \in Open
                /\ missions[m] \in Row
<1>1. loc[p] \in Locals
  BY DEF TypeOK
<1>2. \A m \in Missions : m \in MissionId /\ missions[m] \in Row
  BY DEF TypeOK, Missions
<1>3. ASSUME pc[p] \in Ordering PROVE loc[p].order \in Row /\ p \in Request
  BY <1>1, <1>3 DEF InPlace, Locals, OfRequest
<1>4. ASSUME pc[p] \in Recalling \cup Concluding PROVE loc[p].mission \in Missions
  BY <1>4 DEF InPlace
<1>5. ASSUME NEW m, NEW was, <<m, was>> \in loc[p].todo PROVE m \in Missions /\ was \in Open
  BY <1>5 DEF InPlace
<1> QED BY <1>1, <1>2, <1>3, <1>4, <1>5

\* What deploy inserts is a row.
LEMMA NewRowType ==
    ASSUME MissionAssumption, NEW a \in Agent, NEW k \in DeployKind, NEW t \in Sim, NEW tap \in Resonance
    PROVE  NewRow(a, k, t, tap) \in Row
<1>1. k \in Kind /\ tap \in BOOLEAN /\ Owner[a] \in Sim
  BY DEF MissionAssumption
<1>2. Cost[k] \in Nat /\ Travel[k] \in Nat /\ Stay[k] \in Nat
  BY <1>1, KindNumbers
<1> QED BY <1>1, <1>2 DEF NewRow, Row, MissionStatus, Open

LEMMA GrantType ==
    ASSUME NEW s PROVE GrantAmount(s) \in Nat
<1>1. RpPerCycle \in Nat
  BY MissionAssumption DEF MissionAssumption
<1> QED BY <1>1 DEF GrantAmount

LEMMA CappedType == \A n, c \in Nat : Capped(n, c) \in Nat
BY DEF Capped

\* The initial states have their types.
LEMMA TypeInit == Init => TypeOK
<1> SUFFICES ASSUME Init PROVE TypeOK
  OBVIOUS
<1> USE MissionAssumption DEF MissionAssumption
<1>1. rp \in [Sim -> Nat]
  BY GrantType, CappedType DEF Init
<1>2. loc \in [Proc -> Locals]
  BY BlankType DEF Init
<1>3. status \in Status /\ current_cycle \in Nat /\ pc \in [Proc -> Label] /\ faults \in Nat /\ asked \in Nat
  BY DEF Init, Status, ActiveStatus, Label
<1>4. contested \in BOOLEAN
  BY DEF Init
<1>5. missions \in [MissionId -> Row \cup {NoMission}] /\ zone \in [Zone -> Level] /\ fort \in [Zone -> Nat]
      /\ effects \in [MissionId -> Nat] /\ refunds \in [MissionId -> Nat]
    /\ born \in [MissionId -> Nat] /\ taken \in [Request -> Nat]
  BY DEF Init
<1>6. hit \subseteq Zone /\ overlapped \subseteq Agent
  BY DEF Init
<1> QED BY <1>1, <1>2, <1>3, <1>4, <1>5, <1>6 DEF TypeOK

\* Each action in turn keeps the types.
LEMMA DeployType ==
    ASSUME TypeOK, NEW r \in Request, NEW a \in Agent, NEW k \in DeployKind,
           NEW t \in Sim, NEW tap \in Resonance, CheckDeploy(r, a, k, t, tap)
    PROVE  TypeOK'
<1>1. pc' \in [Proc -> Label] /\ asked' \in Nat
  BY ArriveType DEF CheckDeploy, Label
<1>2. overlapped' \subseteq Agent
  BY OverlapType DEF CheckDeploy
<1>3. loc' \in [Proc -> Locals]
  <2> DEFINE row == NewRow(a, k, t, tap)
  <2>1. row \in Row
    BY NewRowType, MissionAssumption
  <2> HIDE DEF row
  <2>2. loc' = [loc EXCEPT ![r].order = row]
    BY DEF CheckDeploy, row
  <2> QED BY <2>1, <2>2, LocalsUpdate DEF Proc
<1>4. contested' \in BOOLEAN
  BY DEF TypeOK, CheckDeploy
<1> QED BY <1>1, <1>2, <1>3, <1>4 DEF TypeOK, CheckDeploy, epoch, zones

\* spend_rp keeps a balance from going below zero.
LEMMA SpendType ==
    ASSUME TypeOK, NEW r \in Request, NEW s, NEW n \in Nat, SpendRp(r, s, n)
    PROVE  rp' \in [Sim -> Nat] /\ taken' \in [Request -> Nat]
<1>1. rp \in [Sim -> Nat] /\ taken \in [Request -> Nat]
  BY DEF TypeOK
<1>2. s \in Sim => rp[s] - n \in Nat
  BY <1>1 DEF SpendRp
<1>3. rp' = [rp EXCEPT ![s] = rp[s] - n] /\ taken' = [taken EXCEPT ![r] = taken[r] + n]
  BY DEF SpendRp
<1>4. rp' \in [Sim -> Nat]
  BY <1>1, <1>2, <1>3, Update
<1>5. taken' \in [Request -> Nat]
  BY <1>1, <1>3
<1> QED BY <1>4, <1>5

LEMMA PayDeployType ==
    ASSUME TypeOK, NEW r \in Request, InPlace(r), PayDeploy(r)
    PROVE  TypeOK'
<1>1. pc' \in [Proc -> Label]
  BY GotoType DEF PayDeploy, Label, Proc
<1>2. loc[r].order \in Row
  BY Shape DEF PayDeploy, Proc, Ordering
<1>3. loc[r].order.cost \in Nat
  BY <1>2 DEF Row
<1>4. rp' \in [Sim -> Nat] /\ taken' \in [Request -> Nat]
  BY <1>3, SpendType DEF PayDeploy
<1>5. contested' \in BOOLEAN
  BY DEF TypeOK, PayDeploy
<1> QED BY <1>1, <1>4, <1>5 DEF TypeOK, PayDeploy, epoch, zones, bounds

\* A request that just ends.
LEMMA EndType ==
    ASSUME TypeOK, NEW p \in Proc, Return(p),
           UNCHANGED <<epoch, rp, missions, zones, bounds, history>>
    PROVE  TypeOK'
<1>1. pc' \in [Proc -> Label] /\ loc' \in [Proc -> Locals]
  BY ReturnType
<1>2. contested' \in BOOLEAN
  BY DEF TypeOK, history
<1> QED BY <1>1, <1>2 DEF TypeOK, epoch, zones, bounds, history

LEMMA InsertType ==
    ASSUME TypeOK, NEW r \in Request, InPlace(r), taken[r] >= Owes(r), InsertMission(r)
    PROVE  TypeOK'
<1>1. pc' \in [Proc -> Label] /\ loc' \in [Proc -> Locals]
  BY ReturnType DEF InsertMission, Proc
<1>2. loc[r].order \in Row
  BY Shape DEF InsertMission, Proc, Ordering
<1>3. loc[r].order.cost \in Nat
  BY <1>2 DEF Row
<1>4. taken' \in [Request -> Nat]
  BY <1>3 DEF InsertMission, Owes, TypeOK
<1>5. FirstTick \in Nat
  BY DEF FirstTick, TypeOK
<1>6. missions' \in [MissionId -> Row \cup {NoMission}]
  BY <1>2 DEF InsertMission, TypeOK
<1>7. born' \in [MissionId -> Nat]
  BY <1>5 DEF InsertMission, TypeOK
<1>8. contested' \in BOOLEAN
  BY DEF TypeOK, InsertMission
<1> QED BY <1>1, <1>4, <1>6, <1>7, <1>8 DEF TypeOK, InsertMission, epoch, zones, bounds

LEMMA RecallType ==
    ASSUME TypeOK, NEW r \in Request, NEW m \in Missions, CheckRecall(r, m)
    PROVE  TypeOK'
<1>1. pc' \in [Proc -> Label] /\ asked' \in Nat
  BY ArriveType DEF CheckRecall, Label
<1>2. missions[m].agent \in Agent /\ m \in MissionId
  BY DEF Missions, TypeOK, Row
<1>3. overlapped' \subseteq Agent
  BY <1>2, OverlapType DEF CheckRecall
<1>4. loc' \in [Proc -> Locals]
  <2>1. loc' = [loc EXCEPT ![r].mission = m]
    BY DEF CheckRecall
  <2> QED BY <1>2, <2>1, LocalsUpdate DEF Proc
<1>5. contested' \in BOOLEAN
  BY DEF TypeOK, CheckRecall
<1> QED BY <1>1, <1>3, <1>4, <1>5 DEF TypeOK, CheckRecall, epoch, zones

LEMMA RefundType ==
    ASSUME TypeOK, NEW r \in Request, InPlace(r), RefundHalf(r)
    PROVE  TypeOK'
<1>1. pc' \in [Proc -> Label]
  BY GotoType DEF RefundHalf, Label, Proc
<1> DEFINE m == loc[r].mission
<1>2. m \in MissionId /\ missions[m] \in Row
  BY Shape DEF RefundHalf, Proc, Recalling
<1>3. missions[m].kind \in Kind
  BY <1>2 DEF Row
<1>4. Cost[missions[m].kind] \div 2 \in Nat
  BY <1>3, KindNumbers
<1>5. rp' \in [Sim -> Nat]
  <2> DEFINE n == Cost[missions[m].kind] \div 2
             s == missions[m].source
  <2>1. rp' = [rp EXCEPT ![s] = Capped(rp[s] + n, RpCap)]
    BY DEF RefundHalf
  <2>2. n \in Nat /\ RpCap \in Nat
    BY <1>4, MissionAssumption DEF MissionAssumption
  <2> HIDE DEF n, s
  <2>3. ASSUME s \in Sim PROVE Capped(rp[s] + n, RpCap) \in Nat
    <3>1. rp[s] + n \in Nat
      BY <2>2, <2>3 DEF TypeOK
    <3> QED BY <2>2, <3>1, CappedType
  <2>4. rp \in [Sim -> Nat]
    BY DEF TypeOK
  <2> QED BY <2>1, <2>3, <2>4, Update
<1>6. refunds' \in [MissionId -> Nat]
  BY <1>2 DEF RefundHalf, TypeOK
<1>7. contested' \in BOOLEAN
  BY DEF TypeOK, RefundHalf
<1> QED BY <1>1, <1>5, <1>6, <1>7 DEF TypeOK, RefundHalf, epoch, zones, bounds

LEMMA ReturnOperativeType ==
    ASSUME TypeOK, NEW r \in Request, InPlace(r), ReturnOperative(r)
    PROVE  TypeOK'
<1>1. pc' \in [Proc -> Label] /\ loc' \in [Proc -> Locals]
  BY ReturnType DEF ReturnOperative, Proc
<1>2. loc[r].mission \in MissionId /\ missions[loc[r].mission] # NoMission
  BY Shape, RowsAreMissions DEF ReturnOperative, Proc, Recalling
<1>3. "returning" \in MissionStatus
  BY DEF MissionStatus
<1>4. missions' \in [MissionId -> Row \cup {NoMission}]
  BY <1>2, <1>3, SetStatus DEF ReturnOperative, TypeOK
<1>5. contested' \in BOOLEAN
  BY DEF TypeOK, ReturnOperative, history
<1> QED BY <1>1, <1>4, <1>5 DEF TypeOK, ReturnOperative, epoch, zones, bounds, history

LEMMA SweepType ==
    ASSUME TypeOK, NEW r \in Request, InPlace(r), taken[r] >= Owes(r),
           \/ \E s \in Sim : CheckSweep(r, s)
           \/ PaySweep(r) \/ Scan(r) \/ MarkDetected(r) \/ EndSweep(r)
    PROVE  TypeOK'
<1> USE DEF Proc
<1>0. contested' \in BOOLEAN
  BY DEF TypeOK, CheckSweep, PaySweep, Scan, MarkDetected, EndSweep, history
<1>1. ASSUME NEW s \in Sim, CheckSweep(r, s) PROVE TypeOK'
  <2>1. pc' \in [Proc -> Label] /\ asked' \in Nat
    BY <1>1, ArriveType DEF CheckSweep, Label
  <2>3. loc' \in [Proc -> Locals]
    BY <1>1, LocalsUpdate DEF CheckSweep
  <2> QED BY <1>0, <1>1, <2>1, <2>3 DEF TypeOK, CheckSweep, epoch, zones, history
<1>2. CASE PaySweep(r)
  <2>1. CASE Return(r) /\ UNCHANGED <<rp, taken>>
    BY <1>2, <2>1, EndType DEF PaySweep, history
  <2>2. CASE SpendRp(r, loc[r].sim, SweepCost) /\ Goto(r, "scan") /\ UNCHANGED loc
    <3>1. pc' \in [Proc -> Label]
      BY <2>2, GotoType DEF Label
    <3>2. rp' \in [Sim -> Nat] /\ taken' \in [Request -> Nat]
      BY <2>2, SpendType DEF SweepCost
    <3> QED BY <1>0, <1>2, <2>2, <3>1, <3>2 DEF TypeOK, PaySweep, epoch, zones, bounds
  <2> QED BY <1>2, <2>1, <2>2 DEF PaySweep
<1>3. CASE Scan(r)
  <2>1. pc' \in [Proc -> Label]
    BY <1>3, GotoType DEF Scan, Label
  <2> DEFINE found == {<<m, missions[m].status>> : m \in Intruders(loc[r].sim)}
  <2>2. found \in SUBSET (MissionId \X MissionStatus)
    BY DEF Intruders, OpenMissions, Missions, MissionStatus
  <2>3. loc' = [loc EXCEPT ![r].todo = found]
    BY <1>3 DEF Scan
  <2> HIDE DEF found
  <2>4. loc' \in [Proc -> Locals]
    BY <2>2, <2>3, LocalsUpdate
  <2> QED BY <1>0, <1>3, <2>1, <2>4 DEF TypeOK, Scan, epoch, zones, bounds, history
<1>4. CASE MarkDetected(r)
  <2>1. PICK job \in loc[r].todo :
          /\ \/ missions' = [missions EXCEPT ![job[1]].status = "detected"]
             \/ missions' = missions
          /\ faults' \in {faults, faults + 1}
          /\ loc' = [loc EXCEPT ![r].todo = loc[r].todo \ {job}]
    BY <1>4 DEF MarkDetected
  <2>2. loc[r].todo \in SUBSET (MissionId \X MissionStatus)
    BY DEF TypeOK, Locals
  <2>3. loc' \in [Proc -> Locals]
    BY <2>1, <2>2, LocalsUpdate
  <2>4. job[1] \in MissionId /\ missions[job[1]] # NoMission
    BY <2>2 DEF InPlace, Missions
  <2>5. "detected" \in MissionStatus
    BY DEF MissionStatus, Outcome
  <2>6. missions' \in [MissionId -> Row \cup {NoMission}]
    BY <2>1, <2>4, <2>5, SetStatus DEF TypeOK
  <2> QED BY <1>0, <1>4, <2>1, <2>3, <2>6 DEF TypeOK, MarkDetected, epoch, zones, bounds, history
<1>5. CASE EndSweep(r)
  <2>1. pc' \in [Proc -> Label] /\ loc' \in [Proc -> Locals]
    BY <1>5, ReturnType DEF EndSweep
  <2>2. taken[r] >= SweepCost
    BY <1>5 DEF EndSweep, Owes
  <2>3. taken' \in [Request -> Nat]
    BY <1>5, <2>2 DEF EndSweep, TypeOK, SweepCost
  <2> QED BY <1>0, <1>5, <2>1, <2>3 DEF TypeOK, EndSweep, epoch, zones, bounds
<1> QED BY <1>1, <1>2, <1>3, <1>4, <1>5

LEMMA FortifyType ==
    ASSUME TypeOK, NEW r \in Request,
           (\E z \in Zone : CheckFortify(r, z)) \/ FortifyZone(r)
    PROVE  TypeOK'
<1> USE DEF Proc
<1>0. contested' \in BOOLEAN
  BY DEF TypeOK, CheckFortify, FortifyZone, history
<1>1. ASSUME NEW z \in Zone, CheckFortify(r, z) PROVE TypeOK'
  <2>1. pc' \in [Proc -> Label] /\ asked' \in Nat
    BY <1>1, ArriveType DEF CheckFortify, Label
  <2>3. loc' \in [Proc -> Locals]
    BY <1>1, LocalsUpdate DEF CheckFortify
  <2> QED BY <1>0, <1>1, <2>1, <2>3 DEF TypeOK, CheckFortify, epoch, zones, history
<1>2. CASE FortifyZone(r)
  <2>1. pc' \in [Proc -> Label] /\ loc' \in [Proc -> Locals]
    BY <1>2, ReturnType DEF FortifyZone
  <2> DEFINE z == loc[r].zone
             s == Home[z]
             until == FoundationCycles + FortificationCycles
  <2>a. rp \in [Sim -> Nat] /\ zone \in [Zone -> Level] /\ fort \in [Zone -> Nat]
    BY DEF TypeOK
  <2>2. rp' \in [Sim -> Nat] /\ zone' \in [Zone -> Level] /\ fort' \in [Zone -> Nat]
    <3>1. CASE /\ rp[s] >= FortifyCost
               /\ rp' = [rp EXCEPT ![s] = rp[s] - FortifyCost]
               /\ zone' = [zone EXCEPT ![z] = Fortified(zone[z])]
               /\ fort' = [fort EXCEPT ![z] = until]
      <4>1. ASSUME s \in Sim PROVE rp[s] - FortifyCost \in Nat
        <5>1. rp[s] \in Nat
          BY <2>a, <4>1
        <5> QED BY <3>1, <5>1 DEF FortifyCost
      <4>2. ASSUME z \in Zone PROVE Fortified(zone[z]) \in Level
        <5>1. zone[z] \in Level
          BY <2>a, <4>2
        <5> QED BY <5>1, LevelMoves
      <4>3. until \in Nat
        BY MissionAssumption, PhaseAssumption DEF MissionAssumption, PhaseAssumption
      <4> HIDE DEF until, z, s
      <4>4. rp' \in [Sim -> Nat]
        BY <2>a, <3>1, <4>1, Update
      <4>5. zone' \in [Zone -> Level]
        BY <2>a, <3>1, <4>2, Update
      <4>6. fort' \in [Zone -> Nat]
        BY <2>a, <3>1, <4>3, Update
      <4> QED BY <4>4, <4>5, <4>6
    <3>2. CASE UNCHANGED <<rp, zones>>
      BY <2>a, <3>2 DEF zones
    <3> QED BY <1>2, <3>1, <3>2 DEF FortifyZone
  <2> QED BY <1>0, <1>2, <2>1, <2>2 DEF TypeOK, FortifyZone, epoch, bounds, history
<1> QED BY <1>1, <1>2

LEMMA GrantRpType == ASSUME TypeOK, BatchGrantRp PROVE TypeOK'
<1>1. pc' \in [Proc -> Label]
  BY GotoType DEF BatchGrantRp, Label, Proc
<1>2. ASSUME NEW s \in Sim
      PROVE  Capped(rp[s] + GrantAmount(loc[Pipeline].status), RpCap) \in Nat
  <2>1. rp[s] \in Nat /\ GrantAmount(loc[Pipeline].status) \in Nat /\ RpCap \in Nat
    BY GrantType, MissionAssumption DEF TypeOK, MissionAssumption
  <2>2. rp[s] + GrantAmount(loc[Pipeline].status) \in Nat
    BY <2>1
  <2> QED BY <2>1, <2>2, CappedType
<1>3. rp' \in [Sim -> Nat]
  BY <1>2 DEF BatchGrantRp
<1>4. contested' \in BOOLEAN
  BY DEF TypeOK, BatchGrantRp, history
<1> QED BY <1>1, <1>3, <1>4 DEF TypeOK, BatchGrantRp, epoch, zones, bounds, history

LEMMA CycleType == ASSUME TypeOK, Cycle PROVE TypeOK'
<1> USE DEF Proc
<1>0. contested' \in BOOLEAN
  BY DEF TypeOK, Cycle, StartCycle, BatchGrantRp, AdvanceMissionTimers, AdvanceCycle,
     ExpireFortifications, history
<1>1. CASE StartCycle
  <2>1. pc' \in [Proc -> Label]
    BY <1>1, GotoType DEF StartCycle, Label
  <2>2. status \in Status
    BY DEF TypeOK
  <2>3. loc' \in [Proc -> Locals]
    BY <1>1, <2>2, LocalsUpdate DEF StartCycle
  <2> QED BY <1>0, <1>1, <2>1, <2>3 DEF TypeOK, StartCycle, epoch, zones, bounds, history
<1>2. CASE BatchGrantRp
  BY <1>2, GrantRpType
<1>3. CASE AdvanceMissionTimers
  <2>1. pc' \in [Proc -> Label]
    BY <1>3, GotoType DEF AdvanceMissionTimers, Label
  <2>2. ASSUME NEW m \in Missions, missions[m].left > 0
        PROVE  [missions[m] EXCEPT !.left = missions[m].left - 1] \in Row
    <3>1. missions[m] \in Row
      BY DEF TypeOK, Missions
    <3>2. missions[m].left - 1 \in Nat
      BY <2>2, <3>1 DEF Row
    <3> QED BY <3>1, <3>2 DEF Row
  <2>3. missions' \in [MissionId -> Row \cup {NoMission}]
    BY <1>3, <2>2 DEF AdvanceMissionTimers, OpenMissions, TypeOK
  <2> QED BY <1>0, <1>3, <2>1, <2>3 DEF TypeOK, AdvanceMissionTimers, epoch, zones, bounds, history
<1>4. CASE AdvanceCycle
  <2>1. pc' \in [Proc -> Label]
    BY <1>4, GotoType DEF AdvanceCycle, Label, Resolving
  <2>2. ASSUME NEW m \in Missions
        PROVE  [missions[m] EXCEPT !.status = "expired"] \in Row
    <3>1. missions[m] \in Row /\ "expired" \in MissionStatus
      BY DEF TypeOK, Missions, MissionStatus
    <3> QED BY <3>1 DEF Row
  <2>3. missions' \in [MissionId -> Row \cup {NoMission}]
    BY <1>4, <2>2 DEF AdvanceCycle, OpenMissions, TypeOK
  <2>4. status' \in Status
    BY <1>4 DEF AdvanceCycle, PhaseAfter, TypeOK, Status, ActiveStatus
  <2>5. current_cycle' \in Nat
    BY <1>4 DEF AdvanceCycle, TypeOK
  <2> QED BY <1>0, <1>4, <2>1, <2>3, <2>4, <2>5 DEF TypeOK, AdvanceCycle, zones, bounds, history
<1>5. CASE ExpireFortifications
  <2>1. pc' \in [Proc -> Label] /\ loc' \in [Proc -> Locals]
    BY <1>5, ReturnType DEF ExpireFortifications
  <2>2. zone' \in [Zone -> Level]
    BY <1>5, LevelMoves DEF ExpireFortifications, TypeOK
  <2>3. fort' \in [Zone -> Nat]
    BY <1>5 DEF ExpireFortifications, TypeOK
  <2> QED BY <1>0, <1>5, <2>1, <2>2, <2>3 DEF TypeOK, ExpireFortifications, epoch, bounds, history
<1> QED BY <1>1, <1>2, <1>3, <1>4, <1>5 DEF Cycle

\* The jobs of a coroutine.
LEMMA TodoType ==
    ASSUME TypeOK, NEW p \in Proc
    PROVE  loc[p].todo \in SUBSET (MissionId \X MissionStatus)
BY DEF TypeOK, Locals

\* loc' of the steps that finish one job and note its mission.
LEMMA JobDone ==
    ASSUME TypeOK, NEW p \in Proc, NEW job, NEW m \in MissionId,
           loc' = [loc EXCEPT ![p].todo = loc[p].todo \ {job}, ![p].mission = m]
    PROVE  loc' \in [Proc -> Locals]
<1> DEFINE new == [[loc[p] EXCEPT !.todo = loc[p].todo \ {job}] EXCEPT !.mission = m]
<1>1. new \in Locals
  <2>1. loc[p] \in Locals /\ loc[p].todo \ {job} \in SUBSET (MissionId \X MissionStatus)
    BY TodoType DEF TypeOK
  <2>2. [loc[p] EXCEPT !.todo = loc[p].todo \ {job}] \in Locals
    BY <2>1 DEF Locals
  <2> QED BY <2>2 DEF Locals
<1>2. loc' = [loc EXCEPT ![p] = new]
  BY DEF TypeOK
<1> HIDE DEF new
<1> QED BY <1>1, <1>2 DEF TypeOK

LEMMA ResolveType ==
    ASSUME TypeOK, NEW p \in Proc, InPlace(p), Resolve(p)
    PROVE  TypeOK'
<1>1. CASE SelectPending(p)
  <2>0. contested' \in BOOLEAN
    BY <1>1 DEF SelectPending
  <2>1. pc' \in [Proc -> Label]
    BY <1>1, GotoType DEF SelectPending, Label, Resolving
  <2> DEFINE found == {<<m, missions[m].status>> : m \in Pending}
  <2>2. found \in SUBSET (MissionId \X MissionStatus)
    BY DEF Pending, OpenMissions, Missions, MissionStatus
  <2>3. loc' = [loc EXCEPT ![p].todo = found]
    BY <1>1 DEF SelectPending
  <2> HIDE DEF found
  <2>4. loc' \in [Proc -> Locals]
    BY <2>2, <2>3, LocalsUpdate
  <2> QED BY <1>1, <2>0, <2>1, <2>4 DEF TypeOK, SelectPending, epoch, zones, bounds
<1>2. CASE ActivateMission(p)
  <2>1. PICK m \in MissionId :
          /\ <<m, "deploying">> \in loc[p].todo
          /\ missions' = IF missions[m].status = "deploying"
                         THEN [missions EXCEPT ![m].status = "active"] ELSE missions
          /\ loc' = [loc EXCEPT ![p].todo = loc[p].todo \ {<<m, "deploying">>}]
    BY <1>2 DEF ActivateMission
  <2>2. loc' \in [Proc -> Locals]
    BY <2>1, TodoType, LocalsUpdate
  <2>3. missions[m] # NoMission /\ "active" \in MissionStatus
    BY <2>1, Shape, RowsAreMissions DEF MissionStatus, Open
  <2>4. missions' \in [MissionId -> Row \cup {NoMission}]
    BY <2>1, <2>3, SetStatus DEF TypeOK
  <2>5. contested' \in BOOLEAN
    BY <1>2 DEF TypeOK, ActivateMission, history
  <2> QED BY <1>2, <2>2, <2>4, <2>5 DEF TypeOK, ActivateMission, epoch, zones, bounds, history
<1>3. CASE RollSuccess(p)
  <2>1. PICK m \in MissionId :
          /\ <<m, "active">> \in loc[p].todo
          /\ ApplyEffect(m)
          /\ effects' = [effects EXCEPT ![m] = effects[m] + 1]
          /\ loc' = [loc EXCEPT ![p].todo = loc[p].todo \ {<<m, "active">>}, ![p].mission = m]
          /\ Goto(p, IF missions[m].tap THEN "tap" ELSE "success")
    BY <1>3 DEF RollSuccess
  <2>2. loc' \in [Proc -> Locals]
    BY <2>1, JobDone
  <2>3. pc' \in [Proc -> Label]
    BY <2>1, GotoType DEF Label, Resolving, Outcome
  <2>4. zone' \in [Zone -> Level] /\ hit' \subseteq Zone
    <3>1. CASE UNCHANGED <<zone, hit>>
      BY <3>1 DEF TypeOK
    <3>2. ASSUME NEW z \in Zone, zone' = [zone EXCEPT ![z] = Sabotaged(zone[z])],
                 hit' = hit \cup {z}
          PROVE  zone' \in [Zone -> Level] /\ hit' \subseteq Zone
      <4>1. Sabotaged(zone[z]) \in Level
        BY LevelMoves DEF TypeOK
      <4> QED BY <3>2, <4>1 DEF TypeOK
    <3> QED BY <2>1, <3>1, <3>2 DEF ApplyEffect
  <2>5. effects' \in [MissionId -> Nat]
    BY <2>1 DEF TypeOK
  <2>6. contested' \in BOOLEAN
    BY <1>3 DEF TypeOK, RollSuccess
  <2> QED BY <1>3, <2>2, <2>3, <2>4, <2>5, <2>6 DEF TypeOK, RollSuccess, epoch, bounds
<1>4. CASE RollFailure(p)
  <2>1. PICK m \in MissionId :
          loc' = [loc EXCEPT ![p].todo = loc[p].todo \ {<<m, "active">>}, ![p].mission = m]
    BY <1>4 DEF RollFailure
  <2>2. loc' \in [Proc -> Locals]
    BY <2>1, JobDone
  <2>3. pc' \in [Proc -> Label]
    BY <1>4, GotoType DEF RollFailure, Label, Resolving, Outcome
  <2>5. contested' \in BOOLEAN
    BY <1>4 DEF TypeOK, RollFailure, history
  <2> QED BY <1>4, <2>2, <2>3, <2>5 DEF TypeOK, RollFailure, epoch, zones, bounds, history
<1>5. CASE TapRp(p)
  <2>1. pc' \in [Proc -> Label]
    BY <1>5, GotoType DEF TapRp, Label, Resolving, Outcome
  <2>2. faults' \in Nat
    BY <1>5 DEF TapRp, TypeOK
  <2>3. rp' \in [Sim -> Nat]
    <3> DEFINE from == missions[loc[p].mission].target
               to == missions[loc[p].mission].source
    <3>1. rp \in [Sim -> Nat]
      BY DEF TypeOK
    <3>2. CASE rp' = rp
      BY <3>1, <3>2
    <3>3. CASE rp[from] >= 1 /\ rp' = Transferred(from, to)
      <4>1. ASSUME NEW s \in Sim PROVE Capped(rp[s] + 1, TransferCap) \in Nat
        <5>1. rp[s] + 1 \in Nat /\ TransferCap \in Nat
          BY <3>1, MissionAssumption DEF MissionAssumption
        <5> QED BY <5>1, CappedType
      <4>2. ASSUME NEW s \in Sim, s = from PROVE rp[s] - 1 \in Nat
        BY <3>1, <3>3, <4>2
      <4> QED BY <3>1, <3>3, <4>1, <4>2 DEF Transferred
    <3> QED BY <1>5, <3>2, <3>3 DEF TapRp
  <2>5. contested' \in BOOLEAN
    BY <1>5 DEF TypeOK, TapRp, history
  <2> QED BY <1>5, <2>1, <2>2, <2>3, <2>5 DEF TypeOK, TapRp, epoch, zones, history
<1>6. CASE Conclude(p)
  <2>1. pc' \in [Proc -> Label]
    BY <1>6, GotoType DEF Conclude, Label, Resolving
  <2>2. loc' \in [Proc -> Locals]
    BY <1>6, LocalsUpdate DEF Conclude
  <2>3. /\ loc[p].mission \in MissionId /\ missions[loc[p].mission] # NoMission
        /\ pc[p] \in MissionStatus
    BY <1>6, Shape, RowsAreMissions DEF Conclude, Concluding, MissionStatus
  <2>4. missions' \in [MissionId -> Row \cup {NoMission}]
    BY <1>6, <2>3, SetStatus DEF Conclude, TypeOK
  <2>5. contested' \in BOOLEAN
    BY <1>6 DEF TypeOK, Conclude, history
  <2> QED BY <1>6, <2>1, <2>2, <2>4, <2>5 DEF TypeOK, Conclude, epoch, zones, bounds, history
<1>7. CASE AllResolved(p)
  <2>1. pc' \in [Proc -> Label] /\ loc' \in [Proc -> Locals]
    BY <1>7, GotoType, ReturnType DEF AllResolved, Label, TypeOK
  <2>5. contested' \in BOOLEAN
    BY <1>7 DEF TypeOK, AllResolved, history
  <2> QED BY <1>7, <2>1, <2>5 DEF TypeOK, AllResolved, epoch, zones, bounds, history
<1> QED BY <1>1, <1>2, <1>3, <1>4, <1>5, <1>6, <1>7 DEF Resolve

LEMMA FailType ==
    ASSUME TypeOK, NEW p \in Proc, CallFails(p)
    PROVE  TypeOK'
<1>1. pc' \in [Proc -> Label] /\ loc' \in [Proc -> Locals]
  <2>1. CASE Return(p)
    BY <2>1, ReturnType
  <2>2. CASE Goto(p, "expire") /\ loc' = [loc EXCEPT ![p] = Blank]
    BY <2>2, GotoType, BlankType DEF TypeOK, Label
  <2> QED BY <2>1, <2>2 DEF CallFails
<1>2. faults' \in Nat
  BY DEF CallFails, TypeOK
<1>3. contested' \in BOOLEAN
  BY DEF TypeOK, CallFails, history
<1> QED BY <1>1, <1>2, <1>3 DEF TypeOK, CallFails, epoch, zones, history

\* The steps of one process.
Act(p) ==
    \/ p \in Request /\ (Begin(p) \/ Continue(p))
    \/ p = Pipeline /\ Cycle
    \/ Resolve(p)
    \/ CallFails(p)

LEMMA NextActs == Next <=> \E p \in Proc : Act(p)
BY DEF Next, Act, Proc

\* The pipeline is no request.
LEMMA Requests == \A r \in Request : r \in Proc /\ r # Pipeline
BY MissionAssumption DEF MissionAssumption, Proc

\* The other processes stay where they are.
LEMMA OthersWait ==
    ASSUME TypeOK, NEW p \in Proc, Act(p)
    PROVE  \A q \in Proc \ {p} : pc'[q] = pc[q] /\ loc'[q] = loc[q]
<1> USE DEF TypeOK, Goto, Return, Arrive
<1>1. ASSUME p \in Request, Begin(p)
      PROVE \A q \in Proc \ {p} : pc'[q] = pc[q] /\ loc'[q] = loc[q]
  BY <1>1 DEF Begin, CheckDeploy, CheckRecall, CheckSweep, CheckFortify, RequestResolve
<1>2. ASSUME p \in Request, Continue(p)
      PROVE \A q \in Proc \ {p} : pc'[q] = pc[q] /\ loc'[q] = loc[q]
  BY <1>2 DEF Continue, PayDeploy, CannotPayDeploy, InsertMission, RefundHalf, ReturnOperative,
      PaySweep, Scan, MarkDetected, EndSweep, FortifyZone
<1>3. ASSUME p = Pipeline, Cycle
      PROVE \A q \in Proc \ {p} : pc'[q] = pc[q] /\ loc'[q] = loc[q]
  BY <1>3 DEF Cycle, StartCycle, BatchGrantRp, AdvanceMissionTimers, AdvanceCycle,
     ExpireFortifications
<1>4. ASSUME Resolve(p)
      PROVE \A q \in Proc \ {p} : pc'[q] = pc[q] /\ loc'[q] = loc[q]
  BY <1>4 DEF Resolve, SelectPending, ActivateMission, RollSuccess, RollFailure, TapRp, Conclude,
     AllResolved
<1>5. ASSUME CallFails(p)
      PROVE \A q \in Proc \ {p} : pc'[q] = pc[q] /\ loc'[q] = loc[q]
  BY <1>5 DEF CallFails
<1> QED BY <1>1, <1>2, <1>3, <1>4, <1>5 DEF Act

\* Sets of missions are finite; the one that is as large as all of them is all.
LEMMA MissionsCounted ==
    ASSUME NEW S \in SUBSET MissionId
    PROVE  IsFiniteSet(S) /\ Cardinality(S) \in Nat /\ Cardinality(S) <= Cardinality(MissionId)
           /\ Cardinality(MissionId) \in Nat
           /\ (Cardinality(S) = Cardinality(MissionId) <=> S = MissionId)
BY MissionAssumption, FS_Subset, FS_CardinalityType DEF MissionAssumption

\* A row that is about to be inserted has an identifier of its own.
LEMMA FreshId ==
    ASSUME TypeOK, Room, NEW r \in Request, InPlace(r), pc[r] = "insert"
    PROVE  NewId \in MissionId \ Missions
<1>1. r \in Orders
  BY Requests DEF Orders, InPlace, Ordering
<1>2. Cardinality(Orders) # 0
  BY <1>1, FS_EmptySet DEF Room
<1>3. Cardinality(Orders) \in Nat
  BY FS_CardinalityType DEF Room
<1>4. Missions \in SUBSET MissionId
  BY DEF Missions
<1>5. Missions # MissionId
  BY <1>2, <1>3, <1>4, MissionsCounted DEF Room
<1> QED BY <1>4, <1>5 DEF NewId

(*************************************************************************)
(* The rows of operative_missions.                                       *)
(*************************************************************************)

\* What a step does to the row of a mission.
Changes(p, m) ==
    \/ missions'[m] = missions[m]
    \/ m \in Missions /\ \E s \in MissionStatus : missions'[m] = [missions[m] EXCEPT !.status = s]
    \/ /\ AdvanceMissionTimers /\ p = Pipeline /\ m \in Missions
       /\ missions'[m] = [missions[m] EXCEPT !.left = IF @ = 0 THEN 0 ELSE @ - 1]
    \/ /\ p \in Request /\ InsertMission(p) /\ m = NewId /\ m \notin Missions
       /\ missions'[m] = loc[p].order /\ missions'[m] \in Row

\* A step does one of these things to every row.
LEMMA MissionChanges ==
    ASSUME TypeOK, Room, NEW p \in Proc, InPlace(p), Act(p)
    PROVE  \A m \in MissionId : Changes(p, m)
<1> SUFFICES ASSUME NEW m \in MissionId PROVE Changes(p, m)
  OBVIOUS
<1> USE DEF Changes
<1>1. CASE missions' = missions
  BY <1>1
<1>2. ASSUME NEW n \in Missions, NEW s \in MissionStatus, missions' = [missions EXCEPT ![n].status = s]
      PROVE  Changes(p, m)
  BY <1>2 DEF TypeOK
<1>3. CASE InsertMission(p) /\ p \in Request
  <2>1. missions' = [missions EXCEPT ![NewId] = loc[p].order]
    BY <1>3 DEF InsertMission
  <2>2. NewId \in MissionId /\ NewId \notin Missions
    BY <1>3, FreshId DEF InsertMission
  <2>3. loc[p].order \in Row
    BY <1>3, Shape DEF InsertMission, Ordering
  <2> QED BY <1>3, <2>1, <2>2, <2>3 DEF TypeOK
<1>4. CASE AdvanceMissionTimers /\ p = Pipeline
  <2>1. \/ missions'[m] = missions[m]
        \/ /\ m \in Missions /\ missions[m].left > 0
           /\ missions'[m] = [missions[m] EXCEPT !.left = missions[m].left - 1]
    BY <1>4 DEF AdvanceMissionTimers, OpenMissions
  <2>2. CASE m \in Missions /\ missions[m].left > 0
    <3>1. missions[m].left # 0
      BY <2>2
    <3> QED BY <1>4, <2>1, <3>1
  <2> QED BY <2>1, <2>2
<1>5. CASE AdvanceCycle
  BY <1>5 DEF AdvanceCycle, OpenMissions, MissionStatus
<1>6. CASE ReturnOperative(p)
  BY <1>2, <1>6, Shape DEF ReturnOperative, Recalling, MissionStatus
<1>7. CASE MarkDetected(p)
  <2>1. PICK job \in loc[p].todo : missions' = missions \/ missions' = [missions EXCEPT ![job[1]].status = "detected"]
    BY <1>7 DEF MarkDetected
  <2>2. job[1] \in Missions
    BY DEF InPlace
  <2> QED BY <1>1, <1>2, <2>1, <2>2 DEF MissionStatus, Outcome
<1>8. CASE ActivateMission(p)
  <2>1. PICK n \in MissionId : <<n, "deploying">> \in loc[p].todo
            /\ missions' = IF missions[n].status = "deploying"
                           THEN [missions EXCEPT ![n].status = "active"] ELSE missions
    BY <1>8 DEF ActivateMission
  <2>2. n \in Missions
    BY <2>1, Shape
  <2> QED BY <1>1, <1>2, <2>1, <2>2 DEF MissionStatus, Open
<1>9. CASE Conclude(p)
  BY <1>2, <1>9, Shape DEF Conclude, Concluding, MissionStatus
<1>10. CASE missions' # missions
  <2>1. p \in Request /\ Begin(p) => missions' = missions
    BY DEF Begin, CheckDeploy, CheckRecall, CheckSweep, CheckFortify, RequestResolve
  <2>2. p \in Request /\ Continue(p) => InsertMission(p) \/ ReturnOperative(p) \/ MarkDetected(p) \/ missions' = missions
    BY DEF Continue, PayDeploy, CannotPayDeploy, RefundHalf, PaySweep, Scan, EndSweep, FortifyZone
  <2>3. Cycle => AdvanceMissionTimers \/ AdvanceCycle \/ missions' = missions
    BY DEF Cycle, StartCycle, BatchGrantRp, ExpireFortifications
  <2>4. Resolve(p) => ActivateMission(p) \/ Conclude(p) \/ missions' = missions
    BY DEF Resolve, SelectPending, RollSuccess, RollFailure, TapRp, AllResolved
  <2>5. CallFails(p) => missions' = missions
    BY DEF CallFails
  <2> QED BY <1>3, <1>4, <1>5, <1>6, <1>7, <1>8, <1>9, <1>10, <2>1, <2>2, <2>3, <2>4, <2>5 DEF Act
<1> QED BY <1>1, <1>10

\* What a mission was deployed as does not change.
LEMMA MissionsKept ==
    ASSUME TypeOK, Room, NEW p \in Proc, InPlace(p), Act(p)
    PROVE  /\ Missions \subseteq Missions'
           /\ \A m \in Missions : /\ missions'[m].kind = missions[m].kind
                                  /\ missions'[m].agent = missions[m].agent
                                  /\ missions'[m].source = missions[m].source
<1> SUFFICES ASSUME NEW m \in Missions
             PROVE  /\ m \in Missions'
                    /\ missions'[m].kind = missions[m].kind
                    /\ missions'[m].agent = missions[m].agent
                    /\ missions'[m].source = missions[m].source
  OBVIOUS
<1>1. m \in MissionId /\ missions[m] \in Row
  BY DEF Missions, TypeOK
<1>2. CASE missions'[m] = missions[m]
  BY <1>2 DEF Missions
<1>3. ASSUME NEW s \in MissionStatus, missions'[m] = [missions[m] EXCEPT !.status = s]
      PROVE  missions'[m] \in Row /\ missions'[m].kind = missions[m].kind /\ missions'[m].agent = missions[m].agent
                    /\ missions'[m].source = missions[m].source
  BY <1>1, <1>3 DEF Row
<1>4. ASSUME missions'[m] = [missions[m] EXCEPT !.left = IF missions[m].left = 0 THEN 0 ELSE missions[m].left - 1]
      PROVE  missions'[m] \in Row /\ missions'[m].kind = missions[m].kind /\ missions'[m].agent = missions[m].agent
                    /\ missions'[m].source = missions[m].source
  <2> DEFINE n == IF missions[m].left = 0 THEN 0 ELSE missions[m].left - 1
  <2>1. n \in Nat
    BY <1>1 DEF Row
  <2>2. missions'[m] = [missions[m] EXCEPT !.left = n]
    BY <1>4
  <2> HIDE DEF n
  <2> QED BY <1>1, <2>1, <2>2 DEF Row
<1>5. Changes(p, m)
  BY <1>1, MissionChanges
<1>6. missions'[m] \in Row => m \in Missions'
  BY <1>1, RowsAreMissions DEF Missions
<1> QED BY <1>2, <1>3, <1>4, <1>5, <1>6 DEF Changes

\* Those who do not move stay in place, ...
LEMMA AsideStays ==
    ASSUME NEW q \in Proc, InPlace(q), pc'[q] = pc[q], loc'[q] = loc[q], Missions \subseteq Missions'
    PROVE  InPlace(q)'
BY DEF InPlace

\* ... and so does who has returned, ...
LEMMA BlankStays ==
    ASSUME NEW p \in Proc, pc'[p] = "idle", loc'[p] = Blank
    PROVE  InPlace(p)'
BY DEF InPlace, Blank, OfPipeline, OfRequest, Ordering, Recalling, Sweeping, Concluding, Outcome

LEMMA ReturnStays ==
    ASSUME TypeOK, NEW p \in Proc, Return(p)
    PROVE  pc'[p] = "idle" /\ loc'[p] = Blank /\ InPlace(p)'
<1>1. pc'[p] = "idle" /\ loc'[p] = Blank
  BY DEF TypeOK, Return, Goto
<1> QED BY <1>1, BlankStays

\* ... and who moves on to the next call.
LEMMA MoverInPlace ==
    ASSUME TypeOK, Room, NEW p \in Proc, InPlace(p), Act(p)
    PROVE  InPlace(p)'
<1>0. Missions \subseteq Missions'
  BY MissionsKept
<1>L. loc[p] \in Locals /\ loc \in [Proc -> Locals] /\ pc \in [Proc -> Label]
  BY DEF TypeOK
<1> DEFINE Kept == /\ loc'[p].order = loc[p].order /\ loc'[p].mission = loc[p].mission
                   /\ loc'[p].todo = loc[p].todo
<1> USE DEF OfPipeline, OfRequest, Ordering, Recalling, Sweeping, Concluding, Outcome
<1>1. CASE Return(p)
  BY <1>1, ReturnStays
\* A request begins.
<1>2. CASE p \in Request /\ Begin(p)
  <2>1. p # Pipeline /\ pc[p] = "idle"
    BY <1>2, Requests DEF Begin, CheckDeploy, CheckRecall, CheckSweep, CheckFortify,
       RequestResolve, Arrive
  <2>2. ASSUME NEW a \in Agent, NEW k \in DeployKind, NEW t \in Sim, NEW tap \in Resonance,
               CheckDeploy(p, a, k, t, tap)
        PROVE  InPlace(p)'
    <3>1. pc'[p] = "spend" /\ loc'[p].order = NewRow(a, k, t, tap)
          /\ loc'[p].mission = loc[p].mission /\ loc'[p].todo = loc[p].todo
      BY <1>L, <2>2 DEF CheckDeploy, Arrive, Goto, Locals
    <3>2. NewRow(a, k, t, tap) # NoMission
      BY NewRowType, RowsAreMissions, MissionAssumption
    <3> QED BY <1>0, <1>2, <2>1, <3>1, <3>2 DEF InPlace
  <2>3. ASSUME NEW m \in Missions, CheckRecall(p, m) PROVE InPlace(p)'
    <3>1. pc'[p] = "refund" /\ loc'[p].order = loc[p].order
          /\ loc'[p].mission = m /\ loc'[p].todo = loc[p].todo
      BY <1>L, <2>3 DEF CheckRecall, Arrive, Goto, Locals
    <3>2. m # 0
      BY MissionAssumption DEF MissionAssumption, Missions
    <3> QED BY <1>0, <1>2, <2>1, <3>1, <3>2 DEF InPlace
  <2>4. CASE \/ \E s \in Sim : CheckSweep(p, s)
             \/ \E z \in Zone : CheckFortify(p, z)
             \/ RequestResolve(p)
    <3>1. pc'[p] \in {"pay", "fortify", "select"} /\ Kept
      BY <1>L, <2>4 DEF CheckSweep, CheckFortify, RequestResolve, Arrive, Goto, Locals
    <3> QED BY <1>0, <1>2, <2>1, <3>1 DEF InPlace
  <2> QED BY <1>2, <2>2, <2>3, <2>4 DEF Begin
\* It goes on.
<1>3. CASE p \in Request /\ Continue(p)
  <2>1. p # Pipeline
    BY <1>3, Requests
  <2>2. CASE PayDeploy(p)
    <3>1. pc[p] = "spend" /\ pc'[p] = "insert" /\ Kept
      BY <1>L, <2>2 DEF PayDeploy, Goto
    <3> QED BY <1>0, <1>3, <2>1, <3>1 DEF InPlace
  <2>3. CASE RefundHalf(p)
    <3>1. pc[p] = "refund" /\ pc'[p] = "return" /\ Kept
      BY <1>L, <2>3 DEF RefundHalf, Goto
    <3> QED BY <1>0, <1>3, <2>1, <3>1 DEF InPlace
  <2>4. CASE PaySweep(p) /\ ~Return(p)
    <3>1. pc[p] = "pay" /\ pc'[p] = "scan" /\ Kept
      BY <1>L, <2>4 DEF PaySweep, Goto
    <3> QED BY <1>0, <1>3, <2>1, <3>1 DEF InPlace
  <2>5. CASE Scan(p)
    <3>1. pc[p] = "scan" /\ pc'[p] = "mark" /\ loc'[p].order = loc[p].order /\ loc'[p].mission = loc[p].mission
          /\ loc'[p].todo = {<<m, missions[m].status>> : m \in Intruders(loc[p].sim)}
      BY <1>L, <2>5 DEF Scan, Goto, Locals
    <3>2. loc'[p].todo \subseteq Missions \X Open
      BY <3>1 DEF Intruders, OpenMissions
    <3> QED BY <1>0, <1>3, <2>1, <3>1, <3>2 DEF InPlace
  <2>6. CASE MarkDetected(p)
    <3>1. pc[p] = "mark" /\ pc'[p] = "mark" /\ loc'[p].order = loc[p].order /\ loc'[p].mission = loc[p].mission
          /\ loc'[p].todo \subseteq loc[p].todo
      BY <1>L, <2>6 DEF MarkDetected, Locals
    <3> QED BY <1>0, <1>3, <2>1, <3>1 DEF InPlace
  <2>7. \/ PayDeploy(p) \/ RefundHalf(p) \/ PaySweep(p) \/ Scan(p) \/ MarkDetected(p) \/ Return(p)
    BY <1>3 DEF Continue, CannotPayDeploy, InsertMission, ReturnOperative, EndSweep, FortifyZone
  <2> QED BY <1>1, <2>2, <2>3, <2>4, <2>5, <2>6, <2>7
\* The pipeline.
<1>4. CASE p = Pipeline /\ Cycle
  <2>1. Pipeline \notin Request
    BY MissionAssumption DEF MissionAssumption
  <2>2. CASE StartCycle
    <3>1. pc[p] = "idle" /\ pc'[p] = "grant" /\ Kept
      BY <1>4, <1>L, <2>2 DEF StartCycle, Goto, Locals
    <3> QED BY <1>0, <1>4, <2>1, <3>1 DEF InPlace
  <2>3. CASE BatchGrantRp
    <3>1. pc[p] = "grant" /\ pc'[p] = "timers" /\ Kept
      BY <1>4, <1>L, <2>3 DEF BatchGrantRp, Goto
    <3> QED BY <1>0, <1>4, <2>1, <3>1 DEF InPlace
  <2>4. CASE AdvanceMissionTimers
    <3>1. pc[p] = "timers" /\ pc'[p] = "advance" /\ Kept
      BY <1>4, <1>L, <2>4 DEF AdvanceMissionTimers, Goto
    <3> QED BY <1>0, <1>4, <2>1, <3>1 DEF InPlace
  <2>5. CASE AdvanceCycle
    <3>1. pc[p] = "advance" /\ pc'[p] = "select" /\ Kept
      BY <1>4, <1>L, <2>5 DEF AdvanceCycle, Goto
    <3> QED BY <1>0, <1>4, <2>1, <3>1 DEF InPlace
  <2>6. CASE ExpireFortifications
    BY <1>1, <1>4, <2>6 DEF ExpireFortifications
  <2> QED BY <1>4, <2>2, <2>3, <2>4, <2>5, <2>6 DEF Cycle
\* A resolution.
<1>5. CASE Resolve(p)
  <2>1. CASE SelectPending(p)
    <3>1. pc[p] = "select" /\ pc'[p] = "resolve" /\ loc'[p].order = loc[p].order /\ loc'[p].mission = loc[p].mission
          /\ loc'[p].todo = {<<m, missions[m].status>> : m \in Pending}
      BY <1>L, <2>1 DEF SelectPending, Goto, Locals
    <3>2. loc'[p].todo \subseteq Missions \X Open
      BY <3>1 DEF Pending, OpenMissions
    <3> QED BY <1>0, <3>1, <3>2 DEF InPlace
  <2>2. CASE ActivateMission(p)
    <3>1. pc[p] = "resolve" /\ pc'[p] = "resolve" /\ loc'[p].order = loc[p].order /\ loc'[p].mission = loc[p].mission
          /\ loc'[p].todo \subseteq loc[p].todo
      BY <1>L, <2>2 DEF ActivateMission, Locals
    <3> QED BY <1>0, <3>1 DEF InPlace
  <2>3. CASE RollSuccess(p) \/ RollFailure(p)
    <3>1. PICK m \in MissionId :
             /\ <<m, "active">> \in loc[p].todo
             /\ loc' = [loc EXCEPT ![p].todo = loc[p].todo \ {<<m, "active">>}, ![p].mission = m]
      BY <2>3 DEF RollSuccess, RollFailure
    <3>2. m \in Missions /\ m # 0
      BY <3>1, Shape, MissionAssumption DEF MissionAssumption
    <3>3. pc[p] = "resolve" /\ pc'[p] \in Concluding
      BY <1>L, <2>3 DEF RollSuccess, RollFailure, Goto
    <3>4. loc'[p].order = loc[p].order /\ loc'[p].mission = m /\ loc'[p].todo \subseteq loc[p].todo
      BY <1>L, <3>1 DEF Locals
    <3> QED BY <1>0, <3>2, <3>3, <3>4 DEF InPlace
  <2>4. CASE TapRp(p)
    <3>1. pc[p] = "tap" /\ pc'[p] = "success" /\ Kept
      BY <1>L, <2>4 DEF TapRp, Goto
    <3> QED BY <1>0, <3>1 DEF InPlace
  <2>5. CASE Conclude(p)
    <3>1. pc[p] \in Outcome /\ pc'[p] = "resolve" /\ loc'[p].order = loc[p].order /\ loc'[p].mission = 0
          /\ loc'[p].todo = loc[p].todo
      BY <1>L, <2>5 DEF Conclude, Goto, Locals
    <3> QED BY <1>0, <3>1 DEF InPlace
  <2>6. CASE AllResolved(p)
    <3>1. CASE p = Pipeline /\ Goto(p, "expire") /\ UNCHANGED loc
      <4>1. pc[p] = "resolve" /\ pc'[p] = "expire" /\ Kept
        BY <1>L, <2>6, <3>1 DEF AllResolved, Goto
      <4> QED BY <1>0, <3>1, <4>1 DEF InPlace
    <3> QED BY <1>1, <2>6, <3>1 DEF AllResolved
  <2> QED BY <1>5, <2>1, <2>2, <2>3, <2>4, <2>5, <2>6 DEF Resolve
<1>6. CASE CallFails(p)
  <2>1. CASE p = Pipeline /\ Goto(p, "expire") /\ loc' = [loc EXCEPT ![p] = Blank]
    <3>1. pc'[p] = "expire" /\ loc'[p] = Blank
      BY <1>L, <2>1 DEF Goto
    <3> QED BY <2>1, <3>1 DEF InPlace, Blank
  <2> QED BY <1>1, <1>6, <2>1 DEF CallFails
<1> QED BY <1>2, <1>3, <1>4, <1>5, <1>6 DEF Act

\* Only deploy's INSERT adds a mission, and it adds a new one.
LEMMA MissionsGrow ==
    ASSUME TypeOK, Room, NEW p \in Proc, InPlace(p), Act(p)
    PROVE  /\ p \in Request /\ InsertMission(p) =>
                NewId \in MissionId \ Missions /\ Missions' = Missions \cup {NewId}
           /\ ~(p \in Request /\ InsertMission(p)) => Missions' = Missions
<1>1. ASSUME NEW m \in MissionId, m \in Missions', m \notin Missions
      PROVE  p \in Request /\ InsertMission(p) /\ m = NewId
  <2>1. missions'[m] # missions[m]
    BY <1>1 DEF Missions
  <2> QED BY <1>1, <2>1, MissionChanges DEF Changes
<1>2. Missions \subseteq Missions' /\ Missions' \subseteq MissionId /\ Missions \subseteq MissionId
  BY MissionsKept DEF Missions
<1>3. ASSUME p \in Request, InsertMission(p)
      PROVE  NewId \in MissionId \ Missions /\ NewId \in Missions'
  <2>1. NewId \in MissionId \ Missions
    BY <1>3, FreshId DEF InsertMission
  <2>2. missions' = [missions EXCEPT ![NewId] = loc[p].order]
    BY <1>3 DEF InsertMission
  <2>3. loc[p].order # NoMission
    BY <1>3, Shape, RowsAreMissions DEF InsertMission, Ordering
  <2> QED BY <2>1, <2>2, <2>3 DEF Missions, TypeOK
<1> QED BY <1>1, <1>2, <1>3

(*************************************************************************)
(* Room for the rows that are about to be inserted, and RP owed.         *)
(*************************************************************************)

\* There is room at first, ...
LEMMA RoomInit == Init => Room
<1> SUFFICES ASSUME Init PROVE Room
  OBVIOUS
<1>1. Orders = {} /\ Missions = {}
  BY Requests DEF Init, Orders, Missions, Blank
<1> QED BY <1>1, FS_EmptySet, MissionsCounted DEF Room

\* ... CheckDeploy leaves some, and InsertMission uses what was reserved.
LEMMA RoomStep ==
    ASSUME TypeOK, Room, \A q \in Proc : InPlace(q) /\ InPlace(q)', NEW p \in Proc, Act(p)
    PROVE  Room'
<1>1. Orders = {r \in Request : pc[r] \in Ordering} /\ Orders' = {r \in Request : pc'[r] \in Ordering}
  BY Requests DEF Orders, InPlace, Ordering
<1>2. \A q \in Proc \ {p} : pc'[q] = pc[q]
  BY OthersWait
<1>3. Cardinality(Missions) \in Nat /\ Cardinality(MissionId) \in Nat /\ IsFiniteSet(Missions)
  BY MissionsCounted DEF Missions
<1>4. IsFiniteSet(Orders) /\ Cardinality(Orders) \in Nat
      /\ Cardinality(Missions) + Cardinality(Orders) <= Cardinality(MissionId)
  BY FS_CardinalityType DEF Room
<1>5. CASE p \in Request /\ InsertMission(p)
  <2>1. p \in Orders /\ pc'[p] = "idle"
    BY <1>1, <1>5, ReturnStays DEF InsertMission, Ordering
  <2>2. Orders' = Orders \ {p}
    BY <1>1, <1>2, <2>1, Requests DEF Ordering
  <2>3. IsFiniteSet(Orders') /\ Cardinality(Orders') = Cardinality(Orders) - 1
    BY <1>4, <2>1, <2>2, FS_RemoveElement
  <2>4. Cardinality(Missions') = Cardinality(Missions) + 1
    BY <1>3, <1>5, MissionsGrow, FS_AddElement
  <2> QED BY <1>3, <1>4, <2>3, <2>4, FS_CardinalityType DEF Room
<1>6. CASE p \in Request /\ pc[p] \notin Ordering /\ pc'[p] \in Ordering
  <2>1. \E a \in Agent, k \in DeployKind, t \in Sim, tap \in Resonance : CheckDeploy(p, a, k, t, tap)
    BY <1>6, Requests DEF Act, Begin, CheckRecall, CheckSweep, CheckFortify, RequestResolve,
       Arrive, Goto,
         Continue, PayDeploy, CannotPayDeploy, InsertMission, RefundHalf, ReturnOperative, PaySweep, Scan,
         MarkDetected, EndSweep, FortifyZone, Return, Resolve, SelectPending, ActivateMission, RollSuccess,
         RollFailure, TapRp, Conclude, AllResolved, CallFails, Ordering, TypeOK
  <2>2. Missions' = Missions /\ Cardinality(Missions) + Cardinality(Orders) < Cardinality(MissionId)
    BY <2>1 DEF CheckDeploy, Missions, Reserved, Orders
  <2>3. Orders' = Orders \cup {p} /\ p \notin Orders
    BY <1>1, <1>2, <1>6, Requests
  <2>4. IsFiniteSet(Orders') /\ Cardinality(Orders') = Cardinality(Orders) + 1
    BY <1>4, <2>3, FS_AddElement
  <2> QED BY <1>3, <1>4, <2>2, <2>4 DEF Room
<1>7. CASE ~(p \in Request /\ InsertMission(p)) /\ (p \in Request => pc[p] \in Ordering \/ pc'[p] \notin Ordering)
  <2>1. Missions' = Missions
    BY <1>7, MissionsGrow
  <2>2. Orders' \subseteq Orders
    BY <1>1, <1>2, <1>7, Requests
  <2>3. IsFiniteSet(Orders') /\ Cardinality(Orders') <= Cardinality(Orders) /\ Cardinality(Orders') \in Nat
    BY <1>4, <2>2, FS_Subset, FS_CardinalityType
  <2> QED BY <1>3, <1>4, <2>1, <2>3 DEF Room
<1> QED BY <1>5, <1>6, <1>7

\* Nothing is owed at first, ...
LEMMA OwingInit == Init => Owing
<1> SUFFICES ASSUME Init PROVE Owing
  OBVIOUS
<1>1. \A r \in Request : pc[r] = "idle" /\ taken[r] = 0
  BY Requests DEF Init
<1> QED BY <1>1 DEF Owing, Owes

\* ... and a request owes what it has paid for until it is written.
LEMMA OwingStep ==
    ASSUME TypeOK, Owing, \A q \in Proc : InPlace(q), NEW p \in Proc, Act(p)
    PROVE  Owing'
<1> DEFINE OK(r) == taken[r] >= Owes(r) /\ (faults = 0 => taken[r] = Owes(r))
<1>0. taken \in [Request -> Nat] /\ pc \in [Proc -> Label] /\ loc \in [Proc -> Locals] /\ faults \in Nat
  BY DEF TypeOK
<1>1. ASSUME NEW r \in Request, r # p PROVE OK(r)'
  <2>1. pc'[r] = pc[r] /\ loc'[r] = loc[r]
    BY <1>1, OthersWait, Requests
  <2>2. taken'[r] = taken[r]
    BY <1>0, <1>1 DEF Act, Begin, CheckDeploy, CheckRecall, CheckSweep, CheckFortify,
       RequestResolve,
         Continue, PayDeploy, SpendRp, CannotPayDeploy, InsertMission, RefundHalf, ReturnOperative, PaySweep, Scan,
         MarkDetected, EndSweep, FortifyZone, Resolve, SelectPending, ActivateMission, RollSuccess,
         RollFailure, TapRp, Conclude, AllResolved, CallFails, history,
         Cycle, StartCycle, BatchGrantRp, AdvanceMissionTimers, AdvanceCycle, ExpireFortifications
  <2>3. faults' = faults \/ faults' = faults + 1
    BY <1>0 DEF Act, Begin, CheckDeploy, CheckRecall, CheckSweep, CheckFortify, RequestResolve,
         Continue, PayDeploy, SpendRp, CannotPayDeploy, InsertMission, RefundHalf, ReturnOperative, PaySweep, Scan,
         MarkDetected, EndSweep, FortifyZone, Resolve, SelectPending, ActivateMission, RollSuccess,
         RollFailure, TapRp, Conclude, AllResolved, CallFails, bounds,
         Cycle, StartCycle, BatchGrantRp, AdvanceMissionTimers, AdvanceCycle, ExpireFortifications
  <2>4. faults' = 0 => faults = 0
    BY <1>0, <2>3
  <2>5. Owes(r)' = Owes(r)
    BY <2>1 DEF Owes
  <2> QED BY <2>2, <2>4, <2>5 DEF Owing
<1>2. ASSUME p \in Request PROVE OK(p)'
  <2>0. OK(p) /\ taken[p] \in Nat
    BY <1>0, <1>2 DEF Owing
  <2>1. CASE PayDeploy(p)
    <3>1. pc[p] = "spend" /\ pc'[p] = "insert" /\ loc' = loc /\ taken'[p] = taken[p] + loc[p].order.cost /\ faults' = faults
      BY <1>0, <1>2, <2>1 DEF PayDeploy, SpendRp, Goto, bounds
    <3>2. loc[p].order.cost \in Nat
      BY <3>1, Shape DEF Ordering, Row
    <3> QED BY <2>0, <3>1, <3>2 DEF Owes
  <2>2. CASE InsertMission(p)
    <3>1. pc[p] = "insert" /\ pc'[p] = "idle" /\ taken'[p] = taken[p] - loc[p].order.cost /\ faults' = faults
      BY <1>0, <1>2, <2>2, ReturnStays DEF InsertMission, bounds
    <3>2. loc[p].order.cost \in Nat
      BY <3>1, Shape DEF Ordering, Row
    <3> QED BY <2>0, <3>1, <3>2 DEF Owes
  <2>3. CASE PaySweep(p) /\ ~Return(p)
    <3>1. pc[p] = "pay" /\ pc'[p] = "scan" /\ taken'[p] = taken[p] + SweepCost /\ faults' = faults
      BY <1>0, <1>2, <2>3 DEF PaySweep, SpendRp, Goto, bounds
    <3> QED BY <2>0, <3>1 DEF Owes, SweepCost
  <2>4. CASE Scan(p) \/ MarkDetected(p)
    <3>1. pc[p] \in {"scan", "mark"} /\ pc'[p] = "mark" /\ taken' = taken /\ faults' \in {faults, faults + 1}
      BY <1>0, <1>2, <2>4 DEF Scan, MarkDetected, Goto, bounds, history
    <3> QED BY <1>0, <2>0, <3>1 DEF Owes, SweepCost
  <2>5. CASE EndSweep(p)
    <3>1. pc[p] = "mark" /\ pc'[p] = "idle" /\ taken'[p] = taken[p] - SweepCost /\ faults' = faults
      BY <1>0, <1>2, <2>5, ReturnStays DEF EndSweep, bounds
    <3> QED BY <2>0, <3>1 DEF Owes, SweepCost
  <2>6. CASE CallFails(p)
    <3>1. taken' = taken /\ faults' = faults + 1 /\ pc'[p] = "idle"
      BY <1>2, <2>6, ReturnStays, Requests DEF CallFails, history
    <3> QED BY <1>0, <2>0, <3>1 DEF Owes
  <2>7. CASE ~PayDeploy(p) /\ ~InsertMission(p) /\ (PaySweep(p) => Return(p)) /\ ~Scan(p) /\ ~MarkDetected(p)
             /\ ~EndSweep(p) /\ ~CallFails(p)
    <3>1. pc[p] \notin {"insert", "scan", "mark"} /\ pc'[p] \notin {"insert", "scan", "mark"}
      BY <1>0, <1>2, <2>7, ReturnStays, Requests DEF Act, Begin, CheckDeploy, CheckRecall,
         CheckSweep, CheckFortify, RequestResolve,
         Arrive, Goto, Continue, CannotPayDeploy, RefundHalf, ReturnOperative, PaySweep,
         FortifyZone, Resolve, SelectPending, ActivateMission, RollSuccess,
         RollFailure, TapRp, Conclude, AllResolved, Outcome
    <3>2. taken' = taken /\ (faults' = faults \/ faults' = faults + 1)
      BY <1>0, <1>2, <2>7, Requests DEF Act, Begin, CheckDeploy, CheckRecall, CheckSweep,
         CheckFortify, RequestResolve,
         Return, Goto, Continue, CannotPayDeploy, RefundHalf, ReturnOperative, PaySweep, SpendRp,
         FortifyZone, Resolve, SelectPending, ActivateMission, RollSuccess,
         RollFailure, TapRp, Conclude, AllResolved, bounds, history
    <3> QED BY <1>0, <2>0, <3>1, <3>2 DEF Owes
  <2> QED BY <2>1, <2>2, <2>3, <2>4, <2>5, <2>6, <2>7
<1> QED BY <1>1, <1>2 DEF Owing

\* TypeOK is not inductive by itself: that a row written has the type of a row
\* depends on what the coroutine about to write it holds, and that an inserted
\* row overwrites none on the room the bound on missions leaves.
TypeInv == TypeOK /\ Room /\ (\A p \in Proc : InPlace(p)) /\ Owing

\* Any step of any process keeps the types.
LEMMA ActType ==
    ASSUME TypeInv, NEW p \in Proc, Act(p)
    PROVE  TypeOK'
<1>0. TypeOK /\ InPlace(p)
  BY DEF TypeInv
<1>1. CASE p \in Request /\ Begin(p)
  <2>1. ASSUME NEW a \in Agent, NEW k \in DeployKind, NEW tap \in Resonance,
               NEW t \in Sim \ {Owner[a]}, CheckDeploy(p, a, k, t, tap)
        PROVE  TypeOK'
    BY <1>0, <1>1, <2>1, DeployType
  <2>2. ASSUME NEW m \in Missions, CheckRecall(p, m) PROVE TypeOK'
    BY <1>0, <1>1, <2>2, RecallType
  <2>3. ASSUME NEW s \in Sim, CheckSweep(p, s) PROVE TypeOK'
    BY <1>0, <1>1, <2>3, SweepType DEF TypeInv, Owing
  <2>4. ASSUME NEW z \in Zone, CheckFortify(p, z) PROVE TypeOK'
    BY <1>0, <1>1, <2>4, FortifyType
  <2>5. CASE RequestResolve(p)
    <3>1. pc' \in [Proc -> Label] /\ asked' \in Nat
      BY <1>0, <1>1, <2>5, ArriveType DEF RequestResolve, Label, Resolving
    <3>2. contested' \in BOOLEAN
      BY <1>0, <2>5 DEF TypeOK, RequestResolve, history
    <3> QED BY <1>0, <2>5, <3>1, <3>2 DEF TypeOK, RequestResolve, epoch, zones, history
  <2> QED BY <1>1, <2>1, <2>2, <2>3, <2>4, <2>5 DEF Begin
<1>2. CASE p \in Request /\ Continue(p)
  <2>1. taken[p] >= Owes(p)
    BY <1>2 DEF TypeInv, Owing
  <2>2. CASE CannotPayDeploy(p)
    BY <1>0, <2>2, EndType DEF CannotPayDeploy
  <2> QED BY <1>0, <1>2, <2>1, <2>2, PayDeployType, InsertType, RefundType, ReturnOperativeType,
             SweepType, FortifyType DEF Continue
<1>3. CASE Cycle
  BY <1>0, <1>3, CycleType
<1>4. CASE Resolve(p)
  BY <1>0, <1>4, ResolveType
<1>5. CASE CallFails(p)
  BY <1>0, <1>5, FailType
<1> QED BY <1>1, <1>2, <1>3, <1>4, <1>5 DEF Act

\* Everyone is in place at first.
LEMMA InPlaceInit == Init => \A p \in Proc : InPlace(p)
BY BlankStays DEF Init, InPlace, Blank, OfPipeline, OfRequest, Ordering, Recalling, Sweeping,
   Concluding, Outcome

\* The invariant holds at first ...
LEMMA TypeInvInit == Init => TypeInv
BY TypeInit, RoomInit, InPlaceInit, OwingInit DEF TypeInv

\* ... and every step keeps it.
LEMMA TypeInvStep == TypeInv /\ [Next]_vars => TypeInv'
<1> SUFFICES ASSUME TypeInv, [Next]_vars PROVE TypeInv'
  OBVIOUS
<1>1. ASSUME NEW p \in Proc, Act(p) PROVE TypeInv'
  <2>1. TypeOK /\ Room /\ Owing /\ \A q \in Proc : InPlace(q)
    BY DEF TypeInv
  <2>2. TypeOK'
    BY <1>1, ActType
  <2>3. ASSUME NEW q \in Proc PROVE InPlace(q)'
    <3>1. CASE q = p
      BY <1>1, <2>1, <3>1, MoverInPlace
    <3>2. CASE q # p
      <4>1. pc'[q] = pc[q] /\ loc'[q] = loc[q]
        BY <1>1, <2>1, <3>2, OthersWait
      <4>2. Missions \subseteq Missions'
        BY <1>1, <2>1, MissionsKept
      <4> QED BY <2>1, <4>1, <4>2, AsideStays
    <3> QED BY <3>1, <3>2
  <2>4. Room'
    BY <1>1, <2>1, <2>3, RoomStep
  <2>5. Owing'
    BY <1>1, <2>1, OwingStep
  <2> QED BY <2>2, <2>3, <2>4, <2>5 DEF TypeInv
<1>2. CASE UNCHANGED vars
  <2>1. contested' \in BOOLEAN
    BY <1>2 DEF TypeInv, TypeOK, vars, history
  <2>2. TypeOK'
    BY <1>2, <2>1 DEF TypeInv, TypeOK, vars, epoch, zones, bounds, history
  <2>3. Missions' = Missions
    BY <1>2 DEF Missions, vars
  <2>4. \A p \in Proc : InPlace(p)'
    BY <1>2, <2>3 DEF TypeInv, InPlace, vars
  <2>5. Room'
    BY <1>2, <2>3 DEF TypeInv, Room, Orders, vars
  <2>6. Owing'
    BY <1>2 DEF TypeInv, Owing, Owes, vars, history, bounds
  <2> QED BY <2>2, <2>4, <2>5, <2>6 DEF TypeInv
<1> QED BY <1>1, <1>2, NextActs

\* In every reachable state the types hold, every coroutine holds what its next
\* call needs, and rows about to be inserted have room.
THEOREM TypeInvariant == Spec => []TypeInv
<1> QED BY TypeInvInit, TypeInvStep, PTL DEF Spec

\*
\* In particular balances and counters never go below zero, whatever the
\* interleaving of spend_rp, grant_rp and fn_transfer_rp_atomic.
THEOREM TypeCorrect == Spec => []TypeOK
<1>1. TypeInv => TypeOK
  BY DEF TypeInv
<1> QED BY <1>1, TypeInvariant, PTL

\* deploy and counter_intel_sweep: as long as no call fails, a request that has
\* taken RP delivers the mission or the sweep before it ends.
THEOREM NothingOwed == Spec => []RpBuysSomething
<1>1. TypeInv => RpBuysSomething
  BY DEF TypeInv, Owing, Owes, RpBuysSomething
<1> QED BY <1>1, TypeInvariant, PTL

\* What a step does to the status of a mission.
StatusMove(p, m) ==
    \/ missions'[m].status = missions[m].status
    \/ missions'[m].status \in Outcome \cup {"expired"}
    \/ /\ ReturnOperative(p) /\ p \in Request
       /\ m = loc[p].mission /\ missions'[m].status = "returning"
    \/ missions[m].status = "deploying" /\ missions'[m].status = "active"

\* A step does one of these things to the status of every mission.
LEMMA StatusMoves ==
    ASSUME TypeOK, Room, NEW p \in Proc, InPlace(p), Act(p), NEW m \in Missions
    PROVE  StatusMove(p, m)
<1>0. m \in MissionId /\ missions[m] \in Row
  BY DEF TypeOK, Missions
<1>1. ASSUME NEW n \in Missions, NEW s, missions' = [missions EXCEPT ![n].status = s]
      PROVE  missions'[m].status = missions[m].status \/ (m = n /\ missions'[m].status = s)
  <2>1. [missions[m] EXCEPT !.status = s].status = s
    BY <1>0 DEF Row
  <2> QED BY <1>0, <1>1, <2>1 DEF TypeOK
<1>2. CASE missions'[m] = missions[m]
  BY <1>2 DEF StatusMove
<1>3. CASE p \in Request /\ ReturnOperative(p)
  <2>1. loc[p].mission \in Missions
    BY <1>3, Shape DEF ReturnOperative, Recalling
  <2> QED BY <1>1, <1>3, <2>1 DEF ReturnOperative, StatusMove
<1>4. CASE MarkDetected(p)
  <2>1. PICK job \in loc[p].todo : missions' = missions \/ missions' = [missions EXCEPT ![job[1]].status = "detected"]
    BY <1>4 DEF MarkDetected
  <2>2. job[1] \in Missions
    BY DEF InPlace
  <2> QED BY <1>1, <1>2, <2>1, <2>2 DEF StatusMove, Outcome
<1>5. CASE Conclude(p)
  <2>1. loc[p].mission \in Missions
    BY <1>5, Shape DEF Conclude, Concluding
  <2> QED BY <1>1, <1>5, <2>1 DEF Conclude, StatusMove
<1>6. CASE ActivateMission(p)
  <2>1. PICK n \in MissionId : <<n, "deploying">> \in loc[p].todo
            /\ missions' = IF missions[n].status = "deploying"
                           THEN [missions EXCEPT ![n].status = "active"] ELSE missions
    BY <1>6 DEF ActivateMission
  <2>2. n \in Missions
    BY <2>1, Shape
  <2> QED BY <1>1, <1>2, <2>1, <2>2 DEF StatusMove
<1>7. CASE AdvanceCycle
  <2>1. [missions[m] EXCEPT !.status = "expired"].status = "expired"
    BY <1>0 DEF Row
  <2> QED BY <1>0, <1>2, <1>7, <2>1 DEF AdvanceCycle, StatusMove
<1>8. CASE AdvanceMissionTimers
  <2>1. \A n : [missions[m] EXCEPT !.left = n].status = missions[m].status
    BY <1>0 DEF Row
  <2> QED BY <1>0, <1>2, <1>8, <2>1 DEF AdvanceMissionTimers, StatusMove
<1>9. CASE p \in Request /\ InsertMission(p)
  <2>1. NewId \in MissionId \ Missions
    BY <1>9, FreshId DEF InsertMission
  <2> QED BY <1>0, <1>2, <1>9, <2>1 DEF InsertMission, TypeOK
<1>10. CASE missions' # missions
  <2>1. p \in Request /\ Begin(p) => missions' = missions
    BY DEF Begin, CheckDeploy, CheckRecall, CheckSweep, CheckFortify, RequestResolve
  <2>2. p \in Request /\ Continue(p) =>
            InsertMission(p) \/ ReturnOperative(p) \/ MarkDetected(p) \/ missions' = missions
    BY DEF Continue, PayDeploy, CannotPayDeploy, RefundHalf, PaySweep, Scan, EndSweep, FortifyZone
  <2>3. Cycle => AdvanceMissionTimers \/ AdvanceCycle \/ missions' = missions
    BY DEF Cycle, StartCycle, BatchGrantRp, ExpireFortifications
  <2>4. Resolve(p) => ActivateMission(p) \/ Conclude(p) \/ missions' = missions
    BY DEF Resolve, SelectPending, RollSuccess, RollFailure, TapRp, AllResolved
  <2>5. CallFails(p) => missions' = missions
    BY DEF CallFails
  <2> QED BY <1>3, <1>4, <1>5, <1>6, <1>7, <1>8, <1>9, <1>10, <2>1, <2>2, <2>3, <2>4, <2>5 DEF Act
<1> QED BY <1>2, <1>10

\* recall, sweep and resolution write the status without reading it, yet no order
\* of theirs makes a mission that is over, or returning, active again.
THEOREM NothingReactivates == Spec => NeverReactivated
<1> DEFINE Stays == \A m \in Missions :
                       missions[m].status \notin Open => missions'[m].status \notin Open
<1>1. ASSUME TypeInv, [Next]_vars PROVE [Stays]_vars
  <2>1. ASSUME NEW p \in Proc, Act(p), NEW m \in Missions, missions[m].status \notin Open
        PROVE  missions'[m].status \notin Open
    <3>1. TypeOK /\ Room /\ InPlace(p)
      BY <1>1 DEF TypeInv
    <3>2. StatusMove(p, m)
      BY <2>1, <3>1, StatusMoves
    <3> QED BY <2>1, <3>2 DEF StatusMove, Open, Outcome
  <2> QED BY <1>1, <2>1, NextActs
<1>2. TypeInv /\ [Next]_vars => [Stays]_vars
  BY <1>1
<1> QED BY <1>2, TypeInvariant, PTL DEF Spec, NeverReactivated

(***************************************************************************)

(*************************************************************************)
(* Fortifications.                                                       *)
(*************************************************************************)

\* fort and zone move together, and both or neither in one transaction.
LEMMA FortificationStep ==
    ASSUME TypeOK, FortificationTemporary, [Next]_vars
    PROVE  FortificationTemporary'
<1> DEFINE Right(z) == Rank(ZoneLevel[z]) < 8 =>
                          Rank(zone[z]) = Rank(ZoneLevel[z]) + (IF fort[z] = 0 THEN 0 ELSE 1)
<1> SUFFICES ASSUME NEW z \in Zone, z \notin hit' PROVE Right(z)'
  BY DEF FortificationTemporary
<1>0. zone \in [Zone -> Level] /\ fort \in [Zone -> Nat] /\ current_cycle \in Nat /\ ZoneLevel[z] \in Level
  BY MissionAssumption DEF TypeOK, MissionAssumption
<1>1. CASE UNCHANGED <<zones, hit>>
  BY <1>1 DEF zones, FortificationTemporary
<1>2. ASSUME NEW p \in Proc, RollSuccess(p) PROVE Right(z)'
  <2>1. PICK m \in MissionId : ApplyEffect(m)
    BY <1>2 DEF RollSuccess
  <2>2. z \notin hit /\ zone'[z] = zone[z]
    BY <1>0, <2>1 DEF ApplyEffect
  <2> QED BY <1>2, <2>2 DEF RollSuccess, FortificationTemporary
<1>3. ASSUME NEW r \in Request, FortifyZone(r) PROVE Right(z)'
  <2>0. z \notin hit /\ Right(z)
    BY <1>3 DEF FortifyZone, history, FortificationTemporary
  <2>1. CASE zone'[z] = zone[z] /\ fort'[z] = fort[z]
    BY <2>0, <2>1
  <2>2. CASE fort[z] = 0 /\ zone'[z] = Fortified(zone[z]) /\ fort'[z] = FoundationCycles + FortificationCycles
    <3>1. fort'[z] # 0
      BY <2>2, PhaseAssumption, MissionAssumption DEF PhaseAssumption, MissionAssumption
    <3>3. Rank(ZoneLevel[z]) \in 1..8 /\ zone[z] \in Level
      BY <1>0, RankType
    <3>4. Rank(ZoneLevel[z]) < 8 => Rank(zone[z]) < 8
      BY <2>0, <2>2, <3>3
    <3>2. Rank(ZoneLevel[z]) < 8 => Rank(Fortified(zone[z])) = Rank(zone[z]) + 1
      BY <3>3, <3>4, LevelMoves
    <3> QED BY <2>0, <2>2, <3>1, <3>2, <3>3
  <2> QED BY <1>0, <1>3, <2>1, <2>2 DEF FortifyZone, zones
<1>4. CASE ExpireFortifications
  <2>0. z \notin hit /\ Right(z)
    BY <1>4 DEF ExpireFortifications, history, FortificationTemporary
  <2>1. CASE zone'[z] = zone[z] /\ fort'[z] = fort[z]
    BY <2>0, <2>1
  <2>2. CASE fort[z] # 0 /\ zone'[z] = Unfortified(zone[z]) /\ fort'[z] = 0
    <3>1. Rank(ZoneLevel[z]) \in 1..8
      BY <1>0, RankType
    <3>2. Rank(ZoneLevel[z]) < 8 => Rank(Unfortified(zone[z])) = Rank(zone[z]) - 1
      BY <1>0, <2>0, <2>2, <3>1, LevelMoves
    <3> QED BY <2>0, <2>2, <3>1, <3>2
  <2>3. fort[z] \in 1..current_cycle => fort[z] # 0
    BY <1>0
  <2> QED BY <1>4, <2>1, <2>2, <2>3 DEF ExpireFortifications
<1>5. Next => \/ UNCHANGED <<zones, hit>>
              \/ \E p \in Proc : RollSuccess(p)
              \/ \E r \in Request : FortifyZone(r)
              \/ ExpireFortifications
  <2>1. ASSUME NEW r \in Request, Begin(r) PROVE UNCHANGED <<zones, hit>>
    BY <2>1 DEF Begin, CheckDeploy, CheckRecall, CheckSweep, CheckFortify, RequestResolve, history
  <2>2. ASSUME NEW r \in Request, Continue(r) PROVE FortifyZone(r) \/ UNCHANGED <<zones, hit>>
    BY <2>2 DEF Continue, PayDeploy, CannotPayDeploy, InsertMission, RefundHalf, ReturnOperative,
       PaySweep, Scan,
        MarkDetected, EndSweep, history
  <2>3. Cycle => ExpireFortifications \/ UNCHANGED <<zones, hit>>
    BY DEF Cycle, StartCycle, BatchGrantRp, AdvanceMissionTimers, AdvanceCycle, history
  <2>4. ASSUME NEW p \in Proc, Resolve(p) PROVE RollSuccess(p) \/ UNCHANGED <<zones, hit>>
    BY <2>4 DEF Resolve, SelectPending, ActivateMission, RollFailure, TapRp, Conclude, AllResolved,
       history
  <2>5. ASSUME NEW p \in Proc, CallFails(p) PROVE UNCHANGED <<zones, hit>>
    BY <2>5 DEF CallFails, history
  <2> QED BY <2>1, <2>2, <2>3, <2>4, <2>5 DEF Next
<1> QED BY <1>1, <1>2, <1>3, <1>4, <1>5 DEF vars, history

\* fn_fortify_zone_atomic and fn_expire_fortifications: a zone no saboteur has
\* reached is a tier above its first level while fortified, and back afterwards.
THEOREM FortificationsTemporary == Spec => []FortificationTemporary
<1>1. Init => FortificationTemporary
  <2>1. \A z \in Zone : Rank(ZoneLevel[z]) \in Nat
    BY RankType, MissionAssumption DEF MissionAssumption
  <2> QED BY <2>1 DEF Init, FortificationTemporary
<1>2. TypeOK /\ FortificationTemporary /\ [Next]_vars => FortificationTemporary'
  BY FortificationStep
<1> QED BY <1>1, <1>2, TypeCorrect, PTL DEF Spec

============================================================================
