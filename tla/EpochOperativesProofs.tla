----------------------- MODULE EpochOperativesProofs -----------------------
(*************************************************************************)
(* What becomes of one operative, for any simulations, agents, zones,    *)
(* requests and failures: it is on one mission, which is refunded once,  *)
(* takes effect once and ends on time.                                   *)
(*************************************************************************)
EXTENDS EpochMissionsProofs

(*************************************************************************)
(* One mission per agent.                                                *)
(*************************************************************************)

\* The request is about to insert a mission of the agent, or recalls one.
Holds(r, a) ==
    \/ pc[r] \in Ordering /\ loc[r].order.agent = a
    \/ pc[r] \in Recalling /\ missions[loc[r].mission].agent = a

\* One request at a time holds an agent.  While one deploys it the agent is free;
\* while one recalls it, it is on that mission at most.
Single(a) ==
    /\ \A m, n \in Busy(a) : m = n
    /\ \A r, q \in Request : Holds(r, a) /\ Holds(q, a) => r = q
    /\ \A r \in Request : Holds(r, a) =>
          Busy(a) \subseteq (IF pc[r] \in Recalling THEN {loc[r].mission} ELSE {})

\* Requests that deal with an agent are the ones NoteOverlap looks for.
LEMMA HoldsConcerns ==
    ASSUME \A q \in Proc : InPlace(q), NEW r \in Request, NEW a, Holds(r, a)
    PROVE  Concerns(r, a)
BY Requests DEF Holds, Concerns, InPlace

\* An agent two requests have dealt with at once stays marked.
LEMMA OverlapGrows ==
   ASSUME NEW p \in Proc, Act(p) PROVE overlapped \subseteq overlapped'
<1>1. p \in Request /\ Begin(p) => overlapped \subseteq overlapped'
    BY DEF Begin, CheckDeploy, CheckRecall, CheckSweep, CheckFortify, RequestResolve, NoteOverlap,
       history
<1>2. p \in Request /\ Continue(p) => overlapped' = overlapped
    BY DEF Continue, PayDeploy, CannotPayDeploy, InsertMission, RefundHalf, ReturnOperative,
       PaySweep, Scan, MarkDetected, EndSweep, FortifyZone, history
<1>3. Cycle => overlapped' = overlapped
    BY DEF Cycle, StartCycle, BatchGrantRp, AdvanceMissionTimers, AdvanceCycle,
       ExpireFortifications, history
<1>4. Resolve(p) => overlapped' = overlapped
    BY DEF Resolve, SelectPending, ActivateMission, RollSuccess, RollFailure, TapRp, Conclude,
       AllResolved, history
<1>5. CallFails(p) => overlapped' = overlapped
    BY DEF CallFails, history
<1> QED BY <1>1, <1>2, <1>3, <1>4, <1>5 DEF Act

\* A step other than an insertion or a return makes no agent busier, ...
LEMMA BusyShrinks ==
    ASSUME TypeOK, Room, NEW p \in Proc, InPlace(p), Act(p), NEW a,
           ~(p \in Request /\ InsertMission(p)),
           p \in Request /\ ReturnOperative(p) => missions[loc[p].mission].agent # a
    PROVE  Busy(a)' \subseteq Busy(a)
<1> SUFFICES ASSUME NEW m \in Busy(a)' PROVE m \in Busy(a)
  OBVIOUS
<1>1. m \in Missions /\ missions'[m].status \in Open \cup {"returning"} /\ missions'[m].agent = a
  BY MissionsGrow DEF Busy
<1>2. missions[m].agent = a
  BY <1>1, MissionsKept
<1>3. StatusMove(p, m)
  BY <1>1, StatusMoves
<1> QED BY <1>1, <1>2, <1>3 DEF Busy, StatusMove, Open, Outcome

\* ... and one that begins nothing takes no agent on.
BeginsDealing(p) ==
    /\ p \in Request
    /\ \/ \E a \in Agent, k \in DeployKind, tap \in Resonance : \E t \in Sim \ {Owner[a]} : CheckDeploy(p, a, k, t, tap)
       \/ \E m \in Missions : CheckRecall(p, m)

\* Who is past the payment was before it, and the locals stay.
LEMMA DealingsKept ==
    ASSUME TypeOK, NEW p \in Proc, Act(p), ~BeginsDealing(p), NEW r \in Request
    PROVE  /\ pc'[r] \in Ordering => pc[r] \in Ordering /\ loc'[r] = loc[r]
           /\ pc'[r] = "refund" => pc[r] = "refund" /\ loc'[r] = loc[r]
           /\ pc'[r] = "return" => \/ pc[r] = "return" /\ loc'[r] = loc[r]
                                   \/ r = p /\ RefundHalf(p)
           /\ p \in Request /\ RefundHalf(p) => pc[p] = "refund" /\ pc'[p] = "return" /\ loc' = loc
<1>0. pc \in [Proc -> Label] /\ loc \in [Proc -> Locals]
  BY DEF TypeOK
<1>4. p \in Request /\ RefundHalf(p) => pc[p] = "refund" /\ pc'[p] = "return" /\ loc' = loc
  BY <1>0 DEF RefundHalf, Goto
<1>1. CASE r # p
  BY <1>1, <1>4, OthersWait, Requests
<1>2. CASE r = p
  <2>1. CASE Return(p)
    BY <1>2, <1>4, <2>1, ReturnStays DEF Ordering
  <2>2. CASE ~Return(p)
    <3>1. \/ pc'[p] \notin Ordering \cup Recalling
          \/ PayDeploy(p) \/ RefundHalf(p)
      BY <1>0, <1>2, <2>2, Requests DEF Act, Begin, BeginsDealing, CheckSweep, CheckFortify,
         RequestResolve,
         Arrive, Goto, Continue, CannotPayDeploy, InsertMission, ReturnOperative, PaySweep, Scan, MarkDetected, EndSweep,
         FortifyZone, Resolve, SelectPending, ActivateMission, RollSuccess, CallFails,
         RollFailure, TapRp, Conclude, AllResolved, Outcome, Ordering, Recalling
    <3>2. PayDeploy(p) => pc[p] \in Ordering /\ pc'[p] = "insert" /\ loc' = loc
      BY <1>0 DEF PayDeploy, Goto, Ordering
    <3> QED BY <1>2, <1>4, <3>1, <3>2 DEF Ordering, Recalling
  <2> QED BY <2>1, <2>2
<1> QED BY <1>1, <1>2, <1>4

\* So nobody comes to hold an agent without beginning to.
LEMMA HoldsKept ==
    ASSUME TypeInv, NEW p \in Proc, Act(p), ~BeginsDealing(p),
           NEW r \in Request, NEW a, Holds(r, a)'
    PROVE  /\ Holds(r, a)
           /\ pc'[r] \in Recalling <=> pc[r] \in Recalling
           /\ loc'[r].mission = loc[r].mission
<1>0. TypeOK /\ Room /\ InPlace(p) /\ InPlace(r)
  BY Requests DEF TypeInv
<1>1. CASE pc'[r] \in Ordering
  BY <1>0, <1>1, DealingsKept DEF Holds, Ordering, Recalling
<1>2. CASE pc'[r] \in Recalling
  <2>1. pc[r] \in Recalling /\ loc'[r] = loc[r]
    BY <1>0, <1>2, DealingsKept DEF Recalling
  <2>2. loc[r].mission \in Missions
    BY <1>0, <2>1, Shape, Requests
  <2>3. missions'[loc[r].mission].agent = missions[loc[r].mission].agent
    BY <1>0, <2>2, MissionsKept
  <2>4. missions'[loc'[r].mission].agent = a
    BY <1>2 DEF Holds, Ordering, Recalling
  <2> QED BY <1>2, <2>1, <2>3, <2>4 DEF Holds
<1> QED BY <1>1, <1>2 DEF Holds

\* Every step of every process keeps it.
LEMMA SingleStep ==
    ASSUME TypeInv, NEW p \in Proc, Act(p), NEW a \in Agent, a \notin overlapped', Single(a)
    PROVE  Single(a)'
<1>0. TypeOK /\ Room /\ \A q \in Proc : InPlace(q)
  BY DEF TypeInv
<1>L. loc[p] \in Locals /\ loc \in [Proc -> Locals] /\ pc \in [Proc -> Label]
  BY <1>0 DEF TypeOK
<1>O. \A q \in Proc \ {p} : pc'[q] = pc[q] /\ loc'[q] = loc[q]
  BY <1>0, OthersWait
<1>1. CASE BeginsDealing(p)
  <2>0. missions' = missions /\ Busy(a)' = Busy(a)
    BY <1>1 DEF BeginsDealing, CheckDeploy, CheckRecall, Busy, Missions
  <2>1. ASSUME NEW r \in Request, r # p PROVE /\ Holds(r, a)' <=> Holds(r, a)
                                              /\ pc'[r] = pc[r] /\ loc'[r] = loc[r]
    BY <1>O, <2>0, <2>1, Requests DEF Holds
  <2>2. ASSUME NoteOverlap(p, a), p \in Request PROVE \A q \in Request : Holds(q, a)' => q = p
    BY <1>0, <2>1, <2>2, HoldsConcerns DEF NoteOverlap
  <2>3. ASSUME p \in Request, NEW b \in Agent, NEW k \in DeployKind, NEW tap \in Resonance, NEW t \in Sim \ {Owner[b]}, CheckDeploy(p, b, k, t, tap)
        PROVE  Single(a)'
    <3>1. pc'[p] = "spend" /\ loc'[p].order.agent = b
      BY <1>L, <2>3 DEF CheckDeploy, Arrive, Goto, NewRow, Locals
    <3>2. CASE b = a
      BY <2>0, <2>2, <2>3, <3>1, <3>2 DEF Single, CheckDeploy, Recalling
    <3>3. CASE b # a
      <4>1. ~Holds(p, a)'
        BY <3>1, <3>3 DEF Holds, Recalling
      <4> QED BY <2>0, <2>1, <4>1 DEF Single
    <3> QED BY <3>2, <3>3
  <2>4. ASSUME p \in Request, NEW m \in Missions, CheckRecall(p, m) PROVE Single(a)'
    <3>1. pc'[p] = "refund" /\ loc'[p].mission = m
      BY <1>L, <2>4 DEF CheckRecall, Arrive, Goto, Locals
    <3>2. CASE missions[m].agent = a
      <4>1. m \in Busy(a)
        BY <2>4, <3>2 DEF CheckRecall, OpenMissions, Busy
      <4> QED BY <2>0, <2>2, <2>4, <3>1, <3>2, <4>1 DEF Single, CheckRecall, Recalling
    <3>3. CASE missions[m].agent # a
      <4>1. ~Holds(p, a)'
        BY <2>0, <3>1, <3>3 DEF Holds, Ordering
      <4> QED BY <2>0, <2>1, <4>1 DEF Single
    <3> QED BY <3>2, <3>3
  <2> QED BY <1>1, <2>3, <2>4 DEF BeginsDealing
<1>2. CASE ~BeginsDealing(p)
  <2>1. \A r, q \in Request : Holds(r, a)' /\ Holds(q, a)' => r = q
    BY <1>2, HoldsKept DEF Single
  <2>2. CASE p \in Request /\ InsertMission(p)
    <3>1. pc[p] = "insert" /\ pc'[p] = "idle"
      BY <1>0, <2>2, ReturnStays DEF InsertMission
    <3>2. ~Holds(p, a)'
      BY <3>1 DEF Holds, Ordering, Recalling
    <3>3. /\ NewId \in MissionId \ Missions /\ Missions' = Missions \cup {NewId}
          /\ missions' = [missions EXCEPT ![NewId] = loc[p].order]
      BY <1>0, <2>2, MissionsGrow DEF InsertMission
    <3>4. missions'[NewId] = loc[p].order /\ \A m \in Missions : missions'[m] = missions[m]
      BY <1>0, <3>3 DEF TypeOK, Missions
    <3>5. CASE loc[p].order.agent = a
      <4>1. Holds(p, a)
        BY <3>1, <3>5 DEF Holds, Ordering
      <4>2. Busy(a) = {}
        BY <2>2, <3>1, <4>1 DEF Single, Recalling
      <4>3. Busy(a)' \subseteq {NewId}
        BY <3>3, <3>4, <4>2 DEF Busy
      <4>4. \A r \in Request : ~Holds(r, a)'
        BY <1>2, <2>2, <3>2, <4>1, HoldsKept DEF Single
      <4> QED BY <2>1, <4>3, <4>4 DEF Single
    <3>6. CASE loc[p].order.agent # a
      <4>1. Busy(a)' = Busy(a)
        BY <3>3, <3>4, <3>6 DEF Busy
      <4> QED BY <1>2, <2>1, <4>1, HoldsKept DEF Single
    <3> QED BY <3>5, <3>6
  <2>3. CASE p \in Request /\ ReturnOperative(p) /\ missions[loc[p].mission].agent = a
    <3>1. pc[p] = "return" /\ pc'[p] = "idle"
      BY <1>0, <2>3, ReturnStays DEF ReturnOperative
    <3>2. Holds(p, a) /\ ~Holds(p, a)'
      BY <2>3, <3>1 DEF Holds, Ordering, Recalling
    <3>3. \A r \in Request : ~Holds(r, a)'
      BY <1>2, <2>3, <3>2, HoldsKept DEF Single
    <3>4. Busy(a) \subseteq {loc[p].mission}
      BY <2>3, <3>1, <3>2 DEF Single, Recalling
    <3>5. Busy(a)' \subseteq {loc[p].mission}
      <4>1. ASSUME NEW m \in Busy(a)', m # loc[p].mission PROVE FALSE
        <5>1. ~(p \in Request /\ InsertMission(p))
          BY <3>1 DEF InsertMission
        <5>2. m \in Missions /\ missions'[m].status \in Open \cup {"returning"} /\ missions'[m].agent = a
          BY <1>0, <5>1, MissionsGrow DEF Busy
        <5>3. missions'[m] = missions[m]
          BY <1>0, <2>3, <4>1, <5>2 DEF ReturnOperative, Missions, TypeOK
        <5>4. m \in Busy(a)
          BY <5>2, <5>3 DEF Busy
        <5> QED BY <3>4, <4>1, <5>4
      <4> QED BY <4>1
    <3> QED BY <2>1, <3>3, <3>5 DEF Single
  <2>4. CASE ~(p \in Request /\ InsertMission(p)) /\ ~(p \in Request /\ ReturnOperative(p) /\ missions[loc[p].mission].agent = a)
    <3>1. Busy(a)' \subseteq Busy(a)
      BY <1>0, <2>4, BusyShrinks
    <3>2. \A m, n \in Busy(a)' : m = n
      BY <3>1 DEF Single
    <3>3. ASSUME NEW r \in Request, Holds(r, a)'
          PROVE  Busy(a)' \subseteq (IF pc'[r] \in Recalling THEN {loc'[r].mission} ELSE {})
      <4>1. Holds(r, a) /\ (pc'[r] \in Recalling <=> pc[r] \in Recalling) /\ loc'[r].mission = loc[r].mission
        BY <1>2, <3>3, HoldsKept
      <4> QED BY <3>1, <4>1 DEF Single
    <3> QED BY <2>1, <3>2, <3>3 DEF Single
  <2> QED BY <2>2, <2>3, <2>4
<1> QED BY <1>1, <1>2

\* The invariant, for the agents no two requests have dealt with at once.
AllSingle == \A a \in Agent \ overlapped : Single(a)

\* In every reachable state one request at a time holds such an agent.
THEOREM AgentsSingle == Spec => []AllSingle
<1>1. Init => AllSingle
  <2> SUFFICES ASSUME Init PROVE AllSingle
    OBVIOUS
  <2>1. Missions = {} /\ \A r \in Request : pc[r] = "idle"
    BY Requests DEF Init, Missions
  <2>2. \A a : Busy(a) = {}
    BY <2>1 DEF Busy
  <2> QED BY <2>1, <2>2 DEF AllSingle, Single, Holds, Ordering, Recalling
<1>2. TypeInv /\ AllSingle /\ [Next]_vars => AllSingle'
  <2> SUFFICES ASSUME TypeInv, AllSingle, [Next]_vars, NEW a \in Agent, a \notin overlapped' PROVE Single(a)'
    BY DEF AllSingle
  <2>1. ASSUME NEW p \in Proc, Act(p) PROVE Single(a)'
    <3>1. Single(a)
      BY <2>1, OverlapGrows DEF AllSingle
    <3> QED BY <2>1, <3>1, SingleStep
  <2>2. CASE UNCHANGED vars
    <3>1. Single(a)
      BY <2>2 DEF AllSingle, vars, history
    <3>2. Busy(a)' = Busy(a)
      BY <2>2 DEF Busy, Missions, vars
    <3>3. \A r \in Request : Holds(r, a)' <=> Holds(r, a)
      BY <2>2 DEF Holds, vars
    <3> QED BY <2>2, <3>1, <3>2, <3>3 DEF Single, vars
  <2> QED BY <2>1, <2>2, NextActs
<1> QED BY <1>1, <1>2, TypeInvariant, PTL DEF Spec

\* deploy's check that the agent is not on a mission and its INSERT are two calls,
\* and recall's read and UPDATE too: while no two requests deal with an agent at
\* once, the pipeline cannot put it on two missions either.
THEOREM OneMission == Spec => []OneMissionPerAgent
<1>1. TypeInv /\ AllSingle => OneMissionPerAgent
  <2> SUFFICES ASSUME TypeInv, AllSingle, NEW a \in Agent \ overlapped PROVE Cardinality(Busy(a)) <= 1
    BY DEF OneMissionPerAgent
  <2>1. \A m, n \in Busy(a) : m = n
    BY DEF AllSingle, Single
  <2>2. CASE Busy(a) = {}
    BY <2>2, FS_EmptySet
  <2>3. ASSUME NEW m \in Busy(a) PROVE Cardinality(Busy(a)) <= 1
    <3>1. Busy(a) = {m}
      BY <2>1, <2>3
    <3> QED BY <3>1, FS_Singleton
  <2> QED BY <2>2, <2>3
<1> QED BY <1>1, AgentsSingle, TypeInvariant, PTL

(*************************************************************************)
(* One refund per deployment.                                            *)
(*************************************************************************)

\* A mission refunded is returning, or is about to be.
RefundOf(m) ==
    /\ m \notin Missions => refunds[m] = 0
    /\ m \in Missions /\ faults = 0 /\ missions[m].agent \notin overlapped =>
          /\ refunds[m] <= 1
          /\ \A r \in Request : pc[r] = "refund" /\ loc[r].mission = m => refunds[m] = 0
          /\ refunds[m] = 1 /\ missions[m].status \in Open =>
                \E r \in Request : pc[r] = "return" /\ loc[r].mission = m

\* Only recall's grant_rp counts as a refund.
LEMMA RefundMoves ==
    ASSUME TypeOK, NEW p \in Proc, InPlace(p), Act(p)
    PROVE  \/ p \in Request /\ RefundHalf(p)
              /\ refunds' = [refunds EXCEPT ![loc[p].mission] = refunds[loc[p].mission] + 1]
              /\ missions' = missions
           \/ refunds' = refunds
<1>1. p \in Request /\ Begin(p) => refunds' = refunds
  BY DEF Begin, CheckDeploy, CheckRecall, CheckSweep, CheckFortify, RequestResolve, history
<1>2. p \in Request /\ Continue(p) /\ ~RefundHalf(p) => refunds' = refunds
  BY DEF Continue, PayDeploy, CannotPayDeploy, InsertMission, ReturnOperative, PaySweep, Scan,
     MarkDetected, EndSweep, FortifyZone, history
<1>3. Cycle => refunds' = refunds
  BY DEF Cycle, StartCycle, BatchGrantRp, AdvanceMissionTimers, AdvanceCycle, ExpireFortifications,
     history
<1>4. Resolve(p) => refunds' = refunds
  BY DEF Resolve, SelectPending, ActivateMission, RollSuccess, RollFailure, TapRp, Conclude,
     AllResolved, history
<1>5. CallFails(p) => refunds' = refunds
  BY DEF CallFails, history
<1> QED BY <1>1, <1>2, <1>3, <1>4, <1>5 DEF Act, RefundHalf

\* Failures are not forgotten.
LEMMA FaultsGrow ==
    ASSUME TypeOK, NEW p \in Proc, Act(p), faults' = 0 PROVE faults = 0 /\ ~CallFails(p)
<1>0. faults \in Nat
  BY DEF TypeOK
<1>1. p \in Request /\ Begin(p) => faults' = faults
  BY DEF Begin, CheckDeploy, CheckRecall, CheckSweep, CheckFortify, RequestResolve
<1>2. p \in Request /\ Continue(p) => faults' \in {faults, faults + 1}
  BY DEF Continue, PayDeploy, CannotPayDeploy, InsertMission, RefundHalf, ReturnOperative,
     PaySweep, Scan, MarkDetected, EndSweep, FortifyZone, bounds
<1>3. Cycle => faults' = faults
  BY DEF Cycle, StartCycle, BatchGrantRp, AdvanceMissionTimers, AdvanceCycle, ExpireFortifications,
     bounds
<1>4. Resolve(p) => faults' \in {faults, faults + 1}
  BY DEF Resolve, SelectPending, ActivateMission, RollSuccess, RollFailure, TapRp, Conclude,
     AllResolved, bounds
<1>5. CallFails(p) => faults' = faults + 1
  BY DEF CallFails
<1> QED BY <1>0, <1>1, <1>2, <1>3, <1>4, <1>5 DEF Act

\* Every step of every process keeps it.
LEMMA RefundStep ==
    ASSUME TypeInv, AllSingle, NEW p \in Proc, Act(p), NEW m \in MissionId, RefundOf(m)
    PROVE  RefundOf(m)'
<1>0. TypeOK /\ Room /\ (\A q \in Proc : InPlace(q)) /\ refunds \in [MissionId -> Nat]
  BY DEF TypeInv, TypeOK
<1>M. Missions \subseteq Missions' /\ \A n \in Missions : missions'[n].agent = missions[n].agent
  BY <1>0, MissionsKept
<1>1. ASSUME m \notin Missions' PROVE refunds'[m] = 0
  <2>1. m \notin Missions /\ refunds[m] = 0
    BY <1>1, <1>M DEF RefundOf
  <2>2. p \in Request /\ RefundHalf(p) => loc[p].mission \in Missions
    BY <1>0, Shape DEF RefundHalf, Recalling
  <2> QED BY <1>0, <2>1, <2>2, RefundMoves
<1>2. ASSUME m \in Missions', m \notin Missions
      PROVE  refunds'[m] = 0 /\ \A r \in Request : pc'[r] = "return" => loc'[r].mission # m
  <2>1. p \in Request /\ InsertMission(p)
    BY <1>0, <1>2, MissionsGrow
  <2>2. refunds' = refunds /\ refunds[m] = 0
    BY <1>2, <2>1 DEF InsertMission, RefundOf
  <2>3. ASSUME NEW r \in Request, pc'[r] = "return" PROVE loc'[r].mission # m
    <3>1. r # p
      BY <1>0, <2>1, <2>3, ReturnStays DEF InsertMission
    <3>2. pc[r] = "return" /\ loc'[r] = loc[r]
      BY <1>0, <2>3, <3>1, OthersWait, Requests
    <3> QED BY <1>0, <1>2, <3>2, Shape, Requests DEF Recalling
  <2> QED BY <2>2, <2>3
<1>3. ASSUME m \in Missions, faults' = 0, missions'[m].agent \notin overlapped'
      PROVE  /\ refunds'[m] <= 1
             /\ \A r \in Request : pc'[r] = "refund" /\ loc'[r].mission = m => refunds'[m] = 0
             /\ refunds'[m] = 1 /\ missions'[m].status \in Open =>
                   \E r \in Request : pc'[r] = "return" /\ loc'[r].mission = m
  <2> DEFINE a == missions[m].agent
  <2>0. faults = 0 /\ a \notin overlapped /\ a \in Agent /\ missions'[m].agent = a /\ a \notin overlapped'
    BY <1>0, <1>3, <1>M, FaultsGrow, OverlapGrows DEF Missions, TypeOK, Row
  <2>1. /\ refunds[m] <= 1
        /\ \A r \in Request : pc[r] = "refund" /\ loc[r].mission = m => refunds[m] = 0
        /\ refunds[m] = 1 /\ missions[m].status \in Open =>
                \E r \in Request : pc[r] = "return" /\ loc[r].mission = m
    BY <1>3, <2>0 DEF RefundOf
  <2>2. \A r, q \in Request : Holds(r, a) /\ Holds(q, a) => r = q
    BY <2>0 DEF AllSingle, Single
  <2>3. CASE BeginsDealing(p)
    <3>1. refunds' = refunds /\ missions' = missions
      BY <2>3 DEF BeginsDealing, CheckDeploy, CheckRecall
    <3>2. p \in Request /\ pc[p] = "idle"
      BY <2>3 DEF BeginsDealing, CheckDeploy, CheckRecall, Arrive
    <3>3. \A r \in Request \ {p} : pc'[r] = pc[r] /\ loc'[r] = loc[r]
      BY <1>0, OthersWait, Requests
    <3>4. refunds[m] = 1 /\ missions[m].status \in Open =>
                \E r \in Request : pc'[r] = "return" /\ loc'[r].mission = m
      BY <2>1, <3>2, <3>3
    <3>5. ASSUME pc'[p] = "refund", loc'[p].mission = m PROVE refunds[m] = 0
      <4>1. CheckRecall(p, m)
        <5>1. PICK n \in Missions : CheckRecall(p, n)
          BY <1>0, <2>3, <3>2, <3>5, Requests DEF BeginsDealing, CheckDeploy, Arrive, Goto, TypeOK
        <5>2. loc'[p].mission = n
          BY <1>0, <5>1, Requests DEF CheckRecall, TypeOK, Locals
        <5> QED BY <3>5, <5>1, <5>2
      <4>2. missions[m].status \in Open /\ NoteOverlap(p, a)
        BY <4>1 DEF CheckRecall, OpenMissions
      <4>3. ASSUME NEW r \in Request, pc[r] = "return", loc[r].mission = m PROVE FALSE
        <5>1. Concerns(r, a) /\ r # p
          BY <1>0, <3>2, <4>3, Requests DEF Concerns, InPlace, Recalling
        <5> QED BY <2>0, <4>2, <5>1 DEF NoteOverlap
      <4> QED BY <1>0, <2>1, <4>2, <4>3
    <3> QED BY <1>0, <2>1, <3>1, <3>3, <3>4, <3>5
  <2>4. CASE p \in Request /\ RefundHalf(p)
    <3>1. pc[p] = "refund" /\ pc'[p] = "return" /\ loc' = loc
      BY <1>0, <2>4, DealingsKept DEF BeginsDealing, RefundHalf, CheckDeploy, CheckRecall, Arrive
    <3>2. refunds' = [refunds EXCEPT ![loc[p].mission] = refunds[loc[p].mission] + 1]
      BY <2>4 DEF RefundHalf
    <3>3. CASE loc[p].mission = m
      <4>1. refunds'[m] = 1
        BY <1>0, <2>1, <2>4, <3>1, <3>2, <3>3
      <4>2. Holds(p, a)
        BY <3>1, <3>3 DEF Holds, Recalling
      <4>3. ASSUME NEW r \in Request, pc'[r] = "refund", loc'[r].mission = m PROVE FALSE
        <5>1. r # p /\ pc[r] = "refund"
          BY <1>0, <3>1, <4>3, OthersWait, Requests
        <5>2. Holds(r, a)
          BY <3>1, <4>3, <5>1 DEF Holds, Recalling
        <5> QED BY <2>2, <2>4, <4>2, <5>1, <5>2
      <4> QED BY <2>4, <3>1, <3>3, <4>1, <4>3
    <3>4. CASE loc[p].mission # m
      <4>1. refunds'[m] = refunds[m] /\ missions' = missions
        BY <1>0, <2>4, <3>2, <3>4 DEF RefundHalf
      <4>2. \A r \in Request \ {p} : pc'[r] = pc[r] /\ loc'[r] = loc[r]
        BY <1>0, OthersWait, Requests
      <4> QED BY <2>1, <3>1, <3>4, <4>1, <4>2
    <3> QED BY <3>3, <3>4
  <2>5. CASE ~BeginsDealing(p) /\ ~(p \in Request /\ RefundHalf(p))
    <3>1. refunds' = refunds
      BY <1>0, <2>5, RefundMoves
    <3>2. ASSUME NEW r \in Request, pc'[r] = "refund", loc'[r].mission = m PROVE refunds[m] = 0
      BY <1>0, <2>1, <2>5, <3>2, DealingsKept
    <3>3. ASSUME refunds[m] = 1, missions'[m].status \in Open
          PROVE \E r \in Request : pc'[r] = "return" /\ loc'[r].mission = m
      <4>1. StatusMove(p, m)
        BY <1>0, <1>3, StatusMoves
      <4>2. missions[m].status \in Open
        BY <3>3, <4>1 DEF StatusMove, Open, Outcome
      <4>3. PICK r \in Request : pc[r] = "return" /\ loc[r].mission = m
        BY <2>1, <3>3, <4>2
      <4>4. CASE r # p
        BY <1>0, <4>3, <4>4, OthersWait, Requests
      <4>5. CASE r = p
        <5>1. ReturnOperative(p) \/ CallFails(p)
          BY <4>3, <4>5, Requests DEF Act, Begin, CheckDeploy, CheckRecall, CheckSweep,
             CheckFortify, RequestResolve, Arrive,
             Continue, PayDeploy, CannotPayDeploy, InsertMission, RefundHalf, PaySweep, Scan, MarkDetected, EndSweep, FortifyZone,
             Resolve, SelectPending, ActivateMission, RollSuccess, RollFailure, TapRp, Conclude, AllResolved, Outcome
        <5>2. ReturnOperative(p)
          BY <1>0, <1>3, <5>1, FaultsGrow
        <5>3. missions' = [missions EXCEPT ![m].status = "returning"] /\ m \in MissionId /\ missions[m] \in Row
          BY <1>0, <1>3, <4>3, <4>5, <5>2 DEF ReturnOperative, Missions, TypeOK
        <5>4. missions'[m].status = "returning"
          BY <1>0, <5>3 DEF Row, TypeOK
        <5> QED BY <3>3, <5>4 DEF Open
      <4> QED BY <4>4, <4>5
    <3> QED BY <2>1, <3>1, <3>2, <3>3
  <2> QED BY <2>3, <2>4, <2>5
<1> QED BY <1>0, <1>1, <1>2, <1>3 DEF RefundOf

\* The invariant.
AllRefunds == \A m \in MissionId : RefundOf(m)

\* In every reachable state refunds are in order.
THEOREM RefundsBounded == Spec => []AllRefunds
<1>1. Init => AllRefunds
  BY DEF Init, AllRefunds, RefundOf, Missions
<1>2. TypeInv /\ AllSingle /\ AllRefunds /\ [Next]_vars => AllRefunds'
  <2> SUFFICES ASSUME TypeInv, AllSingle, AllRefunds, [Next]_vars, NEW m \in MissionId PROVE RefundOf(m)'
    BY DEF AllRefunds
  <2>1. ASSUME NEW p \in Proc, Act(p) PROVE RefundOf(m)'
    BY <2>1, RefundStep DEF AllRefunds
  <2>2. CASE UNCHANGED vars
    BY <2>2 DEF AllRefunds, RefundOf, Missions, vars, history, bounds
  <2> QED BY <2>1, <2>2, NextActs
<1> QED BY <1>1, <1>2, AgentsSingle, TypeInvariant, PTL DEF Spec

\* recall grants the refund before it writes the status: without a failed call in
\* between, a mission is refunded twice only if two requests recall it at once.
THEOREM RefundsOnce == Spec => []RefundedOnce
<1>1. TypeInv /\ AllRefunds => RefundedOnce
  <2> SUFFICES ASSUME TypeInv, AllRefunds, faults = 0, NEW m \in Missions, refunds[m] > 1,
                      missions[m].agent \notin overlapped
               PROVE  FALSE
    BY DEF RefundedOnce
  <2>1. m \in MissionId /\ refunds[m] \in Nat
    BY DEF TypeInv, TypeOK, Missions
  <2>2. refunds[m] <= 1
    BY <2>1 DEF AllRefunds, RefundOf
  <2> QED BY <2>1, <2>2
<1> QED BY <1>1, RefundsBounded, TypeInvariant, PTL

(*************************************************************************)
(* One effect per mission.                                               *)
(*************************************************************************)

\* The calls of resolve_pending_missions after its SELECT.
Working == {"resolve"} \cup Concluding

\* A mission that had its effect is over, or about to be written as over.
EffectOf(m) ==
    /\ effects[m] <= 1
    /\ effects[m] = 1 /\ m \in OpenMissions =>
          \E p \in Proc : pc[p] \in {"tap", "success"} /\ loc[p].mission = m

\* A mission still to be rolled has had no effect.
Unspent(p) ==
    pc[p] \in Working =>
        \A m \in MissionId : <<m, "active">> \in loc[p].todo =>
            effects[m] = 0 /\ m # loc[p].mission

\* The invariant: one process at a time is past its SELECT, and what it still has
\* to roll has had no effect.
EffectInv ==
    /\ \A m \in MissionId \ Missions : effects[m] = 0
    /\ faults = 0 /\ ~contested =>
        /\ \A p, q \in Proc : pc[p] \in Working /\ pc[q] \in Working => p = q
        /\ \A p \in Proc : Unspent(p)
        /\ \A m \in MissionId : EffectOf(m)

\* The calls that contested is about.
LEMMA WorkingIsResolving == Working = Resolving \ {"select"}
BY DEF Working, Resolving, Concluding, Outcome

\* Nothing but a resolution has an effect.
LEMMA ElsewhereNoEffect ==
    ASSUME TypeOK, NEW p \in Proc, InPlace(p), Act(p), ~Resolve(p), ~CallFails(p)
    PROVE  pc[p] \notin Working /\ pc'[p] \notin Working /\ effects' = effects /\ contested' = contested
<1>0. pc \in [Proc -> Label] /\ loc \in [Proc -> Locals]
  BY DEF TypeOK
<1> USE DEF Working, Concluding, Outcome
<1>1. ASSUME p \in Request, Begin(p)
      PROVE  pc[p] \notin Working /\ pc'[p] \notin Working /\ effects' = effects /\ contested' = contested
  BY <1>0, <1>1 DEF Begin, CheckDeploy, CheckRecall, CheckSweep, CheckFortify, RequestResolve,
     Arrive, Goto, history
<1>2. ASSUME p \in Request, Continue(p)
      PROVE  pc[p] \notin Working /\ pc'[p] \notin Working /\ effects' = effects /\ contested' = contested
  BY <1>0, <1>2 DEF Continue, PayDeploy, CannotPayDeploy, InsertMission, RefundHalf,
     ReturnOperative, PaySweep, Scan,
      MarkDetected, EndSweep, FortifyZone, Goto, Return, history
<1>3. ASSUME p = Pipeline, Cycle
      PROVE  pc[p] \notin Working /\ pc'[p] \notin Working /\ effects' = effects /\ contested' = contested
  BY <1>0, <1>3 DEF Cycle, StartCycle, BatchGrantRp, AdvanceMissionTimers, AdvanceCycle,
     ExpireFortifications, Goto, Return, history
<1> QED BY <1>1, <1>2, <1>3 DEF Act

\* What is left of the mission that had its effect, when the step does not end it.
LEMMA EffectKept ==
    ASSUME TypeOK, Room, NEW p \in Proc, InPlace(p), Act(p), NEW m \in Missions, m \in OpenMissions',
           effects'[m] = effects[m], EffectOf(m),
           \/ pc[p] \notin {"tap", "success"}
           \/ pc'[p] \in {"tap", "success"} /\ loc'[p].mission = loc[p].mission
    PROVE  EffectOf(m)'
<1>1. StatusMove(p, m)
  BY StatusMoves
<1>2. m \in OpenMissions
  BY <1>1 DEF OpenMissions, StatusMove, Open, Outcome
<1>3. ASSUME NEW q \in Proc, pc[q] \in {"tap", "success"}, loc[q].mission = m
      PROVE  pc'[q] \in {"tap", "success"} /\ loc'[q].mission = m
  <2>1. CASE q = p
    BY <1>3, <2>1
  <2>2. CASE q # p
    BY <1>3, <2>2, OthersWait
  <2> QED BY <2>1, <2>2
<1> QED BY <1>2, <1>3 DEF EffectOf

\* Every step of every process keeps it.
LEMMA EffectStep ==
    ASSUME TypeInv, NEW p \in Proc, Act(p), EffectInv
    PROVE  EffectInv'
<1>0. TypeOK /\ Room /\ (\A q \in Proc : InPlace(q))
  BY DEF TypeInv
<1>L. loc \in [Proc -> Locals] /\ pc \in [Proc -> Label] /\ loc[p] \in Locals /\ effects \in [MissionId -> Nat]
  BY <1>0 DEF TypeOK
<1>O. \A q \in Proc \ {p} : pc'[q] = pc[q] /\ loc'[q] = loc[q]
  BY <1>0, OthersWait
<1>M. Missions \subseteq Missions' /\ Missions' \subseteq MissionId
  BY <1>0, MissionsKept DEF Missions
<1>E. effects' = effects \/ RollSuccess(p)
  BY <1>0, ElsewhereNoEffect DEF Resolve, SelectPending, ActivateMission, RollFailure, TapRp,
     Conclude, AllResolved, CallFails, history
<1>R. RollSuccess(p) => \E m \in MissionId : m \in Missions /\ <<m, "active">> \in loc[p].todo /\ effects' = [effects EXCEPT ![m] = effects[m] + 1]
             /\ loc' = [loc EXCEPT ![p].todo = loc[p].todo \ {<<m, "active">>}, ![p].mission = m]
  BY <1>0, Shape DEF RollSuccess
<1>1. ASSUME NEW m \in MissionId \ Missions' PROVE effects'[m] = 0
  <2>1. effects[m] = 0
    BY <1>1, <1>M DEF EffectInv
  <2> QED BY <1>1, <1>E, <1>R, <1>M, <1>L, <2>1
<1>2. ASSUME faults' = 0, ~contested'
      PROVE  /\ \A r, q \in Proc : pc'[r] \in Working /\ pc'[q] \in Working => r = q
             /\ \A q \in Proc : Unspent(q)'
             /\ \A m \in MissionId : EffectOf(m)'
  <2>1. faults = 0 /\ ~CallFails(p)
    BY <1>0, <1>2, FaultsGrow
  <2>2. ~contested
    <3>1. Resolve(p) => (contested => contested')
      BY DEF Resolve, SelectPending, ActivateMission, RollSuccess, RollFailure, TapRp, Conclude,
         AllResolved, history
    <3> QED BY <1>0, <1>2, <2>1, <3>1, ElsewhereNoEffect
  <2>3. /\ \A r, q \in Proc : pc[r] \in Working /\ pc[q] \in Working => r = q
        /\ \A q \in Proc : Unspent(q)
        /\ \A m \in MissionId : EffectOf(m)
    BY <2>1, <2>2 DEF EffectInv
  \* A mission that is not on the table now.
  <2>4. ASSUME NEW m \in MissionId, m \notin OpenMissions', effects'[m] <= 1 PROVE EffectOf(m)'
    BY <2>4 DEF EffectOf
  <2>5. ASSUME NEW m \in MissionId, m \notin Missions, effects' = effects PROVE EffectOf(m)'
    <3>1. effects'[m] = 0
      BY <2>5 DEF EffectInv
    <3> QED BY <3>1 DEF EffectOf
  <2>6. ASSUME effects' = effects,
               \/ pc[p] \notin {"tap", "success"}
               \/ pc'[p] \in {"tap", "success"} /\ loc'[p].mission = loc[p].mission,
               NEW m \in MissionId
        PROVE  EffectOf(m)'
    <3>1. CASE m \notin Missions
      BY <2>5, <2>6, <3>1
    <3>2. CASE m \in Missions /\ m \in OpenMissions'
      BY <1>0, <2>3, <2>6, <3>2, EffectKept
    <3>3. CASE m \notin OpenMissions'
      BY <2>3, <2>4, <2>6, <3>3 DEF EffectOf
    <3> QED BY <3>1, <3>2, <3>3
  <2>7. CASE ~Resolve(p)
    <3>1. pc[p] \notin Working /\ pc'[p] \notin Working /\ effects' = effects
      BY <1>0, <2>1, <2>7, ElsewhereNoEffect
    <3>2. \A q \in Proc : Unspent(q)'
      BY <1>O, <2>3, <3>1 DEF Unspent
    <3> QED BY <1>O, <2>3, <2>6, <3>1, <3>2 DEF Working, Concluding, Outcome
  <2>8. CASE SelectPending(p)
    <3>1. /\ pc[p] = "select" /\ pc'[p] = "resolve" /\ loc'[p].mission = loc[p].mission
          /\ loc'[p].todo = {<<m, missions[m].status>> : m \in Pending}
          /\ effects' = effects
      BY <1>L, <2>8 DEF SelectPending, Goto, Locals
    <3>2. \A q \in Proc \ {p} : pc[q] \notin Working
      BY <1>2, <2>8, WorkingIsResolving DEF SelectPending
    <3>3. Unspent(p)'
      <4> SUFFICES ASSUME NEW m \in MissionId, <<m, "active">> \in loc'[p].todo
                   PROVE  effects'[m] = 0 /\ m # loc'[p].mission
        BY DEF Unspent
      <4>1. m \in OpenMissions
        BY <3>1 DEF Pending
      <4>2. loc[p].mission = 0 /\ m # 0
        BY <1>0, <3>1, MissionAssumption DEF InPlace, Recalling, Concluding, Outcome,
           MissionAssumption
      <4>3. \A q \in Proc : pc[q] \notin {"tap", "success"}
        BY <3>1, <3>2 DEF Working, Concluding, Outcome
      <4>4. effects[m] # 1 /\ effects[m] <= 1 /\ effects[m] \in Nat
        BY <1>L, <2>3, <4>1, <4>3 DEF EffectOf
      <4> QED BY <3>1, <4>2, <4>4
    <3>4. \A q \in Proc : Unspent(q)'
      BY <1>O, <3>2, <3>3 DEF Unspent
    <3>5. \A m \in MissionId : EffectOf(m)'
      BY <2>6, <3>1
    <3> QED BY <1>O, <3>1, <3>2, <3>4, <3>5
  <2>9. ASSUME pc[p] \in Working
        PROVE  /\ \A q \in Proc \ {p} : pc[q] \notin Working /\ pc'[q] \notin Working
               /\ \A r, q \in Proc : pc'[r] \in Working /\ pc'[q] \in Working => r = q
               /\ \A q \in Proc \ {p} : Unspent(q)'
    BY <1>O, <2>3, <2>9 DEF Unspent
  <2>10. CASE ActivateMission(p) \/ RollFailure(p) \/ AllResolved(p)
    <3>1. pc[p] = "resolve" /\ effects' = effects
      BY <2>10 DEF ActivateMission, RollFailure, AllResolved, history
    <3>2. Unspent(p)'
      <4>1. CASE ActivateMission(p)
        <5>1. loc'[p].mission = loc[p].mission /\ loc'[p].todo \subseteq loc[p].todo
          BY <1>L, <4>1 DEF ActivateMission, Locals
        <5> QED BY <2>3, <3>1, <5>1 DEF Unspent, Working
      <4>2. CASE RollFailure(p)
        <5>1. PICK m \in MissionId : loc' = [loc EXCEPT ![p].todo = loc[p].todo \ {<<m, "active">>}, ![p].mission = m]
          BY <4>2 DEF RollFailure
        <5>2. loc'[p].mission = m /\ loc'[p].todo = loc[p].todo \ {<<m, "active">>}
          BY <1>L, <5>1 DEF Locals
        <5> QED BY <2>3, <3>1, <5>2 DEF Unspent, Working
      <4>3. CASE AllResolved(p)
        <5>1. pc'[p] \in {"idle", "expire"}
          BY <1>L, <4>3 DEF AllResolved, Return, Goto
        <5> QED BY <5>1 DEF Unspent, Working, Concluding, Outcome
      <4> QED BY <2>10, <4>1, <4>2, <4>3
    <3>3. \A m \in MissionId : EffectOf(m)'
      BY <2>6, <3>1
    <3> QED BY <2>9, <3>1, <3>2, <3>3 DEF Working
  <2>11. CASE TapRp(p)
    <3>1. pc[p] = "tap" /\ pc'[p] = "success" /\ loc' = loc /\ effects' = effects
      BY <1>L, <2>11 DEF TapRp, Goto, history
    <3>2. Unspent(p)'
      BY <2>3, <3>1 DEF Unspent, Working, Concluding
    <3>3. \A m \in MissionId : EffectOf(m)'
      BY <2>6, <3>1
    <3> QED BY <2>9, <3>1, <3>2, <3>3 DEF Working, Concluding
  <2>12. CASE RollSuccess(p)
    <3>1. PICK n \in MissionId :
             /\ n \in Missions /\ <<n, "active">> \in loc[p].todo
             /\ effects' = [effects EXCEPT ![n] = effects[n] + 1]
             /\ loc' = [loc EXCEPT ![p].todo = loc[p].todo \ {<<n, "active">>}, ![p].mission = n]
      BY <1>R, <2>12
    <3>2. pc[p] = "resolve" /\ pc'[p] \in {"tap", "success"}
      BY <1>L, <2>12 DEF RollSuccess, Goto
    <3>3. loc'[p].mission = n /\ loc'[p].todo = loc[p].todo \ {<<n, "active">>}
      BY <1>L, <3>1 DEF Locals
    <3>4. effects[n] = 0 /\ effects'[n] = 1 /\ \A m \in MissionId \ {n} : effects'[m] = effects[m]
      BY <1>L, <2>3, <3>1, <3>2 DEF Unspent, Working
    <3>5. Unspent(p)'
      BY <2>3, <3>1, <3>2, <3>3, <3>4 DEF Unspent, Working
    <3>6. EffectOf(n)'
      BY <3>2, <3>3, <3>4 DEF EffectOf
    <3>7. ASSUME NEW m \in MissionId \ {n} PROVE EffectOf(m)'
      <4>1. CASE m \notin Missions
        BY <3>4, <3>7, <4>1 DEF EffectOf, EffectInv
      <4>2. CASE m \in Missions /\ m \in OpenMissions'
        BY <1>0, <2>3, <3>2, <3>4, <3>7, <4>2, EffectKept
      <4>3. CASE m \notin OpenMissions'
        BY <2>3, <2>4, <3>4, <3>7, <4>3 DEF EffectOf
      <4> QED BY <4>1, <4>2, <4>3
    <3> QED BY <2>9, <3>2, <3>5, <3>6, <3>7 DEF Working
  <2>13. CASE Conclude(p)
    <3>1. pc[p] \in Outcome /\ pc'[p] = "resolve" /\ loc'[p].mission = 0 /\ loc'[p].todo = loc[p].todo
          /\ effects' = effects
      BY <1>L, <2>13 DEF Conclude, Goto, Locals, history
    <3>2. Unspent(p)'
      BY <2>3, <3>1, MissionAssumption DEF Unspent, Working, Concluding, MissionAssumption
    <3>3. ASSUME NEW m \in MissionId PROVE EffectOf(m)'
      <4>1. CASE m = loc[p].mission
        <5>1. missions[m] \in Row
          BY <1>0, <3>1, <4>1, Shape DEF Concluding
        <5>2. missions'[m].status \in Outcome
          BY <1>0, <2>13, <4>1, <5>1 DEF Conclude, TypeOK, Row
        <5>3. m \notin OpenMissions'
          BY <5>2 DEF OpenMissions, Open, Outcome
        <5> QED BY <2>3, <2>4, <3>1, <5>3 DEF EffectOf
      <4>2. CASE m # loc[p].mission /\ m \in Missions /\ m \in OpenMissions'
        <5>1. StatusMove(p, m)
          BY <1>0, <4>2, StatusMoves
        <5>2. m \in OpenMissions
          BY <4>2, <5>1 DEF OpenMissions, StatusMove, Open, Outcome
        <5>3. \A q \in Proc : ~(pc[q] \in {"tap", "success"} /\ loc[q].mission = m)
          BY <2>9, <3>1, <4>2 DEF Working, Concluding, Outcome
        <5>4. effects[m] # 1
          BY <2>3, <5>2, <5>3 DEF EffectOf
        <5> QED BY <2>3, <3>1, <5>4 DEF EffectOf
      <4>3. CASE m \notin Missions
        BY <2>5, <3>1, <4>3
      <4>4. CASE m \notin OpenMissions'
        BY <2>3, <2>4, <3>1, <4>4 DEF EffectOf
      <4> QED BY <4>1, <4>2, <4>3, <4>4
    <3> QED BY <2>9, <3>1, <3>2, <3>3 DEF Working, Concluding
  <2> QED BY <2>7, <2>8, <2>10, <2>11, <2>12, <2>13 DEF Resolve
<1> QED BY <1>1, <1>2 DEF EffectInv

\* In every reachable state effects are in order.
THEOREM EffectsBounded == Spec => []EffectInv
<1>1. Init => EffectInv
  <2> SUFFICES ASSUME Init PROVE EffectInv
    OBVIOUS
  <2>1. \A p \in Proc : pc[p] \notin Working
    BY DEF Init, Working, Concluding, Outcome
  <2> QED BY <2>1 DEF Init, EffectInv, Unspent, EffectOf
<1>2. TypeInv /\ EffectInv /\ [Next]_vars => EffectInv'
  <2> SUFFICES ASSUME TypeInv, EffectInv, [Next]_vars PROVE EffectInv'
    OBVIOUS
  <2>1. ASSUME NEW p \in Proc, Act(p) PROVE EffectInv'
    BY <2>1, EffectStep
  <2>2. CASE UNCHANGED vars
    <3>1. (contested' = contested) /\ UNCHANGED <<effects, faults, pc, loc, missions>>
      BY <2>2 DEF vars, history, bounds
    <3>2. Missions' = Missions /\ OpenMissions' = OpenMissions
      BY <3>1 DEF Missions, OpenMissions
    <3>3. \A p \in Proc : Unspent(p)' <=> Unspent(p)
      BY <3>1 DEF Unspent
    <3>4. \A m \in MissionId : EffectOf(m)' <=> EffectOf(m)
      BY <3>1, <3>2 DEF EffectOf
    <3> QED BY <3>1, <3>2, <3>3, <3>4 DEF EffectInv
  <2> QED BY <2>1, <2>2, NextActs
<1> QED BY <1>1, <1>2, TypeInvariant, PTL DEF Spec

\* _resolve_mission applies the effect before it writes the outcome, and neither
\* looks at the status again: while one process resolves at a time and no call
\* fails, a mission still has its effect once at most.
THEOREM EffectsOnce == Spec => []EffectOnce
<1>1. EffectInv => EffectOnce
  BY DEF EffectInv, EffectOf, EffectOnce
<1> QED BY <1>1, EffectsBounded, PTL

(*************************************************************************)
(* Missions end on time.                                                 *)
(*************************************************************************)

\* Cycles under way and at work, and the tick by which a mission must be over: an
\* operative that had to be activated takes one more.
Life(k) == Travel[k] + Stay[k]
Last(k) == IF Travel[k] = 0 THEN Life(k) ELSE Life(k) + 1

\* The timer updates a mission has seen.
Ticks(m) == current_cycle - born[m] + (IF pc[Pipeline] = "advance" THEN 1 ELSE 0)

\* A row about to be inserted has its whole life before it.
FreshOrder(r) ==
    pc[r] \in Ordering =>
        LET o == loc[r].order
        IN  /\ o.left = Life(o.kind) /\ o.status \in Open
            /\ Travel[o.kind] = 0 => o.status = "active"

\* The timer of an open mission shows its age; when the timer has run out, the next
\* resolution has it on its list, with the status that makes it move on.
Aged(m) ==
    LET k == missions[m].kind
        s == missions[m].status
        t == Ticks(m)
    IN  /\ t \in 0..Last(k)
        /\ missions[m].left = (IF t < Life(k) THEN Life(k) - t ELSE 0)
        /\ Travel[k] = 0 \/ t > Life(k) => s = "active"
        /\ pc[Pipeline] \in {"idle", "grant", "timers", "expire"} =>
              t < Last(k) /\ (t = Life(k) => s = "active")
        /\ pc[Pipeline] \in Working =>
              /\ t = Life(k) => s = "active" \/ <<m, "deploying">> \in loc[Pipeline].todo
              /\ t = Last(k) => \/ <<m, "active">> \in loc[Pipeline].todo
                                \/ loc[Pipeline].mission = m

\* The invariant.
Ageing ==
    /\ \A r \in Request : FreshOrder(r)
    /\ faults = 0 => \A m \in OpenMissions : missions[m].kind # "guardian" => Aged(m)

\* The lives of the kinds that have one.
LEMMA LifeNumbers ==
    ASSUME NEW k \in Kind \ {"guardian"}
    PROVE  /\ Life(k) \in Nat /\ Life(k) >= 2 /\ Last(k) \in Nat /\ Travel[k] \in Nat
           /\ Travel[k] = 0 => Last(k) = Life(k)
           /\ Travel[k] # 0 => Last(k) = Life(k) + 1
BY KindNumbers DEF Life, Last

\* An open mission was open before, with the same timer unless that is advanced.
LEMMA OpenStays ==
    ASSUME TypeOK, Room, NEW p \in Proc, InPlace(p), Act(p), NEW m \in Missions, m \in OpenMissions',
           ~AdvanceMissionTimers
    PROVE  /\ m \in OpenMissions /\ missions'[m].kind = missions[m].kind
           /\ missions'[m].left = missions[m].left
           /\ missions'[m].status = missions[m].status \/ missions'[m].status = "active"
<1>1. StatusMove(p, m)
  BY StatusMoves
<1>2. missions'[m].left = missions[m].left
  <2>1. m \in MissionId /\ missions[m] \in Row /\ Changes(p, m)
    BY MissionChanges DEF Missions, TypeOK
  <2>2. \A s : [missions[m] EXCEPT !.status = s].left = missions[m].left
    BY <2>1 DEF Row
  <2> QED BY <2>1, <2>2 DEF Changes
<1> QED BY <1>1, <1>2, MissionsKept DEF OpenMissions, StatusMove, Open, Outcome

\* Nothing but its INSERT sets the cycle a mission was born in.
LEMMA BornKept ==
    ASSUME TypeOK, Room, NEW p \in Proc, InPlace(p), Act(p)
    PROVE  \A m \in Missions : born'[m] = born[m]
<1>1. CASE p \in Request /\ InsertMission(p)
  <2>1. NewId \notin Missions
    BY <1>1, MissionsGrow
  <2>2. born' = [born EXCEPT ![NewId] = FirstTick]
    BY <1>1 DEF InsertMission
  <2> QED BY <2>1, <2>2 DEF TypeOK, Missions
<1>2. p \in Request /\ Begin(p) => born' = born
  BY DEF Begin, CheckDeploy, CheckRecall, CheckSweep, CheckFortify, RequestResolve, history
<1>3. p \in Request /\ Continue(p) /\ ~InsertMission(p) => born' = born
  BY DEF Continue, PayDeploy, CannotPayDeploy, RefundHalf, ReturnOperative, PaySweep, Scan,
     MarkDetected, EndSweep, FortifyZone, history
<1>4. Cycle => born' = born
  BY DEF Cycle, StartCycle, BatchGrantRp, AdvanceMissionTimers, AdvanceCycle, ExpireFortifications,
     history
<1>5. Resolve(p) => born' = born
  BY DEF Resolve, SelectPending, ActivateMission, RollSuccess, RollFailure, TapRp, Conclude,
     AllResolved, history
<1>6. CallFails(p) => born' = born
  BY DEF CallFails, history
<1> QED BY <1>1, <1>2, <1>3, <1>4, <1>5, <1>6 DEF Act

\* Nothing but the increment moves the cycle.
LEMMA CycleKept ==
    ASSUME NEW p \in Proc, Act(p), ~AdvanceCycle
    PROVE  current_cycle' = current_cycle
<1>2. p \in Request /\ Begin(p) => current_cycle' = current_cycle
  BY DEF Begin, CheckDeploy, CheckRecall, CheckSweep, CheckFortify, RequestResolve, epoch
<1>3. p \in Request /\ Continue(p) => current_cycle' = current_cycle
  BY DEF Continue, PayDeploy, CannotPayDeploy, InsertMission, RefundHalf, ReturnOperative,
     PaySweep, Scan, MarkDetected, EndSweep, FortifyZone, epoch
<1>4. Cycle => current_cycle' = current_cycle
  BY DEF Cycle, StartCycle, BatchGrantRp, AdvanceMissionTimers, ExpireFortifications, epoch
<1>5. Resolve(p) => current_cycle' = current_cycle
  BY DEF Resolve, SelectPending, ActivateMission, RollSuccess, RollFailure, TapRp, Conclude,
     AllResolved, epoch
<1>6. CallFails(p) => current_cycle' = current_cycle
  BY DEF CallFails, epoch
<1> QED BY <1>2, <1>3, <1>4, <1>5, <1>6 DEF Act

\* Rows about to be inserted stay fresh.
LEMMA FreshOrderStep ==
    ASSUME TypeInv, NEW p \in Proc, Act(p), NEW r \in Request, FreshOrder(r)
    PROVE  FreshOrder(r)'
<1>0. TypeOK /\ Room /\ InPlace(p)
  BY DEF TypeInv
<1>1. CASE r # p
  BY <1>0, <1>1, OthersWait, Requests DEF FreshOrder
<1>2. CASE r = p /\ BeginsDealing(p)
  <2>1. ASSUME NEW a \in Agent, NEW k \in DeployKind, NEW tap \in Resonance, NEW t \in Sim, CheckDeploy(p, a, k, t, tap)
        PROVE  FreshOrder(p)'
    <3>1. loc'[p].order = NewRow(a, k, t, tap)
      BY <1>0, <2>1 DEF CheckDeploy, TypeOK, Locals
    <3> QED BY <3>1 DEF FreshOrder, NewRow, Life, Open
  <2>2. ASSUME NEW m \in Missions, CheckRecall(p, m) PROVE FreshOrder(p)'
    <3>1. pc'[p] = "refund"
      BY <1>0, <2>2 DEF CheckRecall, Arrive, Goto, TypeOK
    <3> QED BY <3>1 DEF FreshOrder, Ordering
  <2> QED BY <1>2, <2>1, <2>2 DEF BeginsDealing
<1>3. CASE ~BeginsDealing(p)
  <2>1. pc'[r] \in Ordering => pc[r] \in Ordering /\ loc'[r] = loc[r]
    BY <1>0, <1>3, DealingsKept
  <2> QED BY <2>1 DEF FreshOrder
<1> QED BY <1>1, <1>2, <1>3

\* Steps that leave the pipeline where it is: a mission ages as it did.
LEMMA AgedAside ==
    ASSUME TypeInv, NEW p \in Proc, p # Pipeline, Act(p), NEW m \in Missions, m \in OpenMissions',
           Aged(m)
    PROVE  Aged(m)'
<1>0. TypeOK /\ Room /\ InPlace(p) /\ Pipeline \in Proc
  BY DEF TypeInv, Proc
<1>1. pc'[Pipeline] = pc[Pipeline] /\ loc'[Pipeline] = loc[Pipeline]
  BY <1>0, OthersWait
<1>2. ~AdvanceMissionTimers /\ ~AdvanceCycle
  BY <1>0, <1>1 DEF AdvanceMissionTimers, AdvanceCycle, Goto, TypeOK
<1>3. born'[m] = born[m] /\ current_cycle' = current_cycle
  BY <1>0, <1>2, BornKept, CycleKept
<1>4. Ticks(m)' = Ticks(m)
  BY <1>1, <1>3 DEF Ticks
<1>5. /\ missions'[m].kind = missions[m].kind /\ missions'[m].left = missions[m].left
      /\ missions'[m].status = missions[m].status \/ missions'[m].status = "active"
  BY <1>0, <1>2, OpenStays
<1> QED BY <1>1, <1>4, <1>5 DEF Aged

\* A new mission is as old as its row says.
LEMMA AgedAtFirst ==
    ASSUME TypeInv, NEW r \in Request, InsertMission(r), Act(r), FreshOrder(r),
           NEW m, m = NewId, missions'[m].kind # "guardian"
    PROVE  Aged(m)'
<1>0. TypeOK /\ Room /\ InPlace(r) /\ r \in Proc /\ Pipeline \in Proc /\ Pipeline # r /\ InPlace(Pipeline)
  BY Requests DEF TypeInv, Proc
<1>1. pc'[Pipeline] = pc[Pipeline] /\ loc'[Pipeline] = loc[Pipeline]
  BY <1>0, OthersWait
<1>2. m \in MissionId /\ missions'[m] = loc[r].order /\ born'[m] = FirstTick
      /\ current_cycle' = current_cycle
  BY <1>0, MissionsGrow DEF InsertMission, TypeOK, epoch
<1>3. loc[r].order \in Row
  BY <1>0, Shape DEF InsertMission, Ordering
<1>4. Ticks(m)' = 0
  BY <1>0, <1>1, <1>2 DEF Ticks, FirstTick, TypeOK
<1> DEFINE k == missions'[m].kind
<1>5. k \in Kind \ {"guardian"}
  BY <1>2, <1>3 DEF Row
<1>6. /\ missions'[m].left = Life(k)
      /\ Travel[k] = 0 => missions'[m].status = "active"
  BY <1>2 DEF FreshOrder, InsertMission, Ordering
<1>7. Life(k) \in Nat /\ Life(k) >= 2 /\ Last(k) \in Nat /\ Last(k) >= 2
  BY <1>5, LifeNumbers
<1> HIDE DEF k
<1> QED BY <1>4, <1>6, <1>7 DEF Aged, k

\* The pipeline's own steps.
LEMMA AgedPipeline ==
    ASSUME TypeInv, Act(Pipeline), ~CallFails(Pipeline), NEW m \in Missions, m \in OpenMissions',
           missions[m].kind # "guardian", Aged(m)
    PROVE  Aged(m)'
<1>0. TypeOK /\ Room /\ InPlace(Pipeline) /\ Pipeline \in Proc /\ Pipeline \notin Request /\ m \in MissionId /\ missions[m] \in Row
  <2>1. TypeOK /\ Room /\ Pipeline \in Proc /\ \A p \in Proc : InPlace(p)
    BY DEF TypeInv, Proc
  <2>2. Pipeline \notin Request
    BY MissionAssumption DEF MissionAssumption
  <2> QED BY <2>1, <2>2 DEF TypeOK, Missions
<1>L. loc[Pipeline] \in Locals /\ loc \in [Proc -> Locals] /\ pc \in [Proc -> Label] /\ current_cycle \in Nat /\ born[m] \in Nat
  BY <1>0 DEF TypeOK
<1> DEFINE k == missions[m].kind
<1>K. k \in Kind \ {"guardian"} /\ missions[m].left \in Nat
  BY <1>0 DEF Row
<1>N. /\ Life(k) \in Nat /\ Life(k) >= 2 /\ Last(k) \in Nat /\ Travel[k] \in Nat
      /\ Travel[k] = 0 => Last(k) = Life(k)
      /\ Travel[k] # 0 => Last(k) = Life(k) + 1
  BY <1>K, LifeNumbers
<1>T. Ticks(m) \in Nat
  BY DEF Aged
<1>B. born'[m] = born[m]
  BY <1>0, BornKept
<1>S. missions'[m].kind = k
  BY <1>0, MissionsKept
<1>1. CASE AdvanceMissionTimers
  <2>1. pc[Pipeline] = "timers" /\ pc'[Pipeline] = "advance" /\ current_cycle' = current_cycle
    BY <1>L, <1>1 DEF AdvanceMissionTimers, Goto, epoch, Proc
  <2>2. Ticks(m)' = Ticks(m) + 1
    BY <1>L, <1>B, <2>1 DEF Ticks
  <2>3. m \in OpenMissions
    <3>1. StatusMove(Pipeline, m)
      BY <1>0, StatusMoves
    <3> QED BY <3>1 DEF OpenMissions, StatusMove, Open, Outcome
  <2>4. missions'[m] = IF missions[m].left > 0 THEN [missions[m] EXCEPT !.left = missions[m].left - 1] ELSE missions[m]
    BY <1>0, <1>1, <2>3 DEF AdvanceMissionTimers
  <2>5. missions'[m].status = missions[m].status /\ missions'[m].left = IF missions[m].left > 0 THEN missions[m].left - 1 ELSE missions[m].left
    BY <1>0, <2>4 DEF Row
  <2>6. /\ Ticks(m) < Last(k)
        /\ missions[m].left = (IF Ticks(m) < Life(k) THEN Life(k) - Ticks(m) ELSE 0)
        /\ Travel[k] = 0 => missions[m].status = "active"
        /\ Ticks(m) = Life(k) => missions[m].status = "active"
    BY <2>1 DEF Aged
  <2> DEFINE t == Ticks(m)
  <2>7. t + 1 \in 0..Last(k)
    BY <1>N, <1>T, <2>6
  <2>8. missions'[m].left = (IF t + 1 < Life(k) THEN Life(k) - (t + 1) ELSE 0)
    <3> HIDE DEF t, k
    <3> QED BY <1>N, <1>T, <2>5, <2>6 DEF t
  <2>9. t + 1 > Life(k) => t = Life(k)
    BY <1>N, <1>T, <2>6
  <2> HIDE DEF t, k
  <2> QED BY <1>S, <2>1, <2>2, <2>5, <2>6, <2>7, <2>8, <2>9 DEF Aged, t, Working, Concluding,
             Outcome
<1>O. CASE ~AdvanceMissionTimers
  <2>0. /\ m \in OpenMissions /\ missions'[m].left = missions[m].left
        /\ missions'[m].status = missions[m].status \/ missions'[m].status = "active"
    BY <1>0, <1>O, OpenStays
  <2> DEFINE t == Ticks(m)
             s == missions'[m].status
  <2>A. /\ t \in 0..Last(k)
        /\ missions'[m].left = (IF t < Life(k) THEN Life(k) - t ELSE 0)
        /\ Travel[k] = 0 \/ t > Life(k) => s = "active" /\ missions[m].status = "active"
        /\ pc[Pipeline] \in {"idle", "grant", "timers", "expire"} => t < Last(k) /\ (t = Life(k) => s = "active")
        /\ pc[Pipeline] \in Working =>
              /\ t = Life(k) => missions[m].status = "active" \/ <<m, "deploying">> \in loc[Pipeline].todo
              /\ t = Last(k) => <<m, "active">> \in loc[Pipeline].todo \/ loc[Pipeline].mission = m
    BY <2>0 DEF Aged
  <2>Z. m # 0
    BY <1>0, MissionAssumption DEF MissionAssumption
  <2>1. CASE AdvanceCycle
    <3>1. pc[Pipeline] = "advance" /\ pc'[Pipeline] = "select" /\ current_cycle' = current_cycle + 1
      BY <1>L, <1>0, <2>1 DEF AdvanceCycle, Goto
    <3>2. Ticks(m)' = t
      BY <1>L, <1>B, <3>1 DEF Ticks
    <3> HIDE DEF t, k
    <3> QED BY <1>S, <2>A, <3>1, <3>2 DEF Aged, Working, Concluding, Outcome
  <2>2. ASSUME ~AdvanceCycle, pc[Pipeline] # "advance", pc'[Pipeline] # "advance"
        PROVE  Ticks(m)' = t
    <3>1. current_cycle' = current_cycle
      BY <1>0, <2>2, CycleKept
    <3> QED BY <1>B, <2>2, <3>1 DEF Ticks
  <2>3. CASE StartCycle \/ BatchGrantRp \/ ExpireFortifications
    <3>1. pc[Pipeline] \in {"idle", "grant", "expire"} /\ pc'[Pipeline] \in {"grant", "timers", "idle"}
      BY <1>L, <1>0, <2>3 DEF StartCycle, BatchGrantRp, ExpireFortifications, Goto, Return
    <3>2. Ticks(m)' = t
      BY <2>2, <3>1 DEF AdvanceCycle
    <3> HIDE DEF t, k
    <3> QED BY <1>S, <2>A, <3>1, <3>2 DEF Aged, Working, Concluding, Outcome
  <2>4. CASE SelectPending(Pipeline)
    <3>1. /\ pc[Pipeline] = "select" /\ pc'[Pipeline] = "resolve" /\ missions' = missions
          /\ loc'[Pipeline].todo = {<<n, missions[n].status>> : n \in Pending}
      BY <1>L, <1>0, <2>4 DEF SelectPending, Goto, Locals
    <3>2. Ticks(m)' = t
      BY <2>2, <3>1 DEF AdvanceCycle
    <3>3. ASSUME t >= Life(k) PROVE <<m, missions[m].status>> \in loc'[Pipeline].todo
      <4>1. missions[m].left = 0
        BY <1>N, <1>T, <2>0, <2>A, <3>3
      <4>2. m \in Pending
        BY <1>K, <2>0, <4>1 DEF Pending
      <4> QED BY <3>1, <4>2
    <3>4. missions[m].status \in Open
      BY <2>0 DEF OpenMissions
    <3>5. t = Last(k) => missions[m].status = "active" /\ t >= Life(k)
      BY <1>N, <1>T, <2>A
    <3>6. t = Life(k) => s = "active" \/ <<m, "deploying">> \in loc'[Pipeline].todo
      BY <1>N, <3>1, <3>3, <3>4 DEF Open
    <3>7. t = Last(k) => <<m, "active">> \in loc'[Pipeline].todo
      BY <3>3, <3>5
    <3> HIDE DEF t, k
    <3> QED BY <1>S, <2>A, <3>1, <3>2, <3>6, <3>7 DEF Aged
  <2>5. CASE ActivateMission(Pipeline)
    <3>1. PICK n \in MissionId :
             /\ <<n, "deploying">> \in loc[Pipeline].todo
             /\ missions' = IF missions[n].status = "deploying" THEN [missions EXCEPT ![n].status = "active"] ELSE missions
             /\ loc' = [loc EXCEPT ![Pipeline].todo = loc[Pipeline].todo \ {<<n, "deploying">>}]
      BY <2>5 DEF ActivateMission
    <3>2. loc'[Pipeline].todo = loc[Pipeline].todo \ {<<n, "deploying">>} /\ loc'[Pipeline].mission = loc[Pipeline].mission
      BY <1>L, <1>0, <3>1 DEF Locals
    <3>3. pc[Pipeline] = "resolve" /\ pc'[Pipeline] = "resolve"
      BY <2>5 DEF ActivateMission
    <3>4. Ticks(m)' = t
      BY <2>2, <3>3 DEF AdvanceCycle
    <3>5. n = m => s = "active"
      BY <1>0, <2>0, <3>1 DEF OpenMissions, Open, Row, TypeOK
    <3>6. t = Life(k) => s = "active" \/ <<m, "deploying">> \in loc'[Pipeline].todo
      BY <2>0, <2>A, <3>2, <3>3, <3>5 DEF Working
    <3>7. t = Last(k) => <<m, "active">> \in loc'[Pipeline].todo \/ loc'[Pipeline].mission = m
      BY <2>A, <3>2, <3>3 DEF Working
    <3> HIDE DEF t, k
    <3> QED BY <1>S, <2>A, <3>3, <3>4, <3>6, <3>7 DEF Aged
  <2>6. CASE RollSuccess(Pipeline) \/ RollFailure(Pipeline)
    <3>1. PICK n \in MissionId :
             loc' = [loc EXCEPT ![Pipeline].todo = loc[Pipeline].todo \ {<<n, "active">>}, ![Pipeline].mission = n]
      BY <2>6 DEF RollSuccess, RollFailure
    <3>2. loc'[Pipeline].todo = loc[Pipeline].todo \ {<<n, "active">>} /\ loc'[Pipeline].mission = n
      BY <1>L, <1>0, <3>1 DEF Locals
    <3>3. pc[Pipeline] = "resolve" /\ pc'[Pipeline] \in Concluding
      BY <1>L, <1>0, <2>6 DEF RollSuccess, RollFailure, Goto, Concluding, Outcome
    <3>4. Ticks(m)' = t
      BY <2>2, <3>3 DEF AdvanceCycle, Concluding, Outcome
    <3>5. loc[Pipeline].mission = 0
      BY <1>0, <3>3 DEF InPlace, Recalling, Concluding, Outcome
    <3>6. t = Life(k) => s = "active" \/ <<m, "deploying">> \in loc'[Pipeline].todo
      BY <2>0, <2>A, <3>2, <3>3 DEF Working
    <3>7. t = Last(k) => <<m, "active">> \in loc'[Pipeline].todo \/ loc'[Pipeline].mission = m
      BY <2>A, <2>Z, <3>2, <3>3, <3>5 DEF Working
    <3> HIDE DEF t, k
    <3> QED BY <1>S, <2>A, <3>3, <3>4, <3>6, <3>7 DEF Aged, Concluding, Outcome
  <2>7. CASE TapRp(Pipeline)
    <3>1. pc[Pipeline] = "tap" /\ pc'[Pipeline] = "success" /\ loc' = loc
      BY <1>L, <1>0, <2>7 DEF TapRp, Goto
    <3>2. Ticks(m)' = t
      BY <2>2, <3>1 DEF AdvanceCycle
    <3> HIDE DEF t, k
    <3> QED BY <1>S, <2>0, <2>A, <3>1, <3>2 DEF Aged, Working, Concluding
  <2>8. CASE Conclude(Pipeline)
    <3>1. pc[Pipeline] \in Outcome /\ pc'[Pipeline] = "resolve" /\ loc'[Pipeline].todo = loc[Pipeline].todo
      BY <1>L, <1>0, <2>8 DEF Conclude, Goto, Locals
    <3>2. Ticks(m)' = t
      BY <2>2, <3>1 DEF AdvanceCycle, Outcome
    <3>3. ASSUME loc[Pipeline].mission = m PROVE FALSE
      <4>1. missions'[m].status \in Outcome
        BY <1>0, <2>8, <3>3 DEF Conclude, TypeOK, Row
      <4> QED BY <4>1 DEF OpenMissions, Open, Outcome
    <3> HIDE DEF t, k
    <3> QED BY <1>S, <2>0, <2>A, <3>1, <3>2, <3>3 DEF Aged, Working, Concluding, Outcome
  <2>9. CASE AllResolved(Pipeline)
    <3>1. pc[Pipeline] = "resolve" /\ pc'[Pipeline] = "expire" /\ loc[Pipeline].todo = {}
      BY <1>L, <1>0, <2>9 DEF AllResolved, Goto
    <3>2. Ticks(m)' = t
      BY <2>2, <3>1 DEF AdvanceCycle
    <3>3. loc[Pipeline].mission = 0
      BY <1>0, <3>1 DEF InPlace, Recalling, Concluding, Outcome
    <3>4. t # Last(k) /\ (t = Life(k) => s = "active")
      BY <2>0, <2>A, <2>Z, <3>1, <3>3 DEF Working
    <3>5. t < Last(k)
      BY <1>N, <1>T, <2>A, <3>4
    <3> HIDE DEF t, k
    <3> QED BY <1>S, <2>A, <3>1, <3>2, <3>4, <3>5 DEF Aged, Working, Concluding, Outcome
  <2> QED BY <1>0, <1>O, <2>1, <2>3, <2>4, <2>5, <2>6, <2>7, <2>8, <2>9 DEF Act, Cycle, Resolve
<1> QED BY <1>1, <1>O

\* Every step of every process keeps it.
LEMMA AgeingStep ==
    ASSUME TypeInv, NEW p \in Proc, Act(p), Ageing
    PROVE  Ageing'
<1>0. TypeOK /\ Room /\ InPlace(p)
  BY DEF TypeInv
<1>1. \A r \in Request : FreshOrder(r)'
  BY FreshOrderStep DEF Ageing
<1>2. ASSUME faults' = 0, NEW m \in OpenMissions', missions'[m].kind # "guardian" PROVE Aged(m)'
  <2>1. faults = 0 /\ ~CallFails(p)
    BY <1>0, <1>2, FaultsGrow
  <2>2. CASE m \notin Missions
    <3>1. p \in Request /\ InsertMission(p) /\ m = NewId
      BY <1>0, <1>2, <2>2, MissionsGrow DEF OpenMissions
    <3>2. FreshOrder(p)
      BY <3>1 DEF Ageing
    <3> QED BY <1>2, <3>1, <3>2, AgedAtFirst
  <2>3. CASE m \in Missions
    <3>1. missions[m].kind # "guardian" /\ StatusMove(p, m)
      BY <1>0, <1>2, <2>3, MissionsKept, StatusMoves
    <3>2. m \in OpenMissions
      BY <1>2, <2>3, <3>1 DEF OpenMissions, StatusMove, Open, Outcome
    <3>3. Aged(m)
      BY <2>1, <3>1, <3>2 DEF Ageing
    <3> QED BY <1>2, <2>1, <2>3, <3>1, <3>3, AgedAside, AgedPipeline
  <2> QED BY <2>2, <2>3
<1> QED BY <1>1, <1>2 DEF Ageing

\* In every reachable state the timers show the missions' ages.
THEOREM MissionsAge == Spec => []Ageing
<1>1. Init => Ageing
  BY Requests DEF Init, Ageing, FreshOrder, Ordering, OpenMissions, Missions
<1>2. TypeInv /\ Ageing /\ [Next]_vars => Ageing'
  <2> SUFFICES ASSUME TypeInv, Ageing, [Next]_vars PROVE Ageing'
    OBVIOUS
  <2>1. ASSUME NEW p \in Proc, Act(p) PROVE Ageing'
    BY <2>1, AgeingStep
  <2>2. CASE UNCHANGED vars
    <3>1. UNCHANGED <<current_cycle, born, faults, pc, loc, missions>>
      BY <2>2 DEF vars, history, bounds, epoch
    <3>2. OpenMissions' = OpenMissions
      BY <3>1 DEF Missions, OpenMissions
    <3>3. \A r \in Request : FreshOrder(r)' <=> FreshOrder(r)
      BY <3>1 DEF FreshOrder
    <3>4. \A m : Aged(m)' <=> Aged(m)
      BY <3>1 DEF Aged, Ticks
    <3> QED BY <3>1, <3>2, <3>3, <3>4 DEF Ageing
  <2> QED BY <2>1, <2>2, NextActs
<1> QED BY <1>1, <1>2, TypeInvariant, PTL DEF Spec

\* The pipeline advances the timers, then selects with the timers at zero: without
\* a failed call, a mission nobody recalls or detects is over after its travel and
\* stay, one cycle later if it first had to be activated.
THEOREM MissionsOnTime == Spec => []OnTime
<1>1. TypeInv /\ Ageing => OnTime
  <2> SUFFICES ASSUME TypeInv, Ageing, faults = 0, pc[Pipeline] = "idle", NEW m \in OpenMissions,
                      missions[m].kind # "guardian"
               PROVE  current_cycle - born[m] <= Travel[missions[m].kind] + Stay[missions[m].kind]
                                                   - (IF Travel[missions[m].kind] = 0 THEN 1 ELSE 0)
    BY DEF OnTime
  <2> DEFINE k == missions[m].kind
  <2>1. k \in Kind \ {"guardian"} /\ current_cycle \in Nat /\ born[m] \in Nat
    BY DEF TypeInv, TypeOK, OpenMissions, Missions, Row
  <2>a. Aged(m)
    BY DEF Ageing
  <2>b. Ticks(m) = current_cycle - born[m]
    BY <2>1 DEF Ticks
  <2>2. Ticks(m) < Last(k) /\ Ticks(m) = current_cycle - born[m]
    BY <2>a, <2>b DEF Aged
  <2>3. Travel[k] \in Nat /\ Stay[k] \in Nat
    BY <2>1, KindNumbers
  <2> HIDE DEF k
  <2> QED BY <2>1, <2>2, <2>3 DEF Last, Life, k
<1> QED BY <1>1, MissionsAge, TypeInvariant, PTL

============================================================================
