-------------------------- MODULE EpochAllianceProofs --------------------------
(***************************************************************************)
(* Theorems about the alliances of an epoch, for any players, teams,       *)
(* bounds and faults.                                                      *)
(***************************************************************************)
EXTENDS EpochAlliance, FiniteSetTheorems, TLAPS

\* Sets of players are finite, and no larger than all of them.
LEMMA PlayersCounted ==
    ASSUME NEW S \in SUBSET Players
    PROVE  /\ IsFiniteSet(S)
           /\ Cardinality(S) \in Nat
           /\ Cardinality(S) <= Cardinality(Players)
           /\ Cardinality(Players) \in Nat
BY AllianceAssumption, FS_Subset, FS_CardinalityType

(***************************************************************************)
(* Types                                                                   *)
(***************************************************************************)

LEMMA TypeInit == Init => AllianceTypeOK
<1> SUFFICES ASSUME Init PROVE AllianceTypeOK
    OBVIOUS
<1>1. 1 \in 1..LastCycle /\ 0 \in 0..MaxTension /\ 0 \in 0..MaxRequests /\ 0 \in 0..MaxFaults
    BY AllianceAssumption DEF LastCycle
<1> QED
    BY <1>1 DEF Init, AllianceTypeOK, Stages

LEMMA BeginType ==
    ASSUME AllianceTypeOK, NEW p \in Players, NEW c \in Calls, Begin(p, c)
    PROVE  call' \in [Players -> Calls \cup {None}] /\ requests' \in 0..MaxRequests
BY AllianceAssumption DEF AllianceTypeOK, Begin, Asked

LEMMA EndType ==
    ASSUME AllianceTypeOK, NEW p \in Players, End(p)
    PROVE  call' \in [Players -> Calls \cup {None}]
BY DEF AllianceTypeOK, End

LEMMA PutType ==
    ASSUME AllianceTypeOK, NEW p \in Players, NEW t \in Teams, PutOn(p, t)
    PROVE  team' \in [Players -> Teams \cup {None}] /\ strays' \subseteq Players
BY DEF AllianceTypeOK, PutOn

LEMMA LateType ==
    ASSUME AllianceTypeOK, NEW p \in Players, NEW t \in Teams, PutLate(p, t)
    PROVE  /\ team' \in [Players -> Teams \cup {None}] /\ strays' \subseteq Players
           /\ crowded' \subseteq Teams
BY PutType DEF AllianceTypeOK, PutLate

\* What a request in progress holds.
LEMMA CallShape ==
    ASSUME AllianceTypeOK, NEW p \in Players, call[p] # None
    PROVE  /\ call[p] \in Calls /\ call[p].team \in Teams
           /\ call[p].op = "propose" =>
                call[p].size \in 0..Cardinality(Players) /\ call[p].cycle \in Nat
           /\ call[p].op = "vote" =>
                call[p].by \in Players /\ call[p].nth \in Nat \ {0}
           /\ call[p].op = "commit" =>
                /\ call[p].by \in Players /\ call[p].nth \in Nat \ {0}
                /\ call[p].vote \in {"accept", "reject"}
                /\ call[p].verdict \in {"pending", "accepted", "rejected"}
BY DEF AllianceTypeOK, Calls

\* How far a player's proposals to a team have come.
LEMMA NthType ==
    ASSUME AllianceTypeOK, NEW t \in Teams, NEW p \in Players
    PROVE  /\ proposal[t][p] \in Proposals \cup {None}
           /\ Nth(t, p) \in Nat
           /\ proposal[t][p] # None => Nth(t, p) = proposal[t][p].nth /\ Nth(t, p) >= 1
BY AllianceAssumption DEF AllianceTypeOK, Nth, Proposals

\* Tension stays between its bounds.
LEMMA TensionType ==
    ASSUME AllianceTypeOK, NEW t \in Teams
    PROVE  Clamped(tension[t] + Rise * Overlaps(t) - Decay) \in 0..MaxTension
<1>1. Overlaps(t) \in Nat
    <2>1. \A X \in SUBSET Targets : Cardinality(X) \in Nat
        BY AllianceAssumption, FS_Subset, FS_CardinalityType
    <2> QED
        BY <2>1 DEF Overlaps
<1>2. Rise * Overlaps(t) \in Nat
    BY <1>1, AllianceAssumption
<1> QED
    BY <1>2, AllianceAssumption DEF AllianceTypeOK, Clamped

\* What a vote writes is a proposal.
LEMMA VotedType ==
    ASSUME AllianceTypeOK, NEW pr \in Proposals, NEW q \in Players,
           NEW v \in {"accept", "reject"}, NEW verdict \in {"pending", "accepted", "rejected"}
    PROVE  [pr EXCEPT !.vote[q] = v, !.status = IF verdict = "pending" THEN @ ELSE verdict]
             \in Proposals
BY DEF Proposals, Choice

\* A verdict is one of the three.
LEMMA VerdictType ==
    ASSUME NEW pr
    PROVE  Verdict(pr) \in {"pending", "accepted", "rejected"}
BY DEF Verdict

\* No step of the alliances leaves the types.
LEMMA TypeStep == AllianceTypeOK /\ [Next]_vars => AllianceTypeOK'
<1> SUFFICES ASSUME AllianceTypeOK, [Next]_vars PROVE AllianceTypeOK'
    OBVIOUS
<1>1. ASSUME NEW p \in Players, NEW t \in Teams, CreateTeam(p, t) PROVE AllianceTypeOK'
    <2>1. [op |-> "create", team |-> t] \in Calls
        BY DEF Calls
    <2>2. call' \in [Players -> Calls \cup {None}] /\ requests' \in 0..MaxRequests
        BY <1>1, <2>1, BeginType DEF CreateTeam
    <2> QED
        BY <1>1, <2>2 DEF CreateTeam, AllianceTypeOK, LastCycle
<1>2. ASSUME NEW p \in Players, NEW t \in Teams, RequestJoin(p, t) PROVE AllianceTypeOK'
    <2>1. [op |-> "join", team |-> t] \in Calls
        BY DEF Calls
    <2>2. call' \in [Players -> Calls \cup {None}] /\ requests' \in 0..MaxRequests
        BY <1>2, <2>1, BeginType DEF RequestJoin
    <2> QED
        BY <1>2, <2>2 DEF RequestJoin, people, AllianceTypeOK, LastCycle
<1>3. ASSUME NEW p \in Players, NEW t \in Teams, CheckProposal(p, t) PROVE AllianceTypeOK'
    <2>1. [op |-> "propose", team |-> t, size |-> Cardinality(Members(t)), cycle |-> cycle] \in Calls
        <3>1. Cardinality(Members(t)) \in 0..Cardinality(Players)
            BY PlayersCounted DEF Members
        <3>2. cycle \in Nat
            BY AllianceAssumption DEF AllianceTypeOK, LastCycle
        <3> QED
            BY <3>1, <3>2 DEF Calls
    <2>2. call' \in [Players -> Calls \cup {None}] /\ requests' \in 0..MaxRequests
        BY <1>3, <2>1, BeginType DEF CheckProposal
    <2> QED
        BY <1>3, <2>2 DEF CheckProposal, people, AllianceTypeOK, LastCycle
<1>4. ASSUME NEW p \in Players, JoinOwn(p) PROVE AllianceTypeOK'
    <2>1. call[p].team \in Teams
        BY <1>4, CallShape DEF JoinOwn
    <2>2. call' \in [Players -> Calls \cup {None}]
        BY <1>4, EndType DEF JoinOwn
    <2>3. /\ team' \in [Players -> Teams \cup {None}] /\ strays' \subseteq Players
          /\ crowded' \subseteq Teams
        BY <1>4, <2>1, LateType DEF JoinOwn
    <2> QED
        BY <1>4, <2>2, <2>3 DEF JoinOwn, AllianceTypeOK, LastCycle
<1>5. ASSUME NEW p \in Players, JoinTeam(p) PROVE AllianceTypeOK'
    <2>1. call[p].team \in Teams
        BY <1>5, CallShape DEF JoinTeam
    <2>2. call' \in [Players -> Calls \cup {None}]
        BY <1>5, EndType DEF JoinTeam
    <2>3. team' \in [Players -> Teams \cup {None}] /\ strays' \subseteq Players
        <3>1. CASE PutOn(p, call[p].team)
            BY <2>1, <3>1, PutType
        <3>2. CASE UNCHANGED <<team, strays>>
            BY <3>2 DEF AllianceTypeOK
        <3> QED
            BY <1>5, <3>1, <3>2 DEF JoinTeam
    <2> QED
        BY <1>5, <2>2, <2>3 DEF JoinTeam, AllianceTypeOK, LastCycle
<1>6. ASSUME NEW p \in Players, LeaveTeam(p) PROVE AllianceTypeOK'
    BY <1>6, AllianceAssumption DEF LeaveTeam, Asked, AllianceTypeOK, LastCycle
<1>7. ASSUME NEW p \in Players, Propose(p) PROVE AllianceTypeOK'
    <2> DEFINE t == call[p].team
    <2>1. t \in Teams /\ call[p].size \in 0..Cardinality(Players) /\ call[p].cycle \in Nat
        BY <1>7, CallShape DEF Propose
    <2>2. call' \in [Players -> Calls \cup {None}]
        BY <1>7, EndType DEF Propose
    <2>3. /\ team' \in [Players -> Teams \cup {None}] /\ strays' \subseteq Players
          /\ crowded' \subseteq Teams /\ proposal' \in [Teams -> [Players -> Proposals \cup {None}]]
        <3>1. CASE PutLate(p, t) /\ UNCHANGED proposal
            BY <2>1, <3>1, LateType DEF AllianceTypeOK
        <3>2. CASE ~ (call[p].size = 1)
            <4> DEFINE new == [nth |-> Nth(t, p) + 1, status |-> "pending", required |-> call[p].size,
                               expires |-> call[p].cycle + ProposalExpiry,
                               vote |-> [q \in Players |-> "none"], torn |-> FALSE]
            <4>1. CASE Pending(t, p)
                BY <1>7, <3>2, <4>1 DEF Propose, AllianceTypeOK
            <4>2. CASE ~ Pending(t, p)
                <5>1. new \in Proposals
                    BY <2>1, NthType, AllianceAssumption DEF Proposals, Choice
                <5>2. proposal' = [proposal EXCEPT ![t][p] = new]
                    BY <1>7, <3>2, <4>2 DEF Propose
                <5> QED
                    BY <1>7, <2>1, <3>2, <5>1, <5>2 DEF Propose, AllianceTypeOK
            <4> QED
                BY <4>1, <4>2
        <3> QED
            BY <1>7, <3>1, <3>2 DEF Propose
    <2> QED
        BY <1>7, <2>2, <2>3 DEF Propose, AllianceTypeOK, LastCycle
<1>8. ASSUME NEW q \in Players, NEW p \in Players, NEW t \in Teams, CheckVote(q, t, p)
      PROVE  AllianceTypeOK'
    <2>1. Nth(t, p) \in Nat \ {0}
        BY <1>8, NthType DEF CheckVote, Pending
    <2>2. [op |-> "vote", team |-> t, by |-> p, nth |-> Nth(t, p)] \in Calls
        BY <2>1 DEF Calls
    <2>3. call' \in [Players -> Calls \cup {None}] /\ requests' \in 0..MaxRequests
        BY <1>8, <2>2, BeginType DEF CheckVote
    <2> QED
        BY <1>8, <2>3 DEF CheckVote, people, AllianceTypeOK, LastCycle
<1>9. ASSUME NEW q \in Players, InsertVote(q) PROVE AllianceTypeOK'
    <2> DEFINE t == call[q].team
               p == call[q].by
               pr == proposal[t][p]
    <2>1. t \in Teams /\ p \in Players /\ call[q].nth \in Nat \ {0}
        BY <1>9, CallShape DEF InsertVote
    <2>2. CASE End(q) /\ UNCHANGED proposal
        <3>1. call' \in [Players -> Calls \cup {None}]
            BY <2>2, EndType
        <3> QED
            BY <1>9, <2>2, <3>1 DEF InsertVote, AllianceTypeOK, LastCycle
    <2>3. CASE ~ (End(q) /\ UNCHANGED proposal)
        <3>1. call[q].nth = Nth(t, p)
            BY <1>9, <2>3 DEF InsertVote
        <3>2. pr \in Proposals /\ pr.nth \in Nat \ {0}
            BY <2>1, <3>1, NthType DEF Nth, Proposals
        <3>3. PICK v \in {"accept", "reject"} :
                /\ call' = [call EXCEPT ![q] =
                     [op |-> "commit", team |-> t, by |-> p, nth |-> pr.nth, vote |-> v,
                      verdict |-> Verdict([pr EXCEPT !.vote[q] = v])]]
                /\ proposal' = IF Uncommitted(t, p) = {} THEN proposal
                               ELSE [proposal EXCEPT ![t][p].torn = TRUE]
            BY <1>9, <2>3 DEF InsertVote
        <3> DEFINE verdict == Verdict([pr EXCEPT !.vote[q] = v])
        <3>4. verdict \in {"pending", "accepted", "rejected"}
            BY VerdictType
        <3>5. call' \in [Players -> Calls \cup {None}]
            <4> HIDE DEF verdict, t, p, pr
            <4>1. [op |-> "commit", team |-> t, by |-> p, nth |-> pr.nth, vote |-> v,
                   verdict |-> verdict] \in Calls
                BY <2>1, <3>2, <3>4 DEF Calls
            <4>2. call' = [call EXCEPT ![q] =
                     [op |-> "commit", team |-> t, by |-> p, nth |-> pr.nth, vote |-> v,
                      verdict |-> verdict]]
                BY <3>3 DEF verdict, t, p, pr
            <4> QED
                BY <4>1, <4>2 DEF AllianceTypeOK
        <3>6. proposal' \in [Teams -> [Players -> Proposals \cup {None}]]
            <4>1. CASE Uncommitted(t, p) = {}
                BY <3>3, <4>1 DEF AllianceTypeOK
            <4>2. CASE Uncommitted(t, p) # {}
                <5>1. [pr EXCEPT !.torn = TRUE] \in Proposals
                    BY <3>2 DEF Proposals
                <5>2. proposal' = [proposal EXCEPT ![t][p] = [pr EXCEPT !.torn = TRUE]]
                    BY <3>3, <4>2
                <5> QED
                    BY <2>1, <5>1, <5>2 DEF AllianceTypeOK
            <4> QED
                BY <4>1, <4>2
        <3> QED
            BY <1>9, <3>5, <3>6 DEF InsertVote, AllianceTypeOK, LastCycle
    <2> QED
        BY <2>2, <2>3
<1>10. ASSUME NEW q \in Players, CommitVote(q) PROVE AllianceTypeOK'
    <2> DEFINE t == call[q].team
               p == call[q].by
               verdict == call[q].verdict
               pr == proposal[t][p]
    <2>1. /\ t \in Teams /\ p \in Players /\ call[q].nth \in Nat \ {0}
          /\ call[q].vote \in {"accept", "reject"} /\ verdict \in {"pending", "accepted", "rejected"}
        BY <1>10, CallShape DEF CommitVote
    <2>2. call' \in [Players -> Calls \cup {None}]
        BY <1>10, EndType DEF CommitVote
    <2>3. /\ team' \in [Players -> Teams \cup {None}] /\ strays' \subseteq Players
          /\ crowded' \subseteq Teams
        <3>1. CASE PutLate(p, t)
            BY <2>1, <3>1, LateType
        <3>2. CASE UNCHANGED <<team, strays, crowded>>
            BY <3>2 DEF AllianceTypeOK
        <3> QED
            BY <1>10, <3>1, <3>2 DEF CommitVote
    <2>4. proposal' \in [Teams -> [Players -> Proposals \cup {None}]]
        <3>1. CASE call[q].nth # Nth(t, p)
            BY <1>10, <3>1 DEF CommitVote, AllianceTypeOK
        <3>2. CASE call[q].nth = Nth(t, p)
            <4> DEFINE new == [pr EXCEPT !.vote[q] = call[q].vote,
                                         !.status = IF verdict = "pending" THEN @ ELSE verdict]
            <4>1. pr \in Proposals
                BY <2>1, <3>2, NthType DEF Nth
            <4>2. new \in Proposals
                BY <2>1, <4>1, VotedType
            <4>3. proposal' = [proposal EXCEPT ![t][p] = new]
                BY <1>10, <2>1, <3>2, <4>1 DEF CommitVote, AllianceTypeOK
            <4> HIDE DEF new, t, p
            <4> QED
                BY <2>1, <4>2, <4>3 DEF AllianceTypeOK
        <3> QED
            BY <3>1, <3>2
    <2> QED
        BY <1>10, <2>2, <2>3, <2>4 DEF CommitVote, AllianceTypeOK, LastCycle
<1>11. ASSUME NEW p \in Players, NEW x \in Targets, Attack(p, x) PROVE AllianceTypeOK'
    BY <1>11 DEF Attack, people, AllianceTypeOK, LastCycle
<1>12. ASSUME Resolve PROVE AllianceTypeOK'
    <2>1. cycle' \in 1..LastCycle /\ faults' \in 0..MaxFaults /\ stage' \in Stages
        BY <1>12, AllianceAssumption DEF Resolve, AllianceTypeOK, LastCycle, Stages
    <2>2. proposal' \in [Teams -> [Players -> Proposals \cup {None}]]
        <3>1. \A t \in Teams, p \in Players :
                proposal[t][p] # None => [proposal[t][p] EXCEPT !.status = "expired"] \in Proposals
            BY NthType DEF Proposals
        <3> QED
            BY <1>12, <3>1 DEF Resolve, Pending, AllianceTypeOK
    <2> QED
        BY <1>12, <2>1, <2>2 DEF Resolve, AllianceTypeOK, LastCycle
<1>13. ASSUME ResolveMissions PROVE AllianceTypeOK'
    BY <1>13, AllianceAssumption DEF ResolveMissions, people, AllianceTypeOK, LastCycle, Stages
<1>14. ASSUME ComputeTension PROVE AllianceTypeOK'
    <2>1. tension' \in [Teams -> 0..MaxTension]
        BY <1>14, TensionType DEF ComputeTension, AllianceTypeOK
    <2>2. teams' \in [Teams -> {"none", "active", "dissolved"}]
        BY <1>14 DEF ComputeTension, AllianceTypeOK
    <2>3. faults' \in 0..MaxFaults /\ stage' \in Stages
        BY <1>14, AllianceAssumption DEF ComputeTension, AllianceTypeOK, Stages
    <2> QED
        BY <1>14, <2>1, <2>2, <2>3 DEF ComputeTension, AllianceTypeOK, LastCycle
<1>15. ASSUME Notify PROVE AllianceTypeOK'
    BY <1>15 DEF Notify, people, AllianceTypeOK, LastCycle, Stages
<1>16. ASSUME ClearDissolved PROVE AllianceTypeOK'
    <2>1. team' \in [Players -> Teams \cup {None}] /\ strays' \subseteq Players
        BY <1>16 DEF ClearDissolved, AllianceTypeOK
    <2>2. faults' \in 0..MaxFaults
        BY <1>16, AllianceAssumption DEF ClearDissolved, AllianceTypeOK
    <2>3. leftover' \in BOOLEAN
        <3>1. leftover' = FALSE \/ leftover' = TRUE
            BY <1>16, Zenon DEF ClearDissolved
        <3> QED
            BY <3>1, Zenon
    <2> QED
        BY <1>16, <2>1, <2>2, <2>3 DEF ClearDissolved, AllianceTypeOK, LastCycle, Stages
<1>17. ASSUME Restart PROVE AllianceTypeOK'
    BY <1>17, AllianceAssumption DEF Restart, people, AllianceTypeOK, LastCycle, Stages
<1>18. ASSUME UNCHANGED vars PROVE AllianceTypeOK'
    BY <1>18 DEF vars, AllianceTypeOK, LastCycle
<1> QED
    BY <1>1, <1>2, <1>3, <1>4, <1>5, <1>6, <1>7, <1>8, <1>9, <1>10, <1>11, <1>12, <1>13,
       <1>14, <1>15, <1>16, <1>17, <1>18 DEF Next

\* Players, teams, proposals and requests stay what they are, and tension
\* between its bounds, whatever requests, votes and failures interleave.
THEOREM AllianceTypes == Spec => []AllianceTypeOK
<1> QED
    BY TypeInit, TypeStep, PTL DEF Spec

(***************************************************************************)
(* Dissolved teams                                                         *)
(***************************************************************************)

\* What the cleanup has to restore stays true until tension dissolves a team.
OnDissolved(p) == team[p] # None /\ teams[team[p]] = "dissolved"

DissolvedInv ==
  stage \in {"idle", "missions", "tension"} /\ ~leftover =>
    \A p \in Players : OnDissolved(p) => p \in strays

\* A participant who is put on a dissolved team counts as a stray.
LEMMA PutStray ==
    ASSUME AllianceTypeOK, NEW p \in Players, NEW t \in Teams, PutOn(p, t), UNCHANGED teams,
           \A q \in Players : OnDissolved(q) => q \in strays
    PROVE  \A q \in Players : OnDissolved(q)' => q \in strays'
BY DEF AllianceTypeOK, PutOn, OnDissolved

\* Steps that leave the members and the pipeline alone, and dissolve no team.
LEMMA DissolvedKept ==
    ASSUME DissolvedInv, UNCHANGED <<team, teams, strays, stage, leftover>>
    PROVE  DissolvedInv'
BY DEF DissolvedInv, OnDissolved

LEMMA DissolvedStep == AllianceTypeOK /\ DissolvedInv /\ [Next]_vars => DissolvedInv'
<1> SUFFICES ASSUME AllianceTypeOK, DissolvedInv, [Next]_vars PROVE DissolvedInv'
    OBVIOUS
<1>1. ASSUME NEW p \in Players, NEW t \in Teams, CreateTeam(p, t) PROVE DissolvedInv'
    <2>1. \A q \in Players : OnDissolved(q)' => OnDissolved(q)
        BY <1>1 DEF CreateTeam, AllianceTypeOK, OnDissolved
    <2> QED
        BY <1>1, <2>1 DEF CreateTeam, DissolvedInv
<1>2. ASSUME NEW p \in Players, NEW t \in Teams, RequestJoin(p, t) \/ CheckProposal(p, t)
      PROVE  DissolvedInv'
    BY <1>2, DissolvedKept DEF RequestJoin, CheckProposal, people
<1>3. ASSUME NEW p \in Players, JoinOwn(p) PROVE DissolvedInv'
    <2>1. call[p].team \in Teams /\ PutOn(p, call[p].team)
        BY <1>3, CallShape DEF JoinOwn, PutLate
    <2> QED
        BY <1>3, <2>1, PutStray DEF JoinOwn, DissolvedInv
<1>4. ASSUME NEW p \in Players, JoinTeam(p) PROVE DissolvedInv'
    <2>1. call[p].team \in Teams
        BY <1>4, CallShape DEF JoinTeam
    <2>2. CASE PutOn(p, call[p].team)
        BY <1>4, <2>1, <2>2, PutStray DEF JoinTeam, DissolvedInv
    <2>3. CASE UNCHANGED <<team, strays>>
        BY <1>4, <2>3, DissolvedKept DEF JoinTeam
    <2> QED
        BY <1>4, <2>2, <2>3 DEF JoinTeam
<1>5. ASSUME NEW p \in Players, LeaveTeam(p) PROVE DissolvedInv'
    <2>1. \A q \in Players : OnDissolved(q)' => OnDissolved(q) /\ q # p
        BY <1>5 DEF LeaveTeam, AllianceTypeOK, OnDissolved
    <2> QED
        BY <1>5, <2>1 DEF LeaveTeam, DissolvedInv
<1>6. ASSUME NEW p \in Players, Propose(p) PROVE DissolvedInv'
    <2>1. call[p].team \in Teams
        BY <1>6, CallShape DEF Propose
    <2>2. CASE PutLate(p, call[p].team)
        BY <1>6, <2>1, <2>2, PutStray DEF Propose, PutLate, DissolvedInv
    <2>3. CASE UNCHANGED <<team, strays, crowded>>
        BY <1>6, <2>3, DissolvedKept DEF Propose
    <2> QED
        BY <1>6, <2>2, <2>3 DEF Propose
<1>7. ASSUME NEW q \in Players, NEW p \in Players, NEW t \in Teams, CheckVote(q, t, p)
      PROVE  DissolvedInv'
    BY <1>7, DissolvedKept DEF CheckVote, people
<1>8. ASSUME NEW q \in Players, InsertVote(q) PROVE DissolvedInv'
    BY <1>8, DissolvedKept DEF InsertVote
<1>9. ASSUME NEW q \in Players, CommitVote(q) PROVE DissolvedInv'
    <2>1. call[q].team \in Teams /\ call[q].by \in Players
        BY <1>9, CallShape DEF CommitVote
    <2>2. CASE PutLate(call[q].by, call[q].team)
        BY <1>9, <2>1, <2>2, PutStray DEF CommitVote, PutLate, DissolvedInv
    <2>3. CASE UNCHANGED <<team, strays, crowded>>
        BY <1>9, <2>3, DissolvedKept DEF CommitVote
    <2> QED
        BY <1>9, <2>2, <2>3 DEF CommitVote
<1>10. ASSUME NEW p \in Players, NEW x \in Targets, Attack(p, x) PROVE DissolvedInv'
    BY <1>10, DissolvedKept DEF Attack, people
<1>11. ASSUME Resolve \/ ResolveMissions PROVE DissolvedInv'
    BY <1>11 DEF Resolve, ResolveMissions, people, DissolvedInv, OnDissolved
<1>12. ASSUME ComputeTension PROVE DissolvedInv'
    BY <1>12 DEF ComputeTension, DissolvedInv, OnDissolved
<1>13. ASSUME Notify PROVE DissolvedInv'
    BY <1>13 DEF Notify, DissolvedInv
<1>14. ASSUME ClearDissolved PROVE DissolvedInv'
    BY <1>14 DEF ClearDissolved, DissolvedInv, OnDissolved
<1>15. ASSUME Restart PROVE DissolvedInv'
    BY <1>15 DEF Restart, people, AllianceTypeOK, Stages, DissolvedInv, OnDissolved
<1>16. ASSUME UNCHANGED vars PROVE DissolvedInv'
    BY <1>16, DissolvedKept DEF vars
<1> QED
    BY <1>1, <1>2, <1>3, <1>4, <1>5, <1>6, <1>7, <1>8, <1>9, <1>10, <1>11, <1>12, <1>13,
       <1>14, <1>15, <1>16 DEF Next

\* Between two pipelines nobody is on a dissolved team, unless a cleanup failed
\* or a request put them there afterwards.
THEOREM DissolvedTeamsEmpty == Spec => []DissolvedIsEmpty
<1>1. Init => DissolvedInv
    BY DEF Init, DissolvedInv, OnDissolved
<1>2. DissolvedInv => DissolvedIsEmpty
    BY DEF DissolvedInv, DissolvedIsEmpty, OnDissolved
<1> QED
    BY <1>1, <1>2, AllianceTypes, DissolvedStep, PTL DEF Spec

(***************************************************************************)
(* The size of a team                                                      *)
(***************************************************************************)

\* Steps after which every team has the members it had, or fewer.
LEMMA FitsKept ==
    ASSUME AllianceTypeOK, TeamFits, crowded \subseteq crowded',
           \A p \in Players : team'[p] = team[p] \/ team'[p] = None
    PROVE  TeamFits'
<1> SUFFICES ASSUME NEW t \in Teams \ crowded' PROVE Cardinality(Members(t)') <= MaxTeamSize
    BY DEF TeamFits
<1>1. Members(t)' \subseteq Members(t) /\ Members(t) \in SUBSET Players
    BY AllianceAssumption DEF Members
<1>2. Cardinality(Members(t)') <= Cardinality(Members(t))
    BY <1>1, PlayersCounted, FS_Subset
<1>3. Cardinality(Members(t)) \in Nat /\ Cardinality(Members(t)') \in Nat
    BY <1>1, PlayersCounted
<1>4. Cardinality(Members(t)) <= MaxTeamSize
    BY DEF TeamFits
<1> QED
    BY <1>2, <1>3, <1>4, AllianceAssumption

\* A member more, where there was room, where they were already, or where the
\* team is known to be crowded.
LEMMA FitsPut ==
    ASSUME AllianceTypeOK, TeamFits, NEW p \in Players, NEW t \in Teams, PutOn(p, t),
           crowded \subseteq crowded',
           t \in crowded' \/ team[p] = t \/ Cardinality(Members(t)) < MaxTeamSize
    PROVE  TeamFits'
<1> SUFFICES ASSUME NEW u \in Teams \ crowded' PROVE Cardinality(Members(u)') <= MaxTeamSize
    BY DEF TeamFits
<1>1. /\ Members(u) \in SUBSET Players /\ IsFiniteSet(Members(u))
      /\ Cardinality(Members(u)) \in Nat /\ Cardinality(Members(u)) <= MaxTeamSize
    BY PlayersCounted DEF Members, TeamFits
<1>2. CASE u = t /\ team[p] # t
    <2>1. Members(u)' = Members(u) \cup {p} /\ p \notin Members(u)
        BY <1>2 DEF PutOn, Members, AllianceTypeOK
    <2>2. Cardinality(Members(u)') = Cardinality(Members(u)) + 1
        BY <1>1, <2>1, FS_AddElement
    <2> QED
        BY <1>1, <1>2, <2>2, AllianceAssumption
<1>3. CASE ~ (u = t /\ team[p] # t)
    <2>1. Members(u)' \subseteq Members(u)
        BY <1>3 DEF PutOn, Members, AllianceTypeOK
    <2>2. Cardinality(Members(u)') <= Cardinality(Members(u)) /\ Cardinality(Members(u)') \in Nat
        BY <1>1, <2>1, FS_Subset, FS_CardinalityType
    <2> QED
        BY <1>1, <2>2, AllianceAssumption
<1> QED
    BY <1>2, <1>3

\* A write that does not look again marks the team it overfills.
LEMMA FitsLate ==
    ASSUME AllianceTypeOK, TeamFits, NEW p \in Players, NEW t \in Teams, PutLate(p, t)
    PROVE  TeamFits'
<1>1. Cardinality(Members(t)) \in Nat
    BY PlayersCounted DEF Members
<1>2. t \in crowded' \/ team[p] = t \/ Cardinality(Members(t)) < MaxTeamSize
    BY <1>1, AllianceAssumption DEF PutLate
<1> QED
    BY <1>2, FitsPut DEF PutLate

LEMMA FitsStep == AllianceTypeOK /\ TeamFits /\ [Next]_vars => TeamFits'
<1> SUFFICES ASSUME AllianceTypeOK, TeamFits, [Next]_vars PROVE TeamFits'
    OBVIOUS
<1>1. ASSUME UNCHANGED <<team, crowded>> PROVE TeamFits'
    BY <1>1, FitsKept
<1>2. ASSUME NEW p \in Players, JoinOwn(p) PROVE TeamFits'
    BY <1>2, CallShape, FitsLate DEF JoinOwn
<1>3. ASSUME NEW p \in Players, JoinTeam(p) PROVE TeamFits'
    <2>1. call[p].team \in Teams
        BY <1>3, CallShape DEF JoinTeam
    <2>2. CASE PutOn(p, call[p].team) /\ Cardinality(Members(call[p].team)) < MaxTeamSize
        BY <1>3, <2>1, <2>2, FitsPut DEF JoinTeam
    <2>3. CASE UNCHANGED <<team, strays>>
        BY <1>1, <1>3, <2>3 DEF JoinTeam
    <2> QED
        BY <1>3, <2>2, <2>3 DEF JoinTeam
<1>4. ASSUME NEW p \in Players, LeaveTeam(p) PROVE TeamFits'
    BY <1>4, FitsKept DEF LeaveTeam, AllianceTypeOK
<1>5. ASSUME NEW p \in Players, Propose(p) PROVE TeamFits'
    <2>1. call[p].team \in Teams
        BY <1>5, CallShape DEF Propose
    <2> QED
        BY <1>1, <1>5, <2>1, FitsLate DEF Propose
<1>6. ASSUME NEW q \in Players, CommitVote(q) PROVE TeamFits'
    <2>1. call[q].team \in Teams /\ call[q].by \in Players
        BY <1>6, CallShape DEF CommitVote
    <2> QED
        BY <1>1, <1>6, <2>1, FitsLate DEF CommitVote
<1>7. ASSUME ClearDissolved PROVE TeamFits'
    BY <1>7, FitsKept DEF ClearDissolved, AllianceTypeOK
<1>8. ASSUME NEW p \in Players, NEW t \in Teams,
             CreateTeam(p, t) \/ RequestJoin(p, t) \/ CheckProposal(p, t)
      PROVE  TeamFits'
    BY <1>1, <1>8 DEF CreateTeam, RequestJoin, CheckProposal, people
<1>9. ASSUME NEW q \in Players, NEW p \in Players, NEW t \in Teams, CheckVote(q, t, p)
      PROVE  TeamFits'
    BY <1>1, <1>9 DEF CheckVote, people
<1>10. ASSUME NEW q \in Players, InsertVote(q) PROVE TeamFits'
    BY <1>1, <1>10 DEF InsertVote
<1>11. ASSUME NEW p \in Players, NEW x \in Targets, Attack(p, x) PROVE TeamFits'
    BY <1>1, <1>11 DEF Attack, people
<1>12. ASSUME Resolve \/ ResolveMissions \/ ComputeTension \/ Notify \/ Restart PROVE TeamFits'
    BY <1>1, <1>12 DEF Resolve, ResolveMissions, ComputeTension, Notify, Restart, people
<1>13. ASSUME UNCHANGED vars PROVE TeamFits'
    BY <1>1, <1>13 DEF vars
<1> QED
    BY <1>2, <1>3, <1>4, <1>5, <1>6, <1>7, <1>8, <1>9, <1>10, <1>11, <1>12, <1>13 DEF Next

\* A team outgrows max_team_size only where the code does not look at the size
\* again before the write, however many joins, votes and failures interleave.
THEOREM TeamsFit == Spec => []TeamFits
<1>1. Init => TeamFits
    <2> SUFFICES ASSUME Init, NEW t \in Teams PROVE Cardinality(Members(t)) <= MaxTeamSize
        BY DEF TeamFits
    <2>1. Members(t) = {}
        BY AllianceAssumption DEF Init, Members
    <2> QED
        BY <2>1, FS_EmptySet, AllianceAssumption
<1> QED
    BY <1>1, AllianceTypes, FitsStep, PTL DEF Spec

(***************************************************************************)
(* Verdicts                                                                *)
(***************************************************************************)

\* The votes that are committed do not decide a proposal.
Undecided(pr) ==
  Rejects(pr) = {} /\ (pr.required > 0 => Cardinality(Accepts(pr)) < pr.required)

\* A pending proposal is undecided; of its voters at most one is about to
\* commit, has not voted yet, and carries the verdict on all the votes there
\* will be.
VerdictSound(t, p) ==
  Pending(t, p) /\ ~proposal[t][p].torn =>
    /\ Undecided(proposal[t][p])
    /\ \A q, r \in Uncommitted(t, p) : q = r
    /\ \A q \in Uncommitted(t, p) :
         /\ proposal[t][p].vote[q] = "none"
         /\ call[q].verdict = Verdict([proposal[t][p] EXCEPT !.vote[q] = call[q].vote])

\* A vote is for a proposal that exists or existed.
VotesKnown ==
  \A q \in Players : call[q] # None /\ call[q].op \in {"vote", "commit"} =>
    call[q].nth <= Nth(call[q].team, call[q].by)

VerdictInv == VotesKnown /\ \A t \in Teams, p \in Players : VerdictSound(t, p)

\* A new proposal has no votes.
LEMMA NewUndecided ==
    ASSUME NEW pr \in Proposals, pr.vote = [q \in Players |-> "none"]
    PROVE  Undecided(pr)
<1>1. Rejects(pr) = {} /\ Accepts(pr) = {}
    BY DEF Rejects, Accepts
<1> QED
    BY <1>1, FS_EmptySet, PlayersCounted DEF Undecided, Proposals

\* Nothing that is still pending after a vote was decided by it.
LEMMA NoVerdictUndecided ==
    ASSUME NEW pr \in Proposals, pr.status = "pending", Verdict(pr) = "pending"
    PROVE  Undecided(pr)
<1>1. Cardinality(Accepts(pr)) \in Nat /\ pr.required \in Nat
    BY PlayersCounted DEF Accepts, Proposals
<1> QED
    BY <1>1 DEF Verdict, Undecided

\* A step that leaves a proposal alone and adds no voter about to commit.
LEMMA SoundKept ==
    ASSUME NEW t \in Teams, NEW p \in Players, VerdictSound(t, p),
           proposal'[t][p] = proposal[t][p],
           \A q \in Players : q \in Uncommitted(t, p)' => q \in Uncommitted(t, p) /\ call'[q] = call[q]
    PROVE  VerdictSound(t, p)'
<1>1. Uncommitted(t, p)' \subseteq Players
    BY DEF Uncommitted
<1> QED
    BY <1>1 DEF VerdictSound, Pending

\* A request that begins, and is no commit.
LEMMA VerdictBegin ==
    ASSUME AllianceTypeOK, VerdictInv, UNCHANGED proposal, NEW q \in Players, NEW c \in Calls,
           call' = [call EXCEPT ![q] = c], c.op # "commit",
           c.op = "vote" => c.nth <= Nth(c.team, c.by)
    PROVE  VerdictInv'
<1>1. \A r \in Players : call'[r] = IF r = q THEN c ELSE call[r]
    BY DEF AllianceTypeOK
<1>2. \A t, p : Nth(t, p)' = Nth(t, p)
    BY DEF Nth
<1>3. VotesKnown'
    BY <1>1, <1>2 DEF VerdictInv, VotesKnown
<1>4. ASSUME NEW t \in Teams, NEW p \in Players PROVE VerdictSound(t, p)'
    <2>1. \A r \in Players : r \in Uncommitted(t, p)' => r \in Uncommitted(t, p) /\ call'[r] = call[r]
        BY <1>1, <1>2 DEF Uncommitted
    <2> QED
        BY <2>1, SoundKept DEF VerdictInv
<1> QED
    BY <1>3, <1>4 DEF VerdictInv

\* A request that ends without having written a proposal.
LEMMA VerdictEnd ==
    ASSUME AllianceTypeOK, VerdictInv, UNCHANGED proposal, NEW q \in Players, End(q)
    PROVE  VerdictInv'
<1>1. \A r \in Players : call'[r] = IF r = q THEN None ELSE call[r]
    BY DEF AllianceTypeOK, End
<1>2. \A t, p : Nth(t, p)' = Nth(t, p)
    BY DEF Nth
<1>3. VotesKnown'
    BY <1>1, <1>2 DEF VerdictInv, VotesKnown
<1>4. ASSUME NEW t \in Teams, NEW p \in Players PROVE VerdictSound(t, p)'
    <2>1. \A r \in Players : r \in Uncommitted(t, p)' => r \in Uncommitted(t, p) /\ call'[r] = call[r]
        BY <1>1, <1>2 DEF Uncommitted
    <2> QED
        BY <2>1, SoundKept DEF VerdictInv
<1> QED
    BY <1>3, <1>4 DEF VerdictInv

\* A step that touches neither proposals nor requests.
LEMMA VerdictKept ==
    ASSUME VerdictInv, UNCHANGED <<proposal, call>>
    PROVE  VerdictInv'
<1>1. \A t \in Teams, p \in Players : Uncommitted(t, p)' = Uncommitted(t, p)
    BY DEF Uncommitted, Nth
<1>2. \A t \in Teams, p \in Players : VerdictSound(t, p)'
    BY <1>1, SoundKept DEF VerdictInv
<1>3. VotesKnown'
    BY DEF VerdictInv, VotesKnown, Nth
<1> QED
    BY <1>2, <1>3 DEF VerdictInv

\* A proposal is written.
LEMMA VerdictPropose ==
    ASSUME AllianceTypeOK, VerdictInv, NEW p \in Players, Propose(p)
    PROVE  VerdictInv'
<1> PICK t \in Teams : t = call[p].team
    BY CallShape DEF Propose
<1> DEFINE new == [nth |-> Nth(t, p) + 1, status |-> "pending", required |-> call[p].size,
                   expires |-> call[p].cycle + ProposalExpiry,
                   vote |-> [q \in Players |-> "none"], torn |-> FALSE]
<1>1. call[p].size \in 0..Cardinality(Players) /\ call[p].cycle \in Nat /\ End(p)
    BY CallShape DEF Propose
<1>2. CASE UNCHANGED proposal
    BY <1>1, <1>2, VerdictEnd
<1>3. CASE proposal' # proposal
    <2>1. proposal' = [proposal EXCEPT ![t][p] = new] /\ new \in Proposals
        <3>1. new \in Proposals
            BY <1>1, NthType, AllianceAssumption DEF Proposals, Choice
        <3>2. proposal' = [proposal EXCEPT ![t][p] = new]
            BY <1>3 DEF Propose
        <3> QED
            BY <3>1, <3>2
    <2>2. /\ \A u \in Teams, r \in Players :
               proposal'[u][r] = IF u = t /\ r = p THEN new ELSE proposal[u][r]
          /\ \A r \in Players : call'[r] = IF r = p THEN None ELSE call[r]
        <3> HIDE DEF new
        <3> QED
            BY <1>1, <2>1 DEF AllianceTypeOK, End
    <2>3. /\ new.nth = Nth(t, p) + 1 /\ new # None /\ new.vote = [q \in Players |-> "none"]
          /\ Nth(t, p) \in Nat
        BY <1>1, <2>1, NoneAssumption, NthType
    <2>4. /\ Nth(t, p)' = Nth(t, p) + 1
          /\ \A u \in Teams, r \in Players : ~ (u = t /\ r = p) => Nth(u, r)' = Nth(u, r)
        <3> HIDE DEF new
        <3> QED
            BY <1>1, <2>2, <2>3 DEF Nth
    <2> HIDE DEF new
    <2>5. \A q \in Players : call'[q] # None /\ call'[q].op \in {"vote", "commit"} =>
            /\ call'[q] = call[q] /\ call[q].team \in Teams /\ call[q].by \in Players
            /\ call[q].nth \in Nat /\ call[q].nth <= Nth(call[q].team, call[q].by)
        BY <2>2, CallShape DEF VerdictInv, VotesKnown
    <2>6. VotesKnown'
        BY <1>1, <2>3, <2>4, <2>5, NthType DEF VotesKnown
    <2>7. ASSUME NEW u \in Teams, NEW r \in Players, ~ (u = t /\ r = p)
          PROVE  VerdictSound(u, r)'
        <3>1. \A q \in Players : q \in Uncommitted(u, r)' => q \in Uncommitted(u, r) /\ call'[q] = call[q]
            BY <2>4, <2>5, <2>7 DEF Uncommitted
        <3> QED
            BY <2>2, <2>7, <3>1, SoundKept DEF VerdictInv
    <2>8. VerdictSound(t, p)'
        <3>1. Uncommitted(t, p)' = {}
            BY <2>3, <2>4, <2>5 DEF Uncommitted
        <3>2. Undecided(new)
            BY <2>1, <2>3, NewUndecided
        <3>3. proposal'[t][p] = new
            BY <1>1, <2>2
        <3> QED
            BY <3>1, <3>2, <3>3 DEF VerdictSound
    <2> QED
        BY <2>6, <2>7, <2>8 DEF VerdictInv
<1> QED
    BY <1>2, <1>3

\* A vote is inserted.
LEMMA VerdictInsert ==
    ASSUME AllianceTypeOK, VerdictInv, NEW q \in Players, InsertVote(q)
    PROVE  VerdictInv'
<1> PICK t \in Teams, p \in Players : t = call[q].team /\ p = call[q].by
    BY CallShape DEF InsertVote
<1> DEFINE pr == proposal[t][p]
<1>1. CASE End(q) /\ UNCHANGED proposal
    BY <1>1, VerdictEnd
<1>2. CASE ~ (End(q) /\ UNCHANGED proposal)
    <2>1. call[q].nth \in Nat \ {0}
        BY CallShape DEF InsertVote
    <2>2. call[q].nth = Nth(t, p) /\ pr.vote[q] = "none"
        BY <1>2 DEF InsertVote
    <2>3. pr \in Proposals /\ pr # None /\ pr.nth = Nth(t, p) /\ pr.nth \in Nat
        BY <2>1, <2>2, NthType DEF Nth
    <2>4. PICK v \in {"accept", "reject"} :
            /\ call' = [call EXCEPT ![q] =
                 [op |-> "commit", team |-> t, by |-> p, nth |-> pr.nth, vote |-> v,
                  verdict |-> Verdict([pr EXCEPT !.vote[q] = v])]]
            /\ proposal' = IF Uncommitted(t, p) = {} THEN proposal
                           ELSE [proposal EXCEPT ![t][p].torn = TRUE]
        BY <1>2 DEF InsertVote
    <2> DEFINE c == [op |-> "commit", team |-> t, by |-> p, nth |-> pr.nth, vote |-> v,
                     verdict |-> Verdict([pr EXCEPT !.vote[q] = v])]
               torn == [pr EXCEPT !.torn = TRUE]
    <2>5. /\ c.op = "commit" /\ c.team = t /\ c.by = p /\ c.nth = pr.nth /\ c.vote = v
          /\ c.verdict = Verdict([pr EXCEPT !.vote[q] = v])
        OBVIOUS
    <2>6. torn \in Proposals /\ torn # None /\ torn.nth = pr.nth /\ torn.torn = TRUE
        BY <2>3, NoneAssumption DEF Proposals
    <2>7. \A r \in Players : call'[r] = IF r = q THEN c ELSE call[r]
        <3> HIDE DEF c
        <3>1. call' = [call EXCEPT ![q] = c]
            BY <2>4 DEF c
        <3> QED
            BY <3>1 DEF AllianceTypeOK
    <2>8. \A u \in Teams, r \in Players : proposal'[u][r] =
            IF u = t /\ r = p /\ Uncommitted(t, p) # {} THEN torn ELSE proposal[u][r]
        <3>1. Uncommitted(t, p) # {} => proposal' = [proposal EXCEPT ![t][p] = torn]
            BY <2>4
        <3>2. Uncommitted(t, p) = {} => proposal' = proposal
            BY <2>4
        <3> HIDE DEF torn
        <3> QED
            BY <2>1, <3>1, <3>2 DEF AllianceTypeOK
    <2> HIDE DEF c, torn
    <2>9. \A u \in Teams, r \in Players : Nth(u, r)' = Nth(u, r)
        BY <2>3, <2>6, <2>8 DEF Nth
    <2>10. VotesKnown'
        <3>1. /\ call'[q].nth = Nth(t, p) /\ call'[q].team = t /\ call'[q].by = p
              /\ Nth(t, p) \in Nat /\ Nth(t, p)' = Nth(t, p)
            BY <2>3, <2>5, <2>7, <2>9
        <3>2. \A r \in Players : r # q /\ call'[r] # None /\ call'[r].op \in {"vote", "commit"} =>
                /\ call'[r] = call[r] /\ call[r].team \in Teams /\ call[r].by \in Players
                /\ call[r].nth <= Nth(call[r].team, call[r].by)
            BY <2>7, CallShape DEF VerdictInv, VotesKnown
        <3> QED
            BY <2>9, <3>1, <3>2 DEF VotesKnown
    <2>11. ASSUME NEW u \in Teams, NEW r \in Players, ~ (u = t /\ r = p) PROVE VerdictSound(u, r)'
        <3>1. \A s \in Players : s \in Uncommitted(u, r)' => s \in Uncommitted(u, r) /\ call'[s] = call[s]
            BY <2>5, <2>7, <2>9, <2>11 DEF Uncommitted
        <3> QED
            BY <2>8, <2>11, <3>1, SoundKept DEF VerdictInv
    <2>12. VerdictSound(t, p)'
        <3>1. CASE Uncommitted(t, p) # {}
            <4>1. proposal'[t][p].torn = TRUE
                BY <2>1, <2>6, <2>8, <3>1
            <4> QED
                BY <4>1 DEF VerdictSound
        <3>2. CASE Uncommitted(t, p) = {}
            <4>1. proposal'[t][p] = pr
                BY <2>1, <2>8, <3>2
            <4>2. \A s \in Uncommitted(t, p)' : s = q
                BY <2>1, <2>7, <2>9, <3>2 DEF Uncommitted
            <4>3. call'[q].vote = v /\ call'[q].verdict = Verdict([pr EXCEPT !.vote[q] = v])
                BY <2>5, <2>7
            <4>4. Pending(t, p)' /\ ~proposal'[t][p].torn => Undecided(pr)
                BY <2>1, <4>1 DEF Pending, VerdictInv, VerdictSound
            <4> HIDE DEF pr
            <4> QED
                BY <2>2, <4>1, <4>2, <4>3, <4>4 DEF VerdictSound
        <3> QED
            BY <3>1, <3>2
    <2> QED
        BY <2>10, <2>11, <2>12 DEF VerdictInv
<1> QED
    BY <1>1, <1>2

\* A vote is committed.
LEMMA VerdictCommit ==
    ASSUME AllianceTypeOK, VerdictInv, NEW q \in Players, CommitVote(q)
    PROVE  VerdictInv'
<1> PICK t \in Teams, p \in Players : t = call[q].team /\ p = call[q].by
    BY CallShape DEF CommitVote
<1> PICK v \in {"accept", "reject"}, verdict \in {"pending", "accepted", "rejected"} :
      v = call[q].vote /\ verdict = call[q].verdict
    BY CallShape DEF CommitVote
<1> DEFINE pr == proposal[t][p]
<1>1. CASE UNCHANGED proposal
    BY <1>1, VerdictEnd DEF CommitVote
<1>2. CASE proposal' # proposal
    <2>1. call[q].nth = Nth(t, p) /\ call[q].nth \in Nat \ {0} /\ q \in Uncommitted(t, p)
        BY <1>2, CallShape DEF CommitVote, Uncommitted
    <2>2. pr \in Proposals /\ pr # None /\ pr.nth = Nth(t, p)
        BY <2>1, NthType DEF Nth
    <2> DEFINE new == [pr EXCEPT !.vote[q] = v,
                                 !.status = IF verdict = "pending" THEN @ ELSE verdict]
    <2>3. proposal' = [proposal EXCEPT ![t][p] = new]
        <3>1. proposal' = [proposal EXCEPT ![t][p].vote[q] = v,
                             ![t][p].status = IF verdict = "pending" THEN @ ELSE verdict]
            BY <1>2, <2>1 DEF CommitVote
        <3> QED
            BY <2>2, <3>1 DEF AllianceTypeOK
    <2>4. new \in Proposals /\ new # None
        <3>1. new \in Proposals
            BY <2>2, VotedType
        <3> QED
            BY <3>1, NoneAssumption
    <2>5. /\ new.nth = pr.nth /\ new.torn = pr.torn
          /\ new.status = IF verdict = "pending" THEN pr.status ELSE verdict
        BY <2>2 DEF Proposals
    <2>6. verdict = "pending" => new = [pr EXCEPT !.vote[q] = v]
        <3>1. ASSUME verdict = "pending"
              PROVE  new = [pr EXCEPT !.vote[q] = v, !.status = pr.status]
            BY <3>1
        <3> QED
            BY <2>2, <3>1 DEF Proposals
    <2> HIDE DEF new
    <2>7. /\ \A u \in Teams, r \in Players :
               proposal'[u][r] = IF u = t /\ r = p THEN new ELSE proposal[u][r]
          /\ \A r \in Players : call'[r] = IF r = q THEN None ELSE call[r]
        <3>1. \A u \in Teams, r \in Players :
                proposal'[u][r] = IF u = t /\ r = p THEN new ELSE proposal[u][r]
            BY <2>3 DEF AllianceTypeOK
        <3>2. \A r \in Players : call'[r] = IF r = q THEN None ELSE call[r]
            BY DEF AllianceTypeOK, End, CommitVote
        <3> QED
            BY <3>1, <3>2
    <2>8. \A u \in Teams, r \in Players : Nth(u, r)' = Nth(u, r)
        BY <2>2, <2>4, <2>5, <2>7 DEF Nth
    <2>9. VotesKnown'
        <3>1. \A r \in Players : call'[r] # None /\ call'[r].op \in {"vote", "commit"} =>
                /\ call'[r] = call[r] /\ call[r].team \in Teams /\ call[r].by \in Players
                /\ call[r].nth <= Nth(call[r].team, call[r].by)
            BY <2>7, CallShape DEF VerdictInv, VotesKnown
        <3> QED
            BY <2>8, <3>1 DEF VotesKnown
    <2>10. \A u \in Teams, r \in Players : \A s \in Players :
            s \in Uncommitted(u, r)' => s \in Uncommitted(u, r) /\ s # q /\ call'[s] = call[s]
        BY <2>7, <2>8 DEF Uncommitted
    <2>11. ASSUME NEW u \in Teams, NEW r \in Players, ~ (u = t /\ r = p) PROVE VerdictSound(u, r)'
        BY <2>7, <2>10, <2>11, SoundKept DEF VerdictInv
    <2>12. VerdictSound(t, p)'
        <3>1. proposal'[t][p] = new
            BY <2>7
        <3> SUFFICES ASSUME new.status = "pending", ~new.torn PROVE VerdictSound(t, p)'
            BY <3>1 DEF VerdictSound, Pending
        <3>2. verdict = "pending" /\ pr.status = "pending" /\ ~pr.torn
            BY <2>5
        <3>3. /\ \A r, s \in Uncommitted(t, p) : r = s
              /\ verdict = Verdict([pr EXCEPT !.vote[q] = v])
            BY <2>1, <2>2, <3>2 DEF VerdictInv, VerdictSound, Pending
        <3>4. Undecided(new)
            <4>1. Verdict(new) = "pending"
                BY <2>6, <3>2, <3>3
            <4> QED
                BY <2>4, <4>1, NoVerdictUndecided
        <3>5. Uncommitted(t, p)' = {}
            <4>1. \A s \in Uncommitted(t, p)' : s \in Players
                BY DEF Uncommitted
            <4> QED
                BY <2>1, <2>10, <3>3, <4>1
        <3> QED
            BY <3>1, <3>4, <3>5 DEF VerdictSound
    <2> QED
        BY <2>9, <2>11, <2>12 DEF VerdictInv
<1> QED
    BY <1>1, <1>2

\* The pipeline begins a cycle: proposals expire, and stay undecided.
LEMMA VerdictResolve ==
    ASSUME AllianceTypeOK, VerdictInv, Resolve
    PROVE  VerdictInv'
<1>1. CASE UNCHANGED proposal
    BY <1>1, VerdictKept DEF Resolve
<1>2. CASE proposal' # proposal
    <2>1. UNCHANGED call
        BY DEF Resolve
    <2>2. \A u \in Teams, r \in Players :
            proposal'[u][r] = IF Pending(u, r) /\ proposal[u][r].expires <= cycle + 1
                              THEN [proposal[u][r] EXCEPT !.status = "expired"] ELSE proposal[u][r]
        BY <1>2 DEF Resolve
    <2>3. \A u \in Teams, r \in Players : Pending(u, r) =>
            LET gone == [proposal[u][r] EXCEPT !.status = "expired"]
            IN gone # None /\ gone.nth = proposal[u][r].nth /\ gone.status = "expired"
        BY NoneAssumption, NthType DEF Pending, Proposals
    <2>4. \A u \in Teams, r \in Players : Nth(u, r)' = Nth(u, r)
        BY <2>2, <2>3 DEF Nth, Pending
    <2>5. VotesKnown'
        <3>1. \A r \in Players : call[r] # None /\ call[r].op \in {"vote", "commit"} =>
                /\ call[r].team \in Teams /\ call[r].by \in Players
                /\ call[r].nth <= Nth(call[r].team, call[r].by)
            BY CallShape DEF VerdictInv, VotesKnown
        <3> QED
            BY <2>1, <2>4, <3>1 DEF VotesKnown
    <2>6. ASSUME NEW u \in Teams, NEW r \in Players PROVE VerdictSound(u, r)'
        <3>1. CASE proposal'[u][r] = proposal[u][r]
            <4>1. Uncommitted(u, r)' = Uncommitted(u, r)
                BY <2>1, <2>4 DEF Uncommitted
            <4> QED
                BY <2>1, <3>1, <4>1, SoundKept DEF VerdictInv
        <3>2. CASE proposal'[u][r] # proposal[u][r]
            <4>1. proposal'[u][r].status = "expired"
                BY <2>2, <2>3, <3>2
            <4> QED
                BY <4>1 DEF VerdictSound, Pending
        <3> QED
            BY <3>1, <3>2
    <2> QED
        BY <2>5, <2>6 DEF VerdictInv
<1> QED
    BY <1>1, <1>2

LEMMA VerdictStep == AllianceTypeOK /\ VerdictInv /\ [Next]_vars => VerdictInv'
<1> SUFFICES ASSUME AllianceTypeOK, VerdictInv, [Next]_vars PROVE VerdictInv'
    OBVIOUS
<1>1. ASSUME NEW p \in Players, NEW t \in Teams, CreateTeam(p, t) PROVE VerdictInv'
    <2> DEFINE c == [op |-> "create", team |-> t]
    <2>1. c \in Calls /\ c.op = "create"
        BY DEF Calls
    <2> QED
        BY <1>1, <2>1, VerdictBegin DEF CreateTeam, Begin
<1>2. ASSUME NEW p \in Players, NEW t \in Teams, RequestJoin(p, t) PROVE VerdictInv'
    <2> DEFINE c == [op |-> "join", team |-> t]
    <2>1. c \in Calls /\ c.op = "join"
        BY DEF Calls
    <2> QED
        BY <1>2, <2>1, VerdictBegin DEF RequestJoin, Begin, people
<1>3. ASSUME NEW p \in Players, NEW t \in Teams, CheckProposal(p, t) PROVE VerdictInv'
    <2> DEFINE c == [op |-> "propose", team |-> t, size |-> Cardinality(Members(t)), cycle |-> cycle]
    <2>1. c \in Calls /\ c.op = "propose"
        <3>1. Cardinality(Members(t)) \in 0..Cardinality(Players)
            BY PlayersCounted DEF Members
        <3>2. cycle \in Nat
            BY AllianceAssumption DEF AllianceTypeOK, LastCycle
        <3> QED
            BY <3>1, <3>2 DEF Calls
    <2>2. call' = [call EXCEPT ![p] = c] /\ UNCHANGED proposal
        BY <1>3 DEF CheckProposal, Begin, people
    <2> HIDE DEF c
    <2> QED
        BY <2>1, <2>2, VerdictBegin
<1>4. ASSUME NEW q \in Players, NEW p \in Players, NEW t \in Teams, CheckVote(q, t, p)
      PROVE  VerdictInv'
    <2> DEFINE c == [op |-> "vote", team |-> t, by |-> p, nth |-> Nth(t, p)]
    <2>1. Nth(t, p) \in Nat \ {0}
        BY <1>4, NthType DEF CheckVote, Pending
    <2>2. c \in Calls /\ c.op = "vote" /\ c.nth <= Nth(c.team, c.by)
        BY <2>1 DEF Calls
    <2>3. call' = [call EXCEPT ![q] = c] /\ UNCHANGED proposal
        BY <1>4 DEF CheckVote, Begin, people
    <2> HIDE DEF c
    <2> QED
        BY <2>2, <2>3, VerdictBegin
<1>5. ASSUME NEW p \in Players, JoinOwn(p) \/ JoinTeam(p) PROVE VerdictInv'
    BY <1>5, VerdictEnd DEF JoinOwn, JoinTeam
<1>6. ASSUME NEW p \in Players, LeaveTeam(p) PROVE VerdictInv'
    BY <1>6, VerdictKept DEF LeaveTeam
<1>7. ASSUME NEW p \in Players, NEW x \in Targets, Attack(p, x) PROVE VerdictInv'
    BY <1>7, VerdictKept DEF Attack, people
<1>8. ASSUME ResolveMissions \/ ComputeTension \/ Notify \/ ClearDissolved \/ Restart
      PROVE  VerdictInv'
    BY <1>8, VerdictKept
    DEF ResolveMissions, ComputeTension, Notify, ClearDissolved, Restart, people
<1>9. ASSUME UNCHANGED vars PROVE VerdictInv'
    BY <1>9, VerdictKept DEF vars
<1> QED
    BY <1>1, <1>2, <1>3, <1>4, <1>5, <1>6, <1>7, <1>8, <1>9, VerdictPropose, VerdictInsert,
       VerdictCommit, VerdictResolve DEF Next

\* Whatever votes, expiries and failures interleave, a pending proposal that no
\* two voters decided at the same time is one the committed votes leave open.
THEOREM VerdictsArrive == Spec => []NoLostVerdict
<1>1. Init => VerdictInv
    BY DEF Init, VerdictInv, VotesKnown, VerdictSound, Pending
<1>2. VerdictInv => NoLostVerdict
    BY DEF VerdictInv, VerdictSound, Undecided, NoLostVerdict
<1> QED
    BY <1>1, <1>2, AllianceTypes, VerdictStep, PTL DEF Spec

================================================================================
