------------------------------ MODULE EpochAlliance ------------------------------
(***************************************************************************)
(* The alliances of an epoch: epoch_participation_service.py (teams),      *)
(* alliance_service.py (proposals, votes, tension), the trigger and        *)
(* functions of migrations 090, 213 and 233, and the stages of the         *)
(* resolution pipeline that touch them.                                    *)
(*                                                                         *)
(* A request is a check and a write with other requests in between; a vote *)
(* is a transaction whose trigger counts what is committed when it runs.   *)
(***************************************************************************)
EXTENDS Integers, FiniteSets

CONSTANTS
  None,
  Players,
  Teams,
  Targets,                    \* simulations the players attack
  MaxTeamSize,                \* config max_team_size
  ProposalExpiry,             \* config proposal_expiry_cycles
  OpenCycles, FightCycles,    \* lobby and foundation; competition
  Threshold, Rise, Decay,     \* of tension: 80, 10 and 5 in the code
  MaxTension,                 \* its clamp, 100
  MaxCalls,                   \* bound: requests under way
  MaxRequests,                \* bound: requests in all
  MaxProposals,               \* bound: proposals of one player to one team
  MaxFaults                   \* bound: stages that fail

ASSUME AllianceAssumption ==
  /\ IsFiniteSet(Players) /\ IsFiniteSet(Targets) /\ None \notin Teams
  /\ MaxTeamSize \in Nat \ {0} /\ ProposalExpiry \in Nat \ {0}
  /\ OpenCycles \in Nat \ {0} /\ FightCycles \in Nat
  /\ Decay \in Nat /\ Rise \in Nat /\ Threshold \in Nat \ {0}
  /\ MaxTension \in Nat /\ Threshold <= MaxTension
  /\ MaxCalls \in Nat /\ MaxRequests \in Nat /\ MaxProposals \in Nat /\ MaxFaults \in Nat

VARIABLES
  cycle,      \* game_epochs.current_cycle
  team,       \* player -> epoch_participants.team_id
  teams,      \* team -> "none", "active" or "dissolved"
  tension,    \* team -> epoch_teams.tension
  proposal,   \* team -> proposer -> their latest proposal, or None
  call,       \* player -> the request that has passed its checks, or None
  requests,   \* requests so far
  attacks,    \* missions that the next count of overlaps finds: who, on whom
  stage,      \* of the pipeline
  crowded,    \* ghost: full teams somebody was put on without another look
  strays,     \* ghost: players put on a team that was dissolved already
  leftover,   \* ghost: a pipeline has not cleared what it should have
  faults

people == <<team, teams, proposal, crowded, strays>>
vars == <<cycle, team, teams, tension, proposal, call, requests, attacks, stage,
          crowded, strays, leftover, faults>>

LastCycle == OpenCycles + FightCycles + 1

\* The status the cycle number stands for.
Status == IF cycle <= OpenCycles THEN "foundation"
          ELSE IF cycle <= OpenCycles + FightCycles THEN "competition" ELSE "reckoning"

Stages == {"idle", "missions", "tension", "notify", "clear"}
Choice == {"none", "accept", "reject"}
Proposals == [nth : Nat \ {0}, status : {"pending", "accepted", "rejected", "expired"},
              required : 0..Cardinality(Players), expires : Nat,
              vote : [Players -> Choice], torn : BOOLEAN]
Calls == [op : {"create", "join"}, team : Teams]
           \cup [op : {"propose"}, team : Teams, size : 0..Cardinality(Players), cycle : Nat]
           \cup [op : {"vote"}, team : Teams, by : Players, nth : Nat \ {0}]
           \cup [op : {"commit"}, team : Teams, by : Players, nth : Nat \ {0}, vote : {"accept", "reject"},
                 verdict : {"pending", "accepted", "rejected"}]

ASSUME NoneAssumption == None \notin Proposals

AllianceTypeOK ==
  /\ cycle \in 1..LastCycle
  /\ team \in [Players -> Teams \cup {None}]
  /\ teams \in [Teams -> {"none", "active", "dissolved"}]
  /\ tension \in [Teams -> 0..MaxTension]
  /\ proposal \in [Teams -> [Players -> Proposals \cup {None}]]
  /\ call \in [Players -> Calls \cup {None}] /\ requests \in 0..MaxRequests
  /\ attacks \subseteq Players \X Targets
  /\ stage \in Stages
  /\ crowded \subseteq Teams /\ strays \subseteq Players
  /\ leftover \in BOOLEAN /\ faults \in 0..MaxFaults

Init ==
  /\ cycle = 1
  /\ team = [p \in Players |-> None]
  /\ teams = [t \in Teams |-> "none"]
  /\ tension = [t \in Teams |-> 0]
  /\ proposal = [t \in Teams |-> [p \in Players |-> None]]
  /\ call = [p \in Players |-> None] /\ requests = 0
  /\ attacks = {}
  /\ stage = "idle"
  /\ crowded = {} /\ strays = {} /\ leftover = FALSE /\ faults = 0

Members(t) == {p \in Players : team[p] = t}

Asked == requests < MaxRequests /\ requests' = requests + 1

Begin(p, c) ==
  /\ call[p] = None
  /\ Cardinality({q \in Players : call[q] # None}) < MaxCalls
  /\ Asked
  /\ call' = [call EXCEPT ![p] = c]

End(p) == call' = [call EXCEPT ![p] = None]

\* An UPDATE of a participant's team_id.
PutOn(p, t) ==
  /\ team' = [team EXCEPT ![p] = t]
  /\ strays' = IF teams[t] = "dissolved" THEN strays \cup {p} ELSE strays \ {p}

\* One that is made on the strength of an earlier look at the team.
PutLate(p, t) ==
  /\ PutOn(p, t)
  /\ crowded' = IF team[p] # t /\ Cardinality(Members(t)) >= MaxTeamSize
                THEN crowded \cup {t} ELSE crowded

(***************************************************************************)
(* Teams                                                                   *)
(***************************************************************************)

\* create_team: the team is inserted, and its creator put on it afterwards.
CreateTeam(p, t) ==
  /\ Status # "reckoning"
  /\ teams[t] = "none"
  /\ teams' = [teams EXCEPT ![t] = "active"]
  /\ Begin(p, [op |-> "create", team |-> t])
  /\ UNCHANGED <<cycle, team, tension, proposal, attacks, stage, crowded, strays, leftover, faults>>

JoinOwn(p) ==
  /\ call[p] # None /\ call[p].op = "create"
  /\ PutLate(p, call[p].team)
  /\ End(p)
  /\ UNCHANGED <<cycle, teams, tension, proposal, attacks, stage, leftover, faults, requests>>

\* join_team up to its RPC.
RequestJoin(p, t) ==
  /\ Status = "foundation"
  /\ teams[t] # "none"
  /\ Begin(p, [op |-> "join", team |-> t])
  /\ UNCHANGED <<cycle, people, tension, attacks, stage, leftover, faults>>

\* Mutant of JoinTeam: the size is not looked at again under the lock.
JoinTeamUnchecked(p) ==
  /\ call[p] # None /\ call[p].op = "join"
  /\ IF teams[call[p].team] = "active"
     THEN PutOn(p, call[p].team) ELSE UNCHANGED <<team, strays>>
  /\ End(p)
  /\ UNCHANGED <<cycle, teams, tension, proposal, attacks, stage, crowded, leftover, faults, requests>>

\* fn_join_team_checked, which holds the team's row.
JoinTeam(p) ==
  /\ call[p] # None /\ call[p].op = "join"
  /\ LET t == call[p].team IN
     IF teams[t] = "active" /\ Cardinality(Members(t)) < MaxTeamSize
     THEN PutOn(p, t) ELSE UNCHANGED <<team, strays>>
  /\ End(p)
  /\ UNCHANGED <<cycle, teams, tension, proposal, attacks, stage, crowded, leftover, faults, requests>>

\* leave_team
LeaveTeam(p) ==
  /\ call[p] = None /\ team[p] # None
  /\ Asked
  /\ team' = [team EXCEPT ![p] = None]
  /\ strays' = strays \ {p}
  /\ UNCHANGED <<cycle, teams, tension, proposal, call, attacks, stage, crowded, leftover, faults>>

(***************************************************************************)
(* Proposals                                                               *)
(***************************************************************************)

\* How many proposals there have been.
Nth(t, p) == IF proposal[t][p] = None THEN 0 ELSE proposal[t][p].nth

\* create_proposal reads the epoch, the proposer, the team and its size.
CheckProposal(p, t) ==
  /\ Status # "reckoning"
  /\ team[p] = None /\ teams[t] = "active"
  /\ Cardinality(Members(t)) < MaxTeamSize
  /\ Nth(t, p) < MaxProposals
  /\ Begin(p, [op |-> "propose", team |-> t, size |-> Cardinality(Members(t)), cycle |-> cycle])
  /\ UNCHANGED <<cycle, people, tension, attacks, stage, leftover, faults>>

Pending(t, p) == proposal[t][p] # None /\ proposal[t][p].status = "pending"

\* And writes: a team of one takes the proposer at once, any other votes; a
\* second pending proposal is refused by the unique index.
Propose(p) ==
  /\ call[p] # None /\ call[p].op = "propose"
  /\ LET t == call[p].team IN
     IF call[p].size = 1
     THEN PutLate(p, t) /\ UNCHANGED proposal
     ELSE /\ proposal' = IF Pending(t, p) THEN proposal
                         ELSE [proposal EXCEPT ![t][p] =
                                [nth |-> Nth(t, p) + 1, status |-> "pending", required |-> call[p].size,
                                 expires |-> call[p].cycle + ProposalExpiry,
                                 vote |-> [q \in Players |-> "none"], torn |-> FALSE]]
          /\ UNCHANGED <<team, strays, crowded>>
  /\ End(p)
  /\ UNCHANGED <<cycle, teams, tension, attacks, stage, leftover, faults, requests>>

\* vote_on_proposal checks the proposal and the voter.
CheckVote(q, t, p) ==
  /\ Pending(t, p) /\ team[q] = t
  /\ Begin(q, [op |-> "vote", team |-> t, by |-> p, nth |-> Nth(t, p)])
  /\ UNCHANGED <<cycle, people, tension, attacks, stage, leftover, faults>>

Uncommitted(t, p) ==
  {q \in Players : call[q] # None /\ call[q].op = "commit"
                     /\ call[q].team = t /\ call[q].by = p /\ call[q].nth = Nth(t, p)}

Accepts(pr) == {q \in Players : pr.vote[q] = "accept"}
Rejects(pr) == {q \in Players : pr.vote[q] = "reject"}

\* Mutant of Verdict: unanimity is missed by one.
VerdictTooStrict(pr) ==
  IF pr.status # "pending" THEN "pending"
  ELSE IF Cardinality(Accepts(pr)) > pr.required THEN "accepted"
  ELSE IF Rejects(pr) # {} THEN "rejected" ELSE "pending"

\* fn_resolve_alliance_proposal: what the trigger is going to write, with the
\* votes it sees; "pending" for nothing.
Verdict(pr) ==
  IF pr.status # "pending" THEN "pending"
  ELSE IF Cardinality(Accepts(pr)) >= pr.required THEN "accepted"
  ELSE IF Rejects(pr) # {} THEN "rejected" ELSE "pending"

\* The vote is inserted, if row-level security and the unique key admit it,
\* and the trigger counts: this vote and those committed.  A vote for a
\* proposal that is not the latest any more was decided, and changes nothing.
InsertVote(q) ==
  /\ call[q] # None /\ call[q].op = "vote"
  /\ LET t == call[q].team
         p == call[q].by
         pr == proposal[t][p]
     IN IF team[q] # t \/ call[q].nth # Nth(t, p) \/ pr.vote[q] # "none"
        THEN End(q) /\ UNCHANGED proposal
        ELSE \E v \in {"accept", "reject"} :
               /\ call' = [call EXCEPT ![q] =
                    [op |-> "commit", team |-> t, by |-> p, nth |-> pr.nth, vote |-> v,
                     verdict |-> Verdict([pr EXCEPT !.vote[q] = v])]]
               /\ proposal' = IF Uncommitted(t, p) = {} THEN proposal
                              ELSE [proposal EXCEPT ![t][p].torn = TRUE]
  /\ UNCHANGED <<cycle, team, teams, tension, attacks, stage, crowded, strays, leftover, faults, requests>>

\* The transaction commits; its updates look at nothing but the ids.
CommitVote(q) ==
  /\ call[q] # None /\ call[q].op = "commit"
  /\ LET t == call[q].team
         p == call[q].by
         verdict == call[q].verdict
     IN /\ proposal' = IF call[q].nth # Nth(t, p) THEN proposal
                       ELSE [proposal EXCEPT ![t][p].vote[q] = call[q].vote,
                              ![t][p].status = IF verdict = "pending" THEN @ ELSE verdict]
        /\ IF verdict = "accepted" THEN PutLate(p, t)
           ELSE UNCHANGED <<team, strays, crowded>>
  /\ End(q)
  /\ UNCHANGED <<cycle, teams, tension, attacks, stage, leftover, faults, requests>>

(***************************************************************************)
(* The pipeline                                                            *)
(***************************************************************************)

\* A player sends an operative.  The count goes by the cycle number that the
\* pipeline has just begun: it finds only what was sent since (by the bots, or
\* while the pipeline runs), all of it taken here to be sent just before.
Attack(p, x) ==
  /\ Status = "competition" /\ stage = "tension"
  /\ attacks' = attacks \cup {<<p, x>>}
  /\ UNCHANGED <<cycle, people, tension, call, stage, leftover, faults, requests>>

\* resolve_cycle has advanced the cycle, whose number the stages use from here
\* on; pending proposals expire (unless that call fails).
Resolve ==
  /\ stage = "idle" /\ cycle < LastCycle
  /\ cycle' = cycle + 1
  /\ stage' = "missions"
  /\ \/ /\ proposal' = [t \in Teams |-> [p \in Players |->
             IF Pending(t, p) /\ proposal[t][p].expires <= cycle + 1
             THEN [proposal[t][p] EXCEPT !.status = "expired"] ELSE proposal[t][p]]]
        /\ UNCHANGED faults
     \/ /\ faults < MaxFaults /\ faults' = faults + 1
        /\ UNCHANGED proposal
  /\ UNCHANGED <<team, teams, tension, call, attacks, crowded, strays, leftover, requests>>

\* Missions, fortifications, bots and scores.  When the missions failed there
\* is no tension, and nothing is cleared.
ResolveMissions ==
  /\ stage = "missions"
  /\ \/ stage' = "tension" /\ UNCHANGED faults
     \/ /\ faults < MaxFaults /\ faults' = faults + 1
        /\ stage' = "idle"
  /\ UNCHANGED <<cycle, people, tension, call, attacks, leftover, requests>>

\* Mutant of Clamped: tension falls without end.
ClampedAbove(n) == IF n > MaxTension THEN MaxTension ELSE n

Clamped(n) == IF n < 0 THEN 0 ELSE IF n > MaxTension THEN MaxTension ELSE n

\* Targets that two members of the team attack.
Overlaps(t) ==
  Cardinality({x \in Targets :
    Cardinality({p \in Members(t) : <<p, x>> \in attacks}) >= 2})

\* Mutant of ComputeTension: the team's end is left to the next cleanup.
ComputeTensionNoClear ==
  /\ stage = "tension"
  /\ LET new == [t \in Teams |-> IF teams[t] = "active"
                   THEN Clamped(tension[t] + Rise * Overlaps(t) - Decay) ELSE tension[t]]
     IN /\ tension' = new
        /\ teams' = [t \in Teams |-> IF teams[t] = "active" /\ new[t] >= Threshold
                                     THEN "dissolved" ELSE teams[t]]
  /\ stage' = "idle" /\ attacks' = {}
  /\ UNCHANGED <<cycle, team, proposal, call, crowded, strays, leftover, faults, requests>>

\* fn_compute_alliance_tension and the trigger that dissolves; if it fails,
\* nothing is cleared.
ComputeTension ==
  /\ stage = "tension"
  /\ \/ /\ LET new == [t \in Teams |-> IF teams[t] = "active"
                         THEN Clamped(tension[t] + Rise * Overlaps(t) - Decay)
                         ELSE tension[t]]
           IN /\ tension' = new
              /\ teams' = [t \in Teams |-> IF teams[t] = "active" /\ new[t] >= Threshold
                                           THEN "dissolved" ELSE teams[t]]
        /\ stage' = "notify"
        /\ UNCHANGED faults
     \/ /\ faults < MaxFaults /\ faults' = faults + 1
        /\ stage' = "idle"
        /\ UNCHANGED <<tension, teams>>
  /\ attacks' = {}
  /\ UNCHANGED <<cycle, team, proposal, call, crowded, strays, leftover, requests>>

\* The notifications read the members, dissolved teams included.
Notify ==
  /\ stage = "notify"
  /\ stage' = "clear"
  /\ UNCHANGED <<cycle, people, tension, call, attacks, leftover, faults, requests>>

\* clear_dissolved_team_ids
ClearDissolved ==
  /\ stage = "clear"
  /\ \/ /\ team' = [p \in Players |-> IF team[p] # None /\ teams[team[p]] = "dissolved"
                                      THEN None ELSE team[p]]
        /\ strays' = {} /\ leftover' = FALSE
        /\ UNCHANGED faults
     \/ /\ faults < MaxFaults /\ faults' = faults + 1
        /\ leftover' = TRUE
        /\ UNCHANGED <<team, strays>>
  /\ stage' = "idle"
  /\ UNCHANGED <<cycle, teams, tension, proposal, call, attacks, crowded, requests>>

\* The process stops in the middle of a pipeline.
Restart ==
  /\ stage # "idle"
  /\ faults < MaxFaults /\ faults' = faults + 1
  /\ stage' = "idle" /\ attacks' = {}
  /\ leftover' = (leftover \/ stage \in {"notify", "clear"})
  /\ UNCHANGED <<cycle, people, tension, call, requests>>

Next ==
  \/ \E p \in Players, t \in Teams :
       CreateTeam(p, t) \/ RequestJoin(p, t) \/ CheckProposal(p, t)
  \/ \E p \in Players : JoinOwn(p) \/ JoinTeam(p) \/ LeaveTeam(p) \/ Propose(p)
  \/ \E q, p \in Players, t \in Teams : CheckVote(q, t, p)
  \/ \E q \in Players : InsertVote(q) \/ CommitVote(q)
  \/ \E p \in Players, x \in Targets : Attack(p, x)
  \/ Resolve \/ ResolveMissions \/ ComputeTension \/ Notify \/ ClearDissolved
  \/ Restart

Spec == Init /\ [][Next]_vars

(***************************************************************************)
(* Properties                                                              *)
(***************************************************************************)

\* A proposal on which every member of its quorum has agreed, or one member
\* has not, is decided: it never stays pending until it expires.  Excepted are
\* proposals on which two votes were in transactions at the same time (neither
\* counts the other) and those of a team that had no member left to vote.
NoLostVerdict ==
  \A t \in Teams, p \in Players :
    LET pr == proposal[t][p] IN
    Pending(t, p) /\ ~pr.torn =>
      Rejects(pr) = {} /\ (pr.required > 0 => Cardinality(Accepts(pr)) < pr.required)

\* Between two pipelines nobody is on a dissolved team, which would bar them
\* from every other alliance.  Excepted are a cleanup that failed and players
\* whom a request put on a team after it had been dissolved.
DissolvedIsEmpty ==
  stage = "idle" /\ ~leftover =>
    \A p \in Players : team[p] # None /\ teams[team[p]] = "dissolved" => p \in strays

\* A team has at most max_team_size members, however many joins run at once,
\* unless it was full when a proposal was accepted for it, or when its creator
\* was put on it at last: neither the trigger nor the shortcut for teams of
\* one nor create_team looks at the size again.
TeamFits ==
  \A t \in Teams \ crowded : Cardinality(Members(t)) <= MaxTeamSize

===============================================================================
