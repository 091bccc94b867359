-------------------------- MODULE MCEpochMissions --------------------------
(***************************************************************************)
(* EpochMissions for TLC: one simulation with an agent attacks another     *)
(* with a zone.                                                            *)
(***************************************************************************)
EXTENDS EpochMissions, TLC

CONSTANTS raider, victim, agent, square, r1, r2

OwnerOf == agent :> raider
HomeOf  == square :> victim
MediumZone == square :> "medium"
HighZone == square :> "high"
Alike == Permutations(Request)

=============================================================================
