CONSTANTS
  None = None
  p1 = p1
  p2 = p2
  p3 = p3
  p4 = p4
  Players <- FourPlayers
  Teams <- OneTeam
  Targets <- OneTarget
  MaxTeamSize = 3
  ProposalExpiry = 1
  OpenCycles = 1
  FightCycles = 1
  Threshold = 1
  Rise = 2
  Decay = 1
  MaxTension = 2
  MaxCalls = 2
  MaxRequests = 6
  MaxProposals = 1
  MaxFaults = 1
SPECIFICATION Spec
SYMMETRY Symmetric
INVARIANTS
  AllianceTypeOK
  NoLostVerdict
  DissolvedIsEmpty
  TeamFits
CHECK_DEADLOCK FALSE
