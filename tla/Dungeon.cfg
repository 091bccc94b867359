CONSTANTS
  None = None
  Bosses <- BossRoom
  LastRoom = 1
  MaxRounds = 2
  Items <- OneItem
  MaxFaults = 2
  MaxCalls = 2
SPECIFICATION Spec
INVARIANTS
  ClientTypeOK
  LootOnce
  OutcomesOnce
  EndedRunStaysEnded
  SavedUnlessDirty
  PhaseHasTimer
  SubmittingMeansWaiting
  ForgottenOnlyWhenOver
PROPERTIES
  RoundsInOrder
CONSTRAINT UpToTheGaps
CHECK_DEADLOCK FALSE
