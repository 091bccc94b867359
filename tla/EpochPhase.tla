---------------------------- MODULE EpochPhase ----------------------------
(***************************************************************************)
(* The phases of an epoch: which phase a cycle number falls into, and      *)
(* which status changes the database lets through.                         *)
(*                                                                         *)
(* The phase boundaries come from EpochConfig (backend/models/epoch.py).   *)
(* Only absolute cycle counts are modelled: the percentage form is read    *)
(* from configurations older than the two *_cycles fields.                 *)
(***************************************************************************)
EXTENDS Integers

CONSTANTS
    FoundationCycles,   \* config.foundation_cycles
    ReckoningCycles,    \* config.reckoning_cycles
    TotalCycles         \* (duration_days * 24) // cycle_hours

\* EpochConfig's field bounds (foundation >= 1, reckoning >= 2), and the
\* overlap check of start_epoch, without which no epoch leaves the lobby.
ASSUME PhaseAssumption ==
    /\ FoundationCycles \in Nat /\ FoundationCycles >= 1
    /\ ReckoningCycles \in Nat /\ ReckoningCycles >= 2
    /\ TotalCycles \in Nat
    /\ FoundationCycles + ReckoningCycles < TotalCycles

ActiveStatus == {"foundation", "competition", "reckoning"}
Status == ActiveStatus \cup {"lobby", "completed", "cancelled"}

ReckoningStart == TotalCycles - ReckoningCycles

\* Mutant of PhaseAfter: the foundation runs one cycle too long.
PhaseAfterLate(s, n) ==
    CASE s = "foundation"  /\ n > FoundationCycles + 1 -> "competition"
      [] s = "competition" /\ n > ReckoningStart       -> "reckoning"
      [] s = "reckoning"   /\ n >= TotalCycles         -> "completed"
      [] OTHER                                         -> s

\* The status an epoch in status s takes when its cycle counter becomes n.
PhaseAfter(s, n) ==
    CASE s = "foundation"  /\ n > FoundationCycles -> "competition"
      [] s = "competition" /\ n > ReckoningStart   -> "reckoning"
      [] s = "reckoning"   /\ n >= TotalCycles     -> "completed"
      [] OTHER                                     -> s

\* advance_phase's table: what the creator's "next phase" button asks for.
NextPhase ==
    [s \in ActiveStatus |->
        CASE s = "foundation"  -> "competition"
          [] s = "competition" -> "reckoning"
          [] s = "reckoning"   -> "completed"]

\* The trigger validate_epoch_status_change on game_epochs: an UPDATE that
\* leaves the status alone passes, a change must follow the table.
AllowsStatus(old, new) ==
    \/ old = new
    \/ old = "lobby" /\ new \in {"foundation", "cancelled"}
    \/ old \in ActiveStatus /\ new \in {NextPhase[old], "cancelled"}

\* Status s does not lag behind cycle n: the phase n belongs to has begun.
InStep(s, n) ==
    /\ s = "foundation"  => n <= FoundationCycles
    /\ s = "competition" => n <= ReckoningStart
    /\ s = "reckoning"   => n < TotalCycles

=============================================================================
