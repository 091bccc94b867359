---------------------------- MODULE MCEpochCycle ----------------------------
(***************************************************************************)
(* EpochCycle for TLC: the shortest epoch EpochConfig allows (one cycle of *)
(* foundation, two of reckoning, one between), so that its four cycles     *)
(* pass through every phase.                                               *)
(***************************************************************************)
EXTENDS EpochCycle, TLC

CONSTANTS r1, r2, h1, h2

NoRequest  == {}
OneRequest == {r1}
TwoRequests == {r1, r2}
OnePlayer  == {h1}
TwoPlayers == {h1, h2}

\* The state without the variables that only record what happened (and the
\* cycle a deadline was written for): no action reads them, so a run whose
\* properties do not read them either may identify states that differ there.
WithoutHistory == <<status, current_cycle, deadline.state, players, instances,
                    pc, loc, faults, legacy>>

Symmetric == Permutations(Request) \cup Permutations(Player)

=============================================================================
