------------------------------ MODULE MCAlliance ------------------------------
EXTENDS EpochAlliance, TLC

CONSTANTS p1, p2, p3, p4

\* Three places in one team for four players, and one target: two cycles of
\* overlapping attacks dissolve the team.
FourPlayers == {p1, p2, p3, p4}
OneTeam == {"t"}
OneTarget == {"x"}

Symmetric == Permutations(FourPlayers)

===============================================================================
