------------------------------ MODULE MCDungeon -------------------------------
EXTENDS DungeonClient

\* One room, the boss's, and one item of distributable loot.
BossRoom == {1}
OneItem == {"relic"}

\* Once memory was lost inside begin_distribution, or GET has stored an
\* instance over the one being played, the properties promise nothing: those
\* states are checked, and their successors are left out.
UpToTheGaps == ~raced /\ ~torn

===============================================================================
