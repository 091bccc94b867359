---------------------------- MODULE EpochTurns ----------------------------
(***************************************************************************)
(* What the scheduler promises of an epoch that nobody resolves by hand: a *)
(* game in turns.  A turn is open until its deadline is claimed; then it   *)
(* is closed, and somebody moves the epoch on to the next turn, which is   *)
(* reopened only by whoever began it.  What a turn has brought (missions,  *)
(* bots, scores) is played out while the next one is open already, at most *)
(* once, or lost.                                                          *)
(***************************************************************************)
EXTENDS EpochPhase

CONSTANT AutoResolve

VARIABLES
    status,     \* the phase
    turn,       \* the number of the turn
    open,       \* a deadline stands
    instances,  \* the cloned simulations
    due,        \* turns begun whose predecessor is still to be played out
    played      \* those of which it has been

turns == <<status, turn, open, instances, due, played>>

Init ==
    /\ status = "foundation" /\ turn = 1 /\ open = AutoResolve
    /\ instances = "active" /\ due = {} /\ played = {}

Close ==
    /\ open /\ status \in ActiveStatus
    /\ open' = FALSE
    /\ UNCHANGED <<status, turn, instances, due, played>>

\* The next turn begins, in the phase it belongs to, or (its status being
\* written afterwards) still in the last one.
NextTurn ==
    /\ ~open /\ status \in ActiveStatus
    /\ turn' = turn + 1
    /\ status' \in {status, PhaseAfter(status, turn + 1)}
    /\ due' = due \cup {turn + 1}
    /\ UNCHANGED <<open, instances, played>>

EnterPhase ==
    /\ ~open /\ turn \in due
    /\ status' = PhaseAfter(status, turn)
    /\ UNCHANGED <<turn, open, instances, due, played>>

\* The last phase is over.
Archive ==
    /\ status = "completed" /\ turn \in due
    /\ instances' = "archived"
    /\ UNCHANGED <<status, turn, open, due, played>>

Reopen ==
    /\ ~open /\ status \in ActiveStatus /\ turn \in due
    /\ open' = TRUE
    /\ UNCHANGED <<status, turn, instances, due, played>>

PlayOut(n) ==
    /\ n \in due
    /\ due' = due \ {n} /\ played' = played \cup {n}
    /\ UNCHANGED <<status, turn, open, instances>>

\* A call fails, the process restarts, or a timer cancels its own task.
Lose(lost) ==
    /\ due' = due \ lost
    /\ UNCHANGED <<status, turn, open, instances, played>>

Next ==
    \/ Close \/ NextTurn \/ EnterPhase \/ Archive \/ Reopen
    \/ \E n \in due : PlayOut(n)
    \/ \E lost \in SUBSET due : Lose(lost)

Spec == Init /\ [][Next]_turns

=============================================================================
