----------------------------- MODULE DungeonClient -----------------------------
(***************************************************************************)
(* The browser's half of a dungeon run, composed with the server of module *)
(* DungeonRun: DungeonStateManager.ts (the signals, the countdown and its  *)
(* automatic submission, the recovery after a page reload, the check when  *)
(* the tab comes back) and the terminal commands of dungeon-commands.ts.   *)
(*                                                                         *)
(* Up to three calls are under way at a time: a command, an automatic      *)
(* submission and a GET of the state.  Their answers come in any order.    *)
(***************************************************************************)
EXTENDS DungeonRun

CONSTANTS MaxCalls      \* bound: calls under way at a time

ASSUME CallsAssumption == MaxCalls \in Nat \ {0}

VARIABLES
  runId,       \* a run is active on this page (runId, clientState)
  saved,       \* localStorage holds the run's id
  view,        \* clientState: what the last applied answer showed
  countdown,   \* _timerInterval is running
  fired,       \* _autoSubmitFired
  submitting,  \* combatSubmitting
  doing        \* slot -> what the call under way is for, or None

client == <<runId, saved, view, countdown, fired, submitting>>
serverVars == <<mem, dirty, combatTimer, distTimer, job, reader, db,
                restored, untimed, torn, raced, last>>
allVars == <<vars, client, doing>>

Purposes == Posts \cup {"auto", "fallback", "validate", "recover"}

ASSUME NoPurposeAssumption == None \notin Purposes

ClientTypeOK ==
  /\ TypeOK
  /\ runId \in BOOLEAN /\ saved \in BOOLEAN
  /\ view \in Views \cup {None}
  /\ countdown \in BOOLEAN /\ fired \in BOOLEAN /\ submitting \in BOOLEAN
  /\ doing \in [Slots -> Purposes \cup {None}]

\* startDungeonRun has applied the state of the new run.
ClientInit ==
  /\ Init
  /\ runId = TRUE /\ saved = TRUE
  /\ view = View(Entrance)
  /\ countdown = FALSE /\ fired = FALSE /\ submitting = FALSE
  /\ doing = [s \in Slots |-> None]

Over == {"completed", "wiped"}

(***************************************************************************)
(* The state manager's entry points                                        *)
(***************************************************************************)

\* applyState: the answer replaces the state whatever the page showed before.
\* A planning phase starts the countdown, unless its time is over already.
ApplyState(v) ==
  /\ view' = v
  /\ runId' = TRUE
  /\ saved' = TRUE
  /\ countdown' \in (IF v.phase = "combat_planning" THEN BOOLEAN ELSE {FALSE})
  /\ fired' = (fired /\ ~countdown')

\* clear(), and _exitDungeon.
Clear ==
  /\ view' = None
  /\ runId' = FALSE
  /\ saved' = FALSE
  /\ countdown' = FALSE
  /\ submitting' = FALSE
  /\ UNCHANGED fired

\* A call leaves the page.
Call(s, what, op) ==
  /\ doing[s] = None
  /\ Cardinality({r \in Slots : doing[r] # None}) < MaxCalls
  /\ doing' = [doing EXCEPT ![s] = what]
  /\ req' = [req EXCEPT ![s] = op]

\* Its answer is taken.
Take(s) ==
  /\ resp' = [resp EXCEPT ![s] = None]
  /\ doing' = [doing EXCEPT ![s] = None]

Arrived(s, what) == resp[s] # None /\ doing[s] = what

(***************************************************************************)
(* Commands                                                                *)
(***************************************************************************)

\* handleDungeonMove, -Submit, -Retreat, -Assign and -Confirm send what the
\* displayed state allows.
CommandAllowed(op) ==
  CASE op = "move" -> view.room < LastRoom
    [] op = "submit" -> view.phase = "combat_planning"
    [] op = "retreat" -> TRUE
    [] op \in {"assign", "confirm"} -> view.phase = "distributing"

Command(op) ==
  /\ runId
  /\ CommandAllowed(op)
  /\ Call("cmd", op, op)
  /\ submitting' = (submitting \/ op = "submit")
  /\ UNCHANGED <<resp, serverVars, faults, runId, saved, view, countdown, fired>>

\* The handler shows the answer; one that ends the run leaves the dungeon.
CommandAnswered ==
  \E op \in Posts :
    /\ Arrived("cmd", op)
    /\ LET answer == resp["cmd"]
           ended == answer.kind = "left"
                      \/ (answer.kind = "state" /\ answer.view.phase \in Over)
       IN \/ ended /\ Clear
          \/ /\ answer.kind = "state" /\ ~ended
             /\ ApplyState(answer.view)
             /\ submitting' = (submitting /\ op # "submit")
          \/ /\ answer.kind \in {"refused", "gone", "neterr"}
             /\ submitting' = (submitting /\ op # "submit")
             /\ UNCHANGED <<runId, saved, view, countdown, fired>>
    /\ Take("cmd")
  /\ UNCHANGED <<req, serverVars, faults>>

(***************************************************************************)
(* The countdown                                                           *)
(***************************************************************************)

\* tick reaches zero: _autoSubmitOnExpiry.
CountdownExpires ==
  /\ countdown
  /\ countdown' = FALSE
  /\ IF ~fired /\ ~submitting /\ runId /\ view.phase = "combat_planning"
     THEN /\ fired' = TRUE
          /\ submitting' = TRUE
          /\ Call("auto", "auto", "submit")
     ELSE UNCHANGED <<fired, submitting, doing, req>>
  /\ UNCHANGED <<resp, serverVars, faults, runId, saved, view>>

\* The automatic submission is answered: the state is applied or the dungeon
\* left; anything but a state is followed by a GET.
AutoAnswered ==
  /\ Arrived("auto", "auto")
  /\ LET answer == resp["auto"] IN
     \/ /\ answer.kind = "state" /\ answer.view.phase \in Over
        /\ Clear
        /\ Take("auto")
        /\ UNCHANGED req
     \/ /\ answer.kind = "state" /\ answer.view.phase \notin Over
        /\ ApplyState(answer.view)
        /\ submitting' = FALSE
        /\ Take("auto")
        /\ UNCHANGED req
     \/ /\ answer.kind # "state"
        /\ resp' = [resp EXCEPT !["auto"] = None]
        /\ doing' = [doing EXCEPT !["auto"] = "fallback"]
        /\ req' = [req EXCEPT !["auto"] = "get"]
        /\ UNCHANGED client
  /\ UNCHANGED <<serverVars, faults>>

\* Mutant of FallbackAnswered: the flag is put back only after a state.
FallbackLeavesFlag ==
  /\ Arrived("auto", "fallback")
  /\ IF resp["auto"].kind = "state"
     THEN ApplyState(resp["auto"].view) /\ submitting' = FALSE
     ELSE UNCHANGED client
  /\ Take("auto")
  /\ UNCHANGED <<req, serverVars, faults>>

\* The fallback's answer: a state is applied, even one that ends the run.
FallbackAnswered ==
  /\ Arrived("auto", "fallback")
  /\ IF resp["auto"].kind = "state"
     THEN ApplyState(resp["auto"].view)
     ELSE UNCHANGED <<runId, saved, view, countdown, fired>>
  /\ submitting' = FALSE
  /\ Take("auto")
  /\ UNCHANGED <<req, serverVars, faults>>

(***************************************************************************)
(* Coming back to the tab, and reloading the page                          *)
(***************************************************************************)

\* visibilitychange: validateActiveRun.
Validate ==
  /\ runId
  /\ Call("poll", "validate", "get")
  /\ UNCHANGED <<resp, serverVars, faults, client>>

\* A finished run, and every answer that is neither a state nor a network
\* error, clears the page.
ValidateAnswered ==
  /\ Arrived("poll", "validate")
  /\ LET answer == resp["poll"] IN
     \/ /\ answer.kind = "state" /\ answer.view.phase \notin Over
        /\ ApplyState(answer.view)
        /\ UNCHANGED submitting
     \/ /\ \/ answer.kind = "state" /\ answer.view.phase \in Over
           \/ answer.kind \in {"refused", "gone"}
        /\ Clear
     \/ /\ answer.kind = "neterr"
        /\ UNCHANGED client
  /\ Take("poll")
  /\ UNCHANGED <<req, serverVars, faults>>

\* The page is reloaded while the server works on none of its calls; answers
\* still on the way reach nobody.  tryRecover asks for the saved run.
Reload ==
  /\ Fault
  /\ \A s \in Slots : req[s] = None
  /\ resp' = [s \in Slots |-> None]
  /\ runId' = FALSE
  /\ view' = None
  /\ countdown' = FALSE /\ fired' = FALSE /\ submitting' = FALSE
  /\ doing' = [s \in Slots |-> IF s = "poll" /\ saved THEN "recover" ELSE None]
  /\ req' = [req EXCEPT !["poll"] = IF saved THEN "get" ELSE None]
  /\ UNCHANGED <<serverVars, saved>>

\* tryRecover's answer: anything but a state forgets the run.
RecoverAnswered ==
  /\ Arrived("poll", "recover")
  /\ IF resp["poll"].kind = "state"
     THEN ApplyState(resp["poll"].view)
     ELSE /\ saved' = FALSE
          /\ UNCHANGED <<runId, view, countdown, fired>>
  /\ Take("poll")
  /\ UNCHANGED <<req, submitting, serverVars, faults>>

\* The connection breaks before an answer arrives.
Drop(s) ==
  /\ Fault
  /\ resp[s] # None /\ resp[s].kind # "neterr"
  /\ resp' = [resp EXCEPT ![s] = [kind |-> "neterr"]]
  /\ UNCHANGED <<req, serverVars, client, doing>>

ClientStep ==
  \/ \E op \in Posts : Command(op)
  \/ CommandAnswered
  \/ CountdownExpires \/ AutoAnswered \/ FallbackAnswered
  \/ Validate \/ ValidateAnswered
  \/ Reload \/ RecoverAnswered
  \/ \E s \in Slots : Drop(s)

Next ==
  \/ ServerStep /\ UNCHANGED <<client, doing>>
  \/ ClientStep

Spec == ClientInit /\ [][Next]_allVars

(***************************************************************************)
(* Properties                                                              *)
(***************************************************************************)

\* combatSubmitting is only ever left on while a submission, or the GET that
\* follows a failed one, is under way: otherwise no button and no countdown
\* of the page could submit again.
SubmittingMeansWaiting == submitting => doing["cmd"] = "submit" \/ doing["auto"] # None

\* As long as nothing failed, the page gives a run up, and forgets its id,
\* only when the run is over in the database, or when the GET, which takes no
\* lock, has shown it the end of a handler that is about to commit it.
ForgottenOnlyWhenOver ==
  faults = 0 /\ ~raced /\ ~runId /\ ~saved =>
    db.status \notin Recoverable \/ (~NoJob /\ job.step \in {"complete", "wipe"})

===============================================================================
