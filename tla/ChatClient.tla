------------------------------- MODULE ChatClient -------------------------------
(***************************************************************************)
(* The agent chat of the browser: ChatWindow.ts (opening a conversation,   *)
(* sending, regenerating), ChatStreamConsumer.ts (the event stream of an   *)
(* answer), ChatSessionStore.ts (the messages shown) and the message       *)
(* channel of RealtimeService.ts, against the chat endpoints and the       *)
(* broadcast trigger of migration 179.                                     *)
(*                                                                         *)
(* A message reaches the screen along three ways that nothing orders: the  *)
(* answer of a GET, the event stream and the broadcast.                    *)
(***************************************************************************)
EXTENDS Integers, Sequences, FiniteSets, SequencesExt, Functions

CONSTANTS
  None,
  Conversations,
  MaxReplies,       \* bound: replies, the ones other tabs ask for included
  MaxSends,         \* bound: messages of the user before the last send
  MaxLoads,         \* bound: GETs under way when another conversation is opened
  MaxFaults         \* bound: broken connections and failed calls

ASSUME ChatAssumption ==
  /\ MaxReplies \in Nat /\ MaxSends \in Nat /\ MaxFaults \in Nat /\ MaxLoads \in Nat \ {0}
  /\ None \notin Conversations

VARIABLES
  log,        \* conversation -> every message ever inserted, oldest first
  deleted,    \* the messages a regeneration has deleted
  shown,      \* session.messages of the open conversation; the sessions of
              \* the others are cleared when they are opened, before they show
  conv,       \* the window's conversation (_previousConversationId)
  joined,     \* _currentConversationId: the message channel that is joined
  wire,       \* broadcasts on their way to the joined channel
  loading,    \* _loading, one flag for every load of the window
  loads,      \* the loads under way, oldest first
  send,       \* the send or regeneration under way (_sending), or None
  events,     \* its stream events on their way to the page
  lossy,      \* ghost: it may have lost a message in a known way
  faults

vars == <<log, deleted, shown, conv, joined, wire, loading, loads, send,
          events, lossy, faults>>
server == <<log, deleted>>
window == <<conv, joined>>

\* Temporary entries carry the number 0.
Optimistic(c) == [conv |-> c, n |-> 0, by |-> "user"]
Bound == MaxReplies + MaxSends + MaxFaults
Messages == [conv : Conversations, n : 1..Bound, by : {"user", "agent"}]

Inserted == UNION {ToSet(log[c]) : c \in Conversations}
Count(by) == Cardinality({m \in Inserted : m.by = by})

\* The entries of a list that are not among those, in their order.
Without(list, those) ==
  LET Kept[i \in 0..Len(list)] ==
        IF i = 0 THEN <<>>
        ELSE IF list[i] \in those THEN Kept[i - 1]
        ELSE Append(Kept[i - 1], list[i])
  IN  Kept[Len(list)]

\* The messages of a conversation as a GET returns them.
Saved(c) == Without(log[c], deleted)

Loads == [conv : Conversations, why : {"init", "send", "tail"},
          stage : {"asked", "served", "joining"},
          snap : Seq(Messages)]
Sends == [kind : {"send", "regenerate"}, conv : Conversations,
          phase : {"stream", "fallback", "reload"}, srv : {"save", "talk", "over"},
          since : 0..Bound, confirmed : BOOLEAN, errors : BOOLEAN,
          hadError : BOOLEAN]
ASSUME NoneAssumption == None \notin Sends
Events == [what : {"confirm", "reply"}, m : Messages]
            \cup [what : {"error", "end"}, m : {None}]

ChatTypeOK ==
  /\ log \in [Conversations -> Seq(Messages)]
  /\ \A c \in Conversations : \A m \in ToSet(log[c]) : m.conv = c
  /\ deleted \subseteq Inserted
  /\ conv \in Conversations \cup {None}
  /\ shown \in Seq({m \in Messages \cup {Optimistic(conv)} : m.conv = conv})
  /\ joined \in Conversations \cup {None}
  /\ wire \subseteq Inserted
  /\ loading \in BOOLEAN
  /\ loads \in Seq(Loads)
  /\ send \in Sends \cup {None}
  /\ events \in Seq(Events)
  /\ lossy \in BOOLEAN
  /\ faults \in 0..MaxFaults

Init ==
  /\ log = [c \in Conversations |-> <<>>] /\ deleted = {}
  /\ shown = <<>>
  /\ conv = None /\ joined = None /\ wire = {}
  /\ loading = FALSE /\ loads = <<>>
  /\ send = None /\ events = <<>>
  /\ lossy = FALSE /\ faults = 0

Fault == faults < MaxFaults /\ faults' = faults + 1

(***************************************************************************)
(* ChatSessionStore                                                        *)
(***************************************************************************)

\* addMessage on a list of messages.
Added(list, m) == IF m \in ToSet(list) THEN list ELSE Append(list, m)

\* removeOptimistic
Removed(list, c) == Without(list, {Optimistic(c)})

\* Mutant of Confirmed: the broadcast that came first is overlooked.
ConfirmedBlindly(list, c, m) ==
  [i \in DOMAIN list |-> IF list[i] = Optimistic(c) THEN m ELSE list[i]]

\* confirmOptimistic
Confirmed(list, c, m) ==
  IF m \in ToSet(list) THEN Removed(list, c)
  ELSE [i \in DOMAIN list |-> IF list[i] = Optimistic(c) THEN m ELSE list[i]]

(***************************************************************************)
(* The server                                                              *)
(***************************************************************************)

NewMessage(c, by) == [conv |-> c, n |-> Len(log[c]) + 1, by |-> by]

\* A row is inserted, and the trigger broadcasts it.
Insert(m) ==
  /\ log' = [log EXCEPT ![m.conv] = Append(@, m)]
  /\ wire' = IF joined = m.conv THEN wire \cup {m} ELSE wire

\* There is a message of the user to answer.
Answerable(c) == \E m \in ToSet(log[c]) : m.by = "user"

\* stream_regenerate deletes the replies after the last message of the user.
TrailingReplies(c) ==
  {log[c][i] : i \in {j \in DOMAIN log[c] :
      \A k \in j..Len(log[c]) : log[c][k].by = "agent"}}

\* Another tab, or a handler whose client is gone, saves a reply in the open
\* conversation.  (In a closed one it might as well come after its opening.)
Elsewhere ==
  /\ conv # None /\ Count("agent") < MaxReplies
  /\ Insert(NewMessage(conv, "agent"))
  /\ UNCHANGED <<deleted, shown, window, loading, loads, send, events, lossy, faults>>

Emit(what, m) == events' = Append(events, [what |-> what, m |-> m])

\* stream_message saves the user's message and confirms it; the regeneration
\* deletes the replies it is to replace, or finds nothing to answer; the
\* fallback POST saves the message.
ServerSaves ==
  /\ send # None /\ send.srv = "save" /\ send.phase # "reload"
  /\ LET c == send.conv
         m == NewMessage(c, "user")
     IN \/ /\ send.kind = "send"
           /\ Insert(m)
           /\ IF send.phase = "stream" THEN Emit("confirm", m) ELSE UNCHANGED events
           /\ send' = [send EXCEPT !.srv = "talk"]
           /\ UNCHANGED deleted
        \/ /\ send.kind = "regenerate" /\ Answerable(c)
           /\ deleted' = deleted \cup TrailingReplies(c)
           /\ send' = [send EXCEPT !.srv = "talk"]
           /\ UNCHANGED <<log, wire, events>>
        \/ /\ send.kind = "regenerate" /\ ~Answerable(c)
           /\ Emit("error", None)
           /\ send' = [send EXCEPT !.srv = "talk", !.errors = TRUE]
           /\ UNCHANGED <<server, wire>>
  /\ UNCHANGED <<shown, window, loading, loads, lossy, faults>>

\* An agent's reply is saved, and told to a stream.
ServerReplies ==
  /\ send # None /\ send.srv = "talk" /\ send.phase # "reload"
  /\ Answerable(send.conv) /\ Count("agent") < MaxReplies
  /\ LET m == NewMessage(send.conv, "agent") IN
     /\ Insert(m)
     /\ IF send.phase = "stream" THEN Emit("reply", m) ELSE UNCHANGED events
  /\ UNCHANGED <<deleted, shown, window, loading, loads, send, lossy, faults>>

\* An agent could not answer.
ServerErrs ==
  /\ send # None /\ send.srv = "talk" /\ send.phase = "stream" /\ ~send.errors
  /\ send' = [send EXCEPT !.errors = TRUE]
  /\ Emit("error", None)
  /\ UNCHANGED <<server, wire, shown, window, loading, loads, lossy, faults>>

\* The stream ends.
ServerEnds ==
  /\ send # None /\ send.srv = "talk" /\ send.phase = "stream"
  /\ send' = [send EXCEPT !.srv = "over"]
  /\ Emit("end", None)
  /\ UNCHANGED <<server, wire, shown, window, loading, loads, lossy, faults>>

\* The GET of a load reads the conversation.
LoadServed(i) ==
  /\ i \in DOMAIN loads /\ loads[i].stage = "asked"
  /\ loads' = [loads EXCEPT ![i].stage = "served", ![i].snap = Saved(loads[i].conv)]
  /\ UNCHANGED <<server, shown, window, wire, loading, send, events, lossy, faults>>

(***************************************************************************)
(* Loading and joining                                                     *)
(***************************************************************************)

Asked(c, why) == [conv |-> c, why |-> why, stage |-> "asked", snap |-> <<>>]

\* _loadMessages up to its await, for each of whys; c is open.
StartLoads(c, whys) ==
  IF whys = <<>>
  THEN UNCHANGED <<loads, loading, shown, lossy>>
  ELSE /\ loads' = loads \o [k \in DOMAIN whys |-> Asked(c, whys[k])]
       /\ loading' = TRUE
       /\ shown' = <<>>
       /\ lossy' = FALSE

\* After its await: a load of an opened conversation goes on to join the
\* channel once the agents' moods are there too, the load of a fallback ends
\* its send.
Continue(i) ==
  /\ loading' = FALSE
  /\ loads' = IF loads[i].why = "init"
              THEN [loads EXCEPT ![i].stage = "joining"]
              ELSE RemoveAt(loads, i)
  /\ send' = IF loads[i].why = "send" THEN None ELSE send

\* Mutant of LoadAnswered: the messages go to the conversation open by then.
LoadAnsweredHere(i) ==
  /\ i \in DOMAIN loads /\ loads[i].stage = "served"
  /\ shown' = loads[i].snap
  /\ Continue(i)
  /\ UNCHANGED <<server, window, wire, events, lossy, faults>>

\* The answer replaces what is shown, and whatever it does not hold is lost.
LoadAnswered(i) ==
  /\ i \in DOMAIN loads /\ loads[i].stage = "served"
  /\ IF loads[i].conv = conv
     THEN /\ shown' = loads[i].snap
          /\ lossy' = (lossy \/ ~(ToSet(shown) \subseteq ToSet(loads[i].snap) \cup deleted))
     ELSE UNCHANGED <<shown, lossy>>
  /\ Continue(i)
  /\ UNCHANGED <<server, window, wire, events, faults>>

LoadFails(i) ==
  /\ Fault
  /\ i \in DOMAIN loads /\ loads[i].stage \in {"asked", "served"}
  /\ lossy' = (lossy \/ loads[i].conv = conv)
  /\ Continue(i)
  /\ UNCHANGED <<server, shown, window, wire, events>>

\* joinConversation: what was broadcast after the last message shown is
\* replayed; an empty list counts from now, an optimistic message from its
\* own time.
Replay ==
  IF shown = <<>> THEN {}
  ELSE LET since == IF Last(shown).n = 0 THEN send.since ELSE Last(shown).n
       IN {m \in ToSet(log[conv]) : m.n > since}

\* Mutant of Join: the conversation may have changed during the load.
JoinAnyway(i) ==
  /\ i \in DOMAIN loads /\ loads[i].stage = "joining"
  /\ loads' = RemoveAt(loads, i)
  /\ IF joined # loads[i].conv
     THEN /\ joined' = loads[i].conv
          /\ wire' = {}
     ELSE UNCHANGED <<joined, wire>>
  /\ UNCHANGED <<server, shown, conv, loading, send, events, lossy, faults>>

\* Mutant of Join: only what is broadcast from now on is received.
JoinWithoutReplay(i) ==
  /\ i \in DOMAIN loads /\ loads[i].stage = "joining"
  /\ loads' = RemoveAt(loads, i)
  /\ LET c == loads[i].conv IN
     IF conv = c /\ joined # c
     THEN /\ joined' = c
          /\ wire' = {}
          /\ lossy' = (lossy \/ shown = <<>> \/ shown # loads[i].snap)
     ELSE UNCHANGED <<joined, wire, lossy>>
  /\ UNCHANGED <<server, shown, conv, loading, send, events, faults>>

\* The rest of _initConversation.
Join(i) ==
  /\ i \in DOMAIN loads /\ loads[i].stage = "joining"
  /\ loads' = RemoveAt(loads, i)
  /\ LET c == loads[i].conv IN
     IF conv = c /\ joined # c
     THEN /\ joined' = c
          /\ wire' = Replay
          /\ lossy' = (lossy \/ shown = <<>> \/ shown # loads[i].snap)
     ELSE UNCHANGED <<joined, wire, lossy>>
  /\ UNCHANGED <<server, shown, conv, loading, send, events, faults>>

\* A broadcast arrives on the joined channel.
Deliver ==
  /\ \E m \in wire :
       /\ wire' = wire \ {m}
       /\ shown' = Added(shown, m)
  /\ UNCHANGED <<server, window, loading, loads, send, events, lossy, faults>>

(***************************************************************************)
(* Opening a conversation                                                  *)
(***************************************************************************)

Streaming == send # None /\ send.phase = "stream"

\* updated: the stream of the conversation left is aborted, which ends its
\* send; an aborted regeneration reloads, but the conversation now open.
Switch(c) ==
  /\ c # conv
  /\ Len(loads) < MaxLoads
  /\ conv' = c /\ joined' = None /\ wire' = {}
  /\ StartLoads(c, IF Streaming /\ send.kind = "regenerate"
                   THEN <<"init", "tail">> ELSE <<"init">>)
  /\ IF Streaming THEN send' = None /\ events' = <<>> ELSE UNCHANGED <<send, events>>
  /\ UNCHANGED <<server, faults>>

(***************************************************************************)
(* Sending                                                                 *)
(***************************************************************************)

Begin(kind) ==
  /\ conv # None /\ send = None /\ ~loading
  /\ send' = [kind |-> kind, conv |-> conv, phase |-> "stream", srv |-> "save",
              since |-> Len(log[conv]), confirmed |-> FALSE, errors |-> FALSE, hadError |-> FALSE]
  /\ UNCHANGED <<server, window, wire, loading, loads, events, lossy, faults>>

\* _handleSendMessage
Send ==
  /\ Count("user") < MaxSends
  /\ Begin("send")
  /\ shown' = Added(shown, Optimistic(conv))

\* _handleRegenerate, from the feed, which is not on screen during a load.
Regenerate ==
  /\ Begin("regenerate")
  /\ shown # <<>>
  /\ UNCHANGED shown

\* The finally block: a regeneration, and a confirmed send with an error,
\* load the messages again.
Finish ==
  /\ send' = None
  /\ events' = <<>>
  /\ StartLoads(conv, IF send.kind = "regenerate" \/ (send.hadError /\ send.confirmed)
                      THEN <<"tail">> ELSE <<>>)

\* Mutant of Consume: the end of the stream leaves _sending set.
ConsumeNoEnd ==
  /\ Streaming /\ events # <<>> /\ Head(events).what # "end"
  /\ events' = Tail(events)
  /\ LET m == Head(events).m IN
     CASE Head(events).what = "confirm" ->
            /\ send' = [send EXCEPT !.confirmed = TRUE]
            /\ shown' = Confirmed(shown, send.conv, m)
       [] Head(events).what = "reply" ->
            /\ shown' = Added(shown, m)
            /\ UNCHANGED send
       [] OTHER ->
            /\ send' = [send EXCEPT !.hadError = TRUE]
            /\ UNCHANGED shown
  /\ UNCHANGED <<server, window, wire, loading, loads, lossy, faults>>

\* The page takes an event off its stream.
Consume ==
  /\ Streaming /\ events # <<>>
  /\ LET event == Head(events) IN
     \/ /\ event.what = "confirm"
        /\ send' = [send EXCEPT !.confirmed = TRUE]
        /\ shown' = Confirmed(shown, send.conv, event.m)
        /\ events' = Tail(events)
        /\ UNCHANGED <<loads, loading, lossy>>
     \/ /\ event.what = "reply"
        /\ shown' = Added(shown, event.m)
        /\ events' = Tail(events)
        /\ UNCHANGED <<send, loads, loading, lossy>>
     \/ /\ event.what = "error"
        /\ send' = [send EXCEPT !.hadError = TRUE]
        /\ events' = Tail(events)
        /\ UNCHANGED <<shown, loads, loading, lossy>>
     \/ event.what = "end" /\ Finish
  /\ UNCHANGED <<server, window, wire, faults>>

\* Mutant of Break: the optimistic message stays on screen.
BreakKeepsOptimistic ==
  /\ Fault /\ Streaming
  /\ IF send.kind = "regenerate" \/ send.confirmed
     THEN Finish
     ELSE /\ send' = [send EXCEPT !.phase = "fallback", !.srv = "save"]
          /\ events' = <<>>
          /\ UNCHANGED <<shown, loads, loading, lossy>>
  /\ UNCHANGED <<server, window, wire>>

\* The stream cannot be opened, or breaks: before the confirmation the message
\* is sent once more over the plain endpoint.
Break ==
  /\ Fault /\ Streaming
  /\ IF send.kind = "regenerate" \/ send.confirmed
     THEN Finish
     ELSE /\ send' = [send EXCEPT !.phase = "fallback", !.srv = "save", !.errors = FALSE]
          /\ events' = <<>>
          /\ shown' = Removed(shown, send.conv)
          /\ UNCHANGED <<loads, loading, lossy>>
  /\ UNCHANGED <<server, window, wire>>

\* The plain endpoint answers: the conversation that is open now is loaded.
FallbackAnswered ==
  /\ send # None /\ send.phase = "fallback" /\ send.srv = "talk"
  /\ send' = [send EXCEPT !.phase = "reload", !.srv = "over"]
  /\ StartLoads(conv, <<"send">>)
  /\ UNCHANGED <<server, window, wire, events, faults>>

\* Or fails as the stream did (the same fault): a toast, and no load.
FallbackFails ==
  /\ send # None /\ send.phase = "fallback"
  /\ send' = None
  /\ UNCHANGED <<server, shown, window, wire, loading, loads, events, lossy, faults>>

Next ==
  \/ Elsewhere
  \/ ServerSaves \/ ServerReplies \/ ServerErrs \/ ServerEnds
  \/ \E i \in DOMAIN loads : LoadServed(i) \/ LoadAnswered(i) \/ LoadFails(i) \/ Join(i)
  \/ Deliver
  \/ \E c \in Conversations : Switch(c)
  \/ Send \/ Regenerate \/ Consume \/ Break
  \/ FallbackAnswered \/ FallbackFails

\* The server answers the calls it was sent, in particular the oldest load,
\* and the page takes what arrives.
Fairness ==
  /\ WF_vars(ServerSaves) /\ WF_vars(ServerEnds)
  /\ WF_vars(Consume) /\ WF_vars(FallbackAnswered)
  /\ WF_vars(LoadServed(1) \/ LoadAnswered(1) \/ Join(1))

Spec == Init /\ [][Next]_vars /\ Fairness

(***************************************************************************)
(* Properties                                                              *)
(***************************************************************************)

\* A message is on the screen once, whichever of the load, the stream and the
\* broadcast brought it first (the race confirmOptimistic is written for).
NoDuplicates == IsInjective(shown)

\* An unconfirmed message is on the screen only while its stream may still
\* confirm it: after a broken stream, a failed fallback or a change of the
\* conversation none is left behind.
OptimisticOnlyWhileSending ==
  conv # None /\ Optimistic(conv) \in ToSet(shown) =>
    Streaming /\ send.kind = "send" /\ send.conv = conv

\* The joined channel is the open conversation's, however slowly the loads of
\* the conversations opened before it are answered.
RealtimeFollowsWindow == joined \in {None, conv}

\* When the window is at rest, every saved message of its conversation is on
\* the screen: the replay closes the gap between the GET and the channel.
\* Known ways to lose one are excepted: a failed load, an older answer that
\* replaced newer messages, a replay that began now because the list was
\* empty, or at a message sent after the load.
NothingMissed ==
  conv # None /\ joined = conv /\ wire = {} /\ send = None
    /\ (\A i \in DOMAIN loads : loads[i].conv # conv) /\ ~lossy
  => ToSet(Saved(conv)) \subseteq ToSet(shown)

\* Every send comes to its end, and the composer is free again.
SendsEnd == send # None ~> send = None

===============================================================================
