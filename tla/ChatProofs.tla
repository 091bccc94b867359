----------------------------- MODULE ChatProofs -----------------------------
(***************************************************************************)
(* Theorems about the agent chat of the browser, for any conversations and *)
(* any number of messages, loads and faults: the types, and what the       *)
(* screen, the event stream, the broadcasts and the loads know of each     *)
(* other. The lists are of any length: what is computed of them entry by   *)
(* entry is proved by induction, see Least.                                *)
(***************************************************************************)
EXTENDS ChatClient, FiniteSetTheorems, FunctionTheorems, SequenceTheorems,
        WellFoundedInduction, TLAPS

\* The log of a conversation numbers its messages.
LogShape ==
  \A c \in Conversations : \A i \in DOMAIN log[c] : log[c][i].conv = c /\ log[c][i].n = i

\* What was inserted is bounded: a message of the user beyond MaxSends is the
\* second copy of one whose stream broke.
Counted ==
  /\ IsFiniteSet(Inserted)
  /\ Count("agent") <= MaxReplies
  /\ Count("user") <= MaxSends + faults
  /\ send # None /\ send.kind = "send" /\ send.srv = "save" =>
       Count("user") < MaxSends + faults

\* Events are on their way only while a stream is read, about its conversation,
\* which is the open one. The confirmation of a message comes before anything
\* else of its stream.
StreamShape ==
  /\ send # None => conv # None
  /\ ~Streaming => events = <<>>
  /\ Streaming =>
       /\ send.conv = conv
       /\ \A i \in DOMAIN events : events[i].what \in {"confirm", "reply"} => events[i].m.conv = conv
       /\ send.kind = "send" =>
            /\ send.srv = "save" => events = <<>> /\ ~send.confirmed
            /\ send.srv # "save" /\ ~send.confirmed =>
                 events # <<>> /\ events[1].what = "confirm"
            /\ send.confirmed => Optimistic(conv) \notin ToSet(shown)
  /\ send # None /\ send.phase = "fallback" => send.kind = "send"

\* A load that ends a send is the only one, and the send waits for it.
OneReload ==
  \A i \in DOMAIN loads : loads[i].why = "send" =>
    /\ send # None /\ send.phase = "reload"
    /\ \A j \in DOMAIN loads : loads[j].why = "send" => j = i

\* Broadcasts are on their way to the joined channel.
WireShape == \A m \in wire : m.conv = joined

\* What a GET has read of the rows is from its conversation, every message
\* once; what it has not read was deleted, or came after everything it read.
Faithful(l, rows, gone) ==
  /\ ToSet(l.snap) \subseteq ToSet(rows[l.conv])
  /\ IsInjective(l.snap)
  /\ IF l.stage = "asked" THEN l.snap = <<>>
     ELSE \A m \in ToSet(rows[l.conv]) \ (ToSet(l.snap) \cup gone) :
             \A k \in DOMAIN l.snap : l.snap[k].n < m.n
LoadsShape == \A i \in DOMAIN loads : Faithful(loads[i], log, deleted)

\* On a joined channel without known losses every message is on the screen or
\* on its way to it, or a load that will bring it is.
Reaching(msgs) == ToSet(log[conv]) \subseteq msgs \cup ToSet(shown) \cup wire \cup deleted
Covered ==
  conv # None /\ joined = conv /\ ~lossy =>
    \/ Reaching({})
    \/ \E i \in DOMAIN loads :
         /\ loads[i].conv = conv
         /\ \/ loads[i].stage = "asked"
            \/ loads[i].stage = "served" /\ Reaching(ToSet(loads[i].snap))

IInv ==
  /\ ChatTypeOK /\ LogShape /\ Counted /\ StreamShape /\ OneReload
  /\ WireShape /\ LoadsShape /\ Covered
  /\ NoDuplicates /\ OptimisticOnlyWhileSending /\ RealtimeFollowsWindow

(***************************************************************************)
(* Induction over a list. The library's theorem takes a predicate, which   *)
(* the provers cannot instantiate; for sets it follows from the least      *)
(* element, and the recursive function of Without is such an induction.    *)
(***************************************************************************)

\* A set of naturals has a least element.
LEMMA Least ==
  ASSUME NEW T, T \subseteq Nat, T # {}
  PROVE  \E n \in T : \A m \in T : n <= m
<1> DEFINE R == OpToRel(<, Nat)
<1>1. IsWellFoundedOn(R, Nat)
    BY NatLessThanWellFounded
<1> HIDE DEF R
<1>2. PICK n \in T : \A m \in T : ~ (<<m, n>> \in R)
    BY <1>1, WFMin
<1>3. \A m, k \in Nat : m < k => <<m, k>> \in R
    BY DEF R, OpToRel
<1>4. ASSUME NEW m \in T
      PROVE  n <= m
  <2>1. n \in Nat /\ m \in Nat /\ ~(m < n)
      BY <1>2, <1>3
  <2> QED
      BY <2>1
<1> QED
    BY <1>4

\* A set with 0 that is closed under the successor holds every natural.
LEMMA Induction ==
  ASSUME NEW T, 0 \in T, \A n \in Nat : n \in T => n + 1 \in T
  PROVE  Nat \subseteq T
<1> DEFINE U == Nat \ T
<1>1. SUFFICES ASSUME U # {} PROVE FALSE
    OBVIOUS
<1>2. PICK n \in U : \A m \in U : n <= m
    BY <1>1, Least
<1>3. n # 0 /\ n - 1 \in Nat
    BY <1>2
<1>4. n - 1 \in T
    BY <1>2, <1>3
<1> QED
    BY <1>2, <1>3, <1>4

\* One step of Without.
Keep(those, before, e) == IF e \in those THEN before ELSE Append(before, e)

\* g holds what is kept of every prefix of the list, up to n.
Keeps(g, list, those, n) ==
  g = [i \in 0 .. n |-> IF i = 0 THEN <<>> ELSE Keep(those, g[i - 1], list[i])]

\* The recursive function of Without exists, for a list of any length: a
\* function up to n is extended by its next step.
LEMMA KeptExists ==
  ASSUME NEW list, NEW those, NEW n \in Nat
  PROVE  \E g : Keeps(g, list, those, n)
<1> DEFINE T == {k \in Nat : \E g : Keeps(g, list, those, k)}
<1>1. 0 \in T
  <2> DEFINE g == [i \in 0 .. 0 |-> <<>>]
  <2>1. Keeps(g, list, those, 0)
      BY DEF Keeps
  <2> QED
      BY <2>1
<1>2. ASSUME NEW k \in Nat, k \in T
      PROVE  k + 1 \in T
  <2>1. PICK g : Keeps(g, list, those, k)
      BY <1>2
  <2> DEFINE h == [i \in 0 .. k + 1 |-> IF i = k + 1 THEN Keep(those, g[k], list[k + 1]) ELSE g[i]]
  <2>2. \A i \in 0 .. k : h[i] = g[i]
      OBVIOUS
  <2>3. h[k + 1] = Keep(those, h[k], list[k + 1])
      BY <2>2
  <2>4. \A i \in 0 .. k : g[i] = IF i = 0 THEN <<>> ELSE Keep(those, g[i - 1], list[i])
      BY <2>1 DEF Keeps
  <2>5. ASSUME NEW i \in 0 .. k + 1
        PROVE  h[i] = IF i = 0 THEN <<>> ELSE Keep(those, h[i - 1], list[i])
    <3>1. CASE i = k + 1
        BY <3>1, <2>3
    <3>2. CASE i # k + 1 /\ i # 0
      <4>1. i \in 0 .. k /\ i - 1 \in 0 .. k
          BY <3>2
      <4>2. h[i] = g[i] /\ h[i - 1] = g[i - 1]
          BY <4>1, <2>2
      <4> QED
          BY <3>2, <4>1, <4>2, <2>4
    <3>3. CASE i = 0
      <4>1. h[0] = g[0] /\ g[0] = <<>>
          BY <2>2, <2>4
      <4> QED
          BY <3>3, <4>1
    <3> QED
        BY <3>1, <3>2, <3>3
  <2>6. h = [i \in 0 .. k + 1 |-> h[i]]
      OBVIOUS
  <2> HIDE DEF h
  <2>7. Keeps(h, list, those, k + 1)
      BY <2>5, <2>6 DEF Keeps
  <2> QED
      BY <2>7
<1> HIDE DEF T
<1>3. Nat \subseteq T
    BY <1>1, <1>2, Induction
<1> QED
    BY <1>3 DEF T

\* So Without is its last value, reached one entry at a time.
LEMMA KeptSteps ==
  ASSUME NEW S, NEW list \in Seq(S), NEW those
  PROVE  \E K : /\ Without(list, those) = K[Len(list)]
                /\ K[0] = <<>>
                /\ \A i \in 1 .. Len(list) : K[i] = Keep(those, K[i - 1], list[i])
<1> DEFINE n == Len(list)
<1> DEFINE K == CHOOSE g : Keeps(g, list, those, n)
<1>1. n \in Nat
    OBVIOUS
<1>2. Without(list, those) = K[n]
    BY DEF Without, Keep, Keeps
<1> HIDE DEF n
<1>3. Keeps(K, list, those, n)
    BY <1>1, KeptExists
<1> HIDE DEF K
<1>4. K[0] = <<>> /\ \A i \in 1 .. n : K[i] = Keep(those, K[i - 1], list[i])
  <2>1. \A i \in 0 .. n : K[i] = IF i = 0 THEN <<>> ELSE Keep(those, K[i - 1], list[i])
      BY <1>3 DEF Keeps
  <2> QED
      BY <2>1, <1>1
<1> QED
    BY <1>2, <1>4 DEF n

\* One entry more.
LEMMA AppendSet ==
  ASSUME NEW S, NEW s \in Seq(S), NEW e \in S
  PROVE  /\ ToSet(Append(s, e)) = ToSet(s) \cup {e}
         /\ IsInjective(s) /\ e \notin ToSet(s) => IsInjective(Append(s, e))
<1> DEFINE t == Append(s, e)
<1>1. /\ Len(s) \in Nat /\ DOMAIN s = 1 .. Len(s) /\ DOMAIN t = 1 .. Len(s) + 1
      /\ t[Len(s) + 1] = e /\ \A i \in 1 .. Len(s) : t[i] = s[i]
    BY AppendProperties, LenProperties
<1> HIDE DEF t
<1>2. ToSet(t) = ToSet(s) \cup {e}
  <2>1. \A i \in DOMAIN t : t[i] \in ToSet(s) \cup {e}
      BY <1>1 DEF ToSet
  <2>2. \A i \in DOMAIN s : s[i] \in ToSet(t)
      BY <1>1 DEF ToSet
  <2>3. e \in ToSet(t)
      BY <1>1 DEF ToSet
  <2> QED
      BY <2>1, <2>2, <2>3 DEF ToSet
<1>3. ASSUME IsInjective(s), e \notin ToSet(s), NEW a \in DOMAIN t, NEW b \in DOMAIN t, t[a] = t[b]
      PROVE  a = b
    BY <1>1, <1>3 DEF IsInjective, ToSet
<1> QED
    BY <1>2, <1>3 DEF t, IsInjective

\* What removeOptimistic and the deletion of rows leave of a list: exactly the
\* other entries, and no entry twice if there was none twice before.
LEMMA WithoutProperties ==
  ASSUME NEW S, NEW list \in Seq(S), NEW those
  PROVE  /\ Without(list, those) \in Seq(S \ those)
         /\ ToSet(Without(list, those)) = ToSet(list) \ those
         /\ IsInjective(list) => IsInjective(Without(list, those))
<1>1. PICK K : /\ Without(list, those) = K[Len(list)]
               /\ K[0] = <<>>
               /\ \A i \in 1 .. Len(list) : K[i] = Keep(those, K[i - 1], list[i])
    BY KeptSteps
<1> DEFINE Good(k) ==
      /\ K[k] \in Seq(S \ those)
      /\ ToSet(K[k]) = {list[i] : i \in 1 .. k} \ those
      /\ IsInjective(list) => IsInjective(K[k])
<1> DEFINE T == {k \in Nat : k <= Len(list) => Good(k)}
<1>2. 0 \in T
  <2>1. Good(0)
    <3>1. K[0] \in Seq(S \ those) /\ DOMAIN K[0] = {}
        BY <1>1
    <3> QED
        BY <3>1 DEF ToSet, IsInjective
  <2> QED
      BY <2>1
<1>3. ASSUME NEW k \in Nat, k \in T
      PROVE  k + 1 \in T
  <2>1. SUFFICES ASSUME k + 1 <= Len(list)
                 PROVE  Good(k + 1)
      OBVIOUS
  <2>2. Good(k)
      BY <1>3, <2>1
  <2>3. /\ DOMAIN list = 1 .. Len(list) /\ Len(list) \in Nat
        /\ k + 1 \in 1 .. Len(list) /\ list[k + 1] \in S
      BY <2>1
  <2>4. K[k + 1] = Keep(those, K[k], list[k + 1])
      BY <1>1, <2>3
  <2>5. 1 .. k + 1 = (1 .. k) \cup {k + 1}
      OBVIOUS
  <2>6. {list[i] : i \in 1 .. k + 1} = {list[i] : i \in 1 .. k} \cup {list[k + 1]}
      BY <2>5
  <2> HIDE DEF T
  <2>7. CASE list[k + 1] \in those
      BY <2>2, <2>4, <2>6, <2>7 DEF Keep
  <2>8. CASE list[k + 1] \notin those
    <3>1. K[k + 1] = Append(K[k], list[k + 1])
        BY <2>4, <2>8 DEF Keep
    <3>2. K[k] \in Seq(S \ those) /\ list[k + 1] \in S \ those
        BY <2>2, <2>3, <2>8
    <3>3. K[k + 1] \in Seq(S \ those)
        BY <3>1, <3>2, AppendProperties
    <3>4. ToSet(K[k + 1]) = ToSet(K[k]) \cup {list[k + 1]}
        BY <3>1, <3>2, AppendSet
    <3>5. ASSUME IsInjective(list)
          PROVE  IsInjective(K[k + 1])
      <4>1. \A i \in 1 .. k : list[i] # list[k + 1]
          BY <2>3, <3>5 DEF IsInjective
      <4>2. list[k + 1] \notin ToSet(K[k])
          BY <2>2, <4>1
      <4> QED
          BY <2>2, <3>1, <3>2, <3>5, <4>2, AppendSet
    <3> QED
        BY <2>2, <2>6, <2>8, <3>3, <3>4, <3>5
  <2> QED
      BY <2>7, <2>8
<1> HIDE DEF T
<1>4. Nat \subseteq T
    BY <1>2, <1>3, Induction
<1>5. Good(Len(list))
  <2>1. Len(list) \in Nat /\ Len(list) <= Len(list)
      OBVIOUS
  <2> HIDE DEF Good
  <2> QED
      BY <1>4, <2>1 DEF T
<1>6. ToSet(list) = {list[i] : i \in 1 .. Len(list)}
    BY DEF ToSet
<1> QED
    BY <1>1, <1>5, <1>6

(***************************************************************************)
(* The server's rows.                                                      *)
(***************************************************************************)

\* The invariant in parts, by what they speak of.
LogTypes ==
  /\ log \in [Conversations -> Seq(Messages)]
  /\ deleted \subseteq Inserted
  /\ faults \in 0 .. MaxFaults
  /\ LogShape
WindowTypes ==
  /\ conv \in Conversations \cup {None}
  /\ wire \subseteq Inserted
  /\ WireShape /\ RealtimeFollowsWindow
LoadTypes == loading \in BOOLEAN /\ loads \in Seq(Loads) /\ LoadsShape
SendTypes == send \in Sends \cup {None} /\ events \in Seq(Events) /\ StreamShape
ShownTypes ==
  /\ shown \in Seq({m \in Messages \cup {Optimistic(conv)} : m.conv = conv})
  /\ lossy \in BOOLEAN
  /\ NoDuplicates /\ OptimisticOnlyWhileSending

\* The parts together are the invariant.
LEMMA Parts ==
  IInv <=> LogTypes /\ Counted /\ WindowTypes /\ LoadTypes /\ SendTypes /\ OneReload
           /\ ShownTypes /\ Covered
<1>1. LogTypes => \A c \in Conversations : \A m \in ToSet(log[c]) : m.conv = c
    BY DEF LogTypes, LogShape, ToSet
<1>2. WindowTypes => joined \in Conversations \cup {None}
    BY DEF WindowTypes, RealtimeFollowsWindow
<1> QED
    BY <1>1, <1>2
    DEF IInv, ChatTypeOK, LogTypes, WindowTypes, LoadTypes, SendTypes, ShownTypes

\* The bounds are numbers.
LEMMA BoundType == Bound \in Nat
BY ChatAssumption DEF Bound

\* A message has a number, so it is not a temporary entry.
LEMMA MessageTypes ==
  ASSUME NEW m \in Messages
  PROVE  /\ m.conv \in Conversations /\ m.n \in 1 .. Bound /\ m.by \in {"user", "agent"}
         /\ \A c : m # Optimistic(c)
<1>1. m.conv \in Conversations /\ m.n \in 1 .. Bound /\ m.by \in {"user", "agent"}
    BY DEF Messages
<1> QED
    BY <1>1, BoundType DEF Optimistic

\* What the log says of its messages.
LEMMA LogFacts ==
  ASSUME LogTypes, NEW c \in Conversations
  PROVE  /\ log[c] \in Seq(Messages) /\ Len(log[c]) \in Nat /\ DOMAIN log[c] = 1 .. Len(log[c])
         /\ \A i \in 1 .. Len(log[c]) : log[c][i].n = i /\ log[c][i].conv = c /\ log[c][i] \in Inserted
         /\ IsInjective(log[c])
         /\ ToSet(log[c]) \subseteq Messages \cap Inserted
         /\ \A m \in ToSet(log[c]) : m.conv = c /\ m.n \in 1 .. Len(log[c])
<1>1. log[c] \in Seq(Messages) /\ Len(log[c]) \in Nat /\ DOMAIN log[c] = 1 .. Len(log[c])
    BY LenProperties DEF LogTypes
<1>2. \A i \in 1 .. Len(log[c]) : log[c][i].n = i /\ log[c][i].conv = c /\ log[c][i] \in Messages
    BY <1>1 DEF LogTypes, LogShape
<1>3. \A i \in 1 .. Len(log[c]) : log[c][i] \in ToSet(log[c])
    BY <1>1 DEF ToSet
<1>4. ToSet(log[c]) \subseteq Inserted
    BY DEF Inserted
<1>5. IsInjective(log[c])
    BY <1>1, <1>2 DEF IsInjective
<1>6. ASSUME NEW m \in ToSet(log[c])
      PROVE  m \in Messages /\ m.conv = c /\ m.n \in 1 .. Len(log[c])
  <2>1. PICK i \in 1 .. Len(log[c]) : m = log[c][i]
      BY <1>1 DEF ToSet
  <2> QED
      BY <1>2, <2>1
<1> QED
    BY <1>1, <1>2, <1>3, <1>4, <1>5, <1>6

\* An inserted message is in the log of its conversation.
LEMMA InsertedTypes ==
  ASSUME LogTypes
  PROVE  \A m \in Inserted : m \in Messages /\ m \in ToSet(log[m.conv])
<1>1. ASSUME NEW m \in Inserted
      PROVE  m \in Messages /\ m \in ToSet(log[m.conv])
  <2>1. PICK c \in Conversations : m \in ToSet(log[c])
      BY DEF Inserted
  <2> QED
      BY <2>1, LogFacts
<1> QED
    BY <1>1

\* A log is no longer than what was inserted.
LEMMA LogBound ==
  ASSUME LogTypes, Counted, NEW c \in Conversations
  PROVE  /\ Count("user") \in Nat /\ Count("agent") \in Nat
         /\ Len(log[c]) <= Count("user") + Count("agent")
         /\ Len(log[c]) \in 0 .. Bound
<1> DEFINE By(w) == {m \in Inserted : m.by = w}
<1>1. IsFiniteSet(Inserted)
    BY DEF Counted
<1>2. /\ IsFiniteSet(By("user")) /\ IsFiniteSet(By("agent"))
      /\ Cardinality(By("user")) \in Nat /\ Cardinality(By("agent")) \in Nat
  <2>1. By("user") \in SUBSET Inserted /\ By("agent") \in SUBSET Inserted
      OBVIOUS
  <2>2. IsFiniteSet(By("user")) /\ IsFiniteSet(By("agent"))
      BY <1>1, <2>1, FS_Subset
  <2> QED
      BY <2>2, FS_CardinalityType
<1>3. Inserted = By("user") \cup By("agent") /\ By("user") \cap By("agent") = {}
  <2>1. \A m \in Inserted : m.by \in {"user", "agent"}
      BY InsertedTypes, MessageTypes
  <2> QED
      BY <2>1
<1> HIDE DEF By
<1>4. Cardinality(Inserted) = Cardinality(By("user")) + Cardinality(By("agent"))
  <2>1. Cardinality(By("user") \cap By("agent")) = 0
      BY <1>3, FS_EmptySet
  <2>2. Cardinality(By("user") \cup By("agent"))
          = Cardinality(By("user")) + Cardinality(By("agent")) - Cardinality(By("user") \cap By("agent"))
      BY <1>2, FS_Union
  <2> QED
      BY <1>2, <1>3, <2>1, <2>2
<1>5. Len(log[c]) <= Cardinality(Inserted)
  <2>1. /\ Len(log[c]) \in Nat /\ log[c] \in [1 .. Len(log[c]) -> Inserted]
        /\ \A a, b \in 1 .. Len(log[c]) : log[c][a] = log[c][b] => a = b
    <3>1. /\ Len(log[c]) \in Nat /\ DOMAIN log[c] = 1 .. Len(log[c]) /\ IsInjective(log[c])
          /\ \A i \in 1 .. Len(log[c]) : log[c][i] \in Inserted
          /\ log[c] \in [1 .. Len(log[c]) -> Messages]
        BY LogFacts, LenProperties
    <3> QED
        BY <3>1 DEF IsInjective
  <2>2. log[c] \in Injection(1 .. Len(log[c]), Inserted)
      BY <2>1, Fun_IsInj
  <2>3. Cardinality(1 .. Len(log[c])) <= Cardinality(Inserted)
      BY <1>1, <2>2, FS_Injection
  <2>4. Cardinality(1 .. Len(log[c])) = Len(log[c])
      BY <2>1, FS_Interval
  <2> QED
      BY <2>3, <2>4
<1>6. Count("user") = Cardinality(By("user")) /\ Count("agent") = Cardinality(By("agent"))
    BY DEF Count, By
<1>7. Len(log[c]) \in Nat /\ MaxReplies \in Nat /\ MaxSends \in Nat /\ MaxFaults \in Nat
    BY LogFacts, ChatAssumption
<1>8. Count("agent") <= MaxReplies /\ Count("user") <= MaxSends + faults /\ faults \in 0 .. MaxFaults
    BY DEF Counted, LogTypes
<1> QED
    BY <1>2, <1>4, <1>5, <1>6, <1>7, <1>8 DEF Bound

\* What an INSERT does to the log, and what is known of the new row.
LEMMA InsertEffect ==
  ASSUME LogTypes, Counted, NEW c \in Conversations, NEW by \in {"user", "agent"},
         Count("user") + Count("agent") < Bound,
         Insert(NewMessage(c, by)), UNCHANGED <<deleted, faults>>
  PROVE  LET m == NewMessage(c, by)
         IN  /\ LogTypes'
             /\ m \in Messages /\ m.conv = c /\ m.by = by
             /\ m \notin Inserted /\ Inserted' = Inserted \cup {m}
             /\ \A x \in ToSet(log[c]) : x.n < m.n
             /\ ToSet(log'[c]) = ToSet(log[c]) \cup {m}
             /\ \A d \in Conversations : d # c => log'[d] = log[d]
             /\ wire' = IF joined = c THEN wire \cup {m} ELSE wire
<1> DEFINE m == NewMessage(c, by)
<1>1. /\ log[c] \in Seq(Messages) /\ Len(log[c]) \in Nat /\ DOMAIN log[c] = 1 .. Len(log[c])
      /\ \A i \in 1 .. Len(log[c]) : log[c][i].n = i /\ log[c][i].conv = c
      /\ ToSet(log[c]) \subseteq Messages \cap Inserted
      /\ \A x \in ToSet(log[c]) : x.conv = c /\ x.n \in 1 .. Len(log[c])
    BY LogFacts
<1>2. m \in Messages /\ m.conv = c /\ m.by = by /\ m.n = Len(log[c]) + 1
  <2>1. Len(log[c]) + 1 \in 1 .. Bound
      BY LogBound, BoundType, <1>1
  <2> QED
      BY <2>1 DEF NewMessage, Messages
<1> HIDE DEF m
<1>3. /\ log' = [log EXCEPT ![c] = Append(log[c], m)]
      /\ wire' = IF joined = c THEN wire \cup {m} ELSE wire
    BY <1>2 DEF Insert, m
<1>4. log \in [Conversations -> Seq(Messages)]
    BY DEF LogTypes
<1>5. /\ log'[c] = Append(log[c], m) /\ log' \in [Conversations -> Seq(Messages)]
      /\ \A d \in Conversations : d # c => log'[d] = log[d]
  <2>1. Append(log[c], m) \in Seq(Messages)
      BY <1>1, <1>2, AppendProperties
  <2> QED
      BY <1>3, <1>4, <2>1
<1>6. ToSet(log'[c]) = ToSet(log[c]) \cup {m}
    BY <1>1, <1>2, <1>5, AppendSet
<1>7. Inserted' = Inserted \cup {m}
  <2>1. ASSUME NEW x \in Inserted'
        PROVE  x \in Inserted \cup {m}
    <3>1. PICK d \in Conversations : x \in ToSet(log'[d])
        BY <2>1 DEF Inserted, ToSet
    <3>2. x \in ToSet(log[d]) \cup {m}
        BY <1>5, <1>6, <3>1
    <3> QED
        BY <3>2 DEF Inserted
  <2>2. ASSUME NEW x \in Inserted
        PROVE  x \in Inserted'
    <3>1. PICK d \in Conversations : x \in ToSet(log[d])
        BY <2>2 DEF Inserted
    <3>2. x \in ToSet(log'[d])
        BY <1>5, <1>6, <3>1
    <3> QED
        BY <3>2 DEF Inserted, ToSet
  <2>3. m \in Inserted'
      BY <1>6 DEF Inserted, ToSet
  <2> QED
      BY <2>1, <2>2, <2>3
<1>8. m \notin Inserted
  <2>1. SUFFICES ASSUME m \in Inserted PROVE FALSE
      OBVIOUS
  <2>2. m \in ToSet(log[c])
      BY <1>2, <2>1, InsertedTypes
  <2> QED
      BY <1>1, <1>2, <2>2
<1>9. LogShape'
  <2>1. \A i \in DOMAIN log'[c] : log'[c][i].conv = c /\ log'[c][i].n = i
    <3>1. /\ DOMAIN log'[c] = 1 .. Len(log[c]) + 1 /\ log'[c][Len(log[c]) + 1] = m
          /\ \A i \in 1 .. Len(log[c]) : log'[c][i] = log[c][i]
        BY <1>1, <1>2, <1>5, AppendProperties, LenProperties
    <3> QED
        BY <1>1, <1>2, <3>1
  <2> QED
      BY <1>5, <2>1 DEF LogTypes, LogShape
<1>10. \A x \in ToSet(log[c]) : x.n < m.n
    BY <1>1, <1>2
<1>11. deleted' \subseteq Inserted' /\ faults' \in 0 .. MaxFaults
    BY <1>7 DEF LogTypes
<1> QED
    BY <1>2, <1>3, <1>5, <1>6, <1>7, <1>8, <1>9, <1>10, <1>11 DEF LogTypes, m

\* The steps that insert a message, and what they do to its conversation.
Adds(c, by) ==
  /\ c \in Conversations
  /\ Insert(NewMessage(c, by))
  /\ UNCHANGED <<deleted, shown, window, loading, loads, lossy, faults>>

\* Where a message is inserted there is room for it.
LEMMA RoomFor ==
  ASSUME LogTypes, Counted, Count("agent") < MaxReplies \/ Count("user") < MaxSends + faults
  PROVE  Count("user") + Count("agent") < Bound
<1>1. Count("user") \in Nat /\ Count("agent") \in Nat
  <2>1. \A w : IsFiniteSet({m \in Inserted : m.by = w})
    <3>1. \A w : {m \in Inserted : m.by = w} \in SUBSET Inserted
        OBVIOUS
    <3> QED
        BY <3>1, FS_Subset DEF Counted
  <2> QED
      BY <2>1, FS_CardinalityType DEF Count
<1>2. MaxReplies \in Nat /\ MaxSends \in Nat /\ MaxFaults \in Nat /\ faults \in 0 .. MaxFaults
    BY ChatAssumption DEF LogTypes
<1>3. Count("agent") <= MaxReplies /\ Count("user") <= MaxSends + faults
    BY DEF Counted
<1> QED
    BY <1>1, <1>2, <1>3 DEF Bound

\* Every step that adds to a log: another tab, a saved message, a reply.
LEMMA Additions ==
  ASSUME IInv, Elsewhere \/ ServerSaves \/ ServerReplies,
         ~ (ServerSaves /\ UNCHANGED <<log, wire, shown, window, loading, loads, lossy, faults>>)
  PROVE  \E c \in Conversations, by \in {"user", "agent"} :
            /\ Adds(c, by)
            /\ by = "agent" => Count("agent") < MaxReplies /\ send' = send
            /\ by = "user" =>
                 /\ Count("user") < MaxSends + faults
                 /\ send # None /\ send.conv = c /\ send.kind = "send"
                 /\ send' = [send EXCEPT !.srv = "talk"]
<1>t. LogTypes /\ Counted /\ WindowTypes /\ SendTypes
    BY Parts
<1>s. send # None => send.conv \in Conversations
    BY <1>t DEF SendTypes, Sends
<1>1. CASE Elsewhere
  <2>1. conv \in Conversations /\ Adds(conv, "agent") /\ Count("agent") < MaxReplies /\ send' = send
      BY <1>1, <1>t DEF Elsewhere, WindowTypes, Adds
  <2> QED
      BY <2>1
<1>2. CASE ServerSaves
  <2>1. /\ send # None /\ send.kind = "send" /\ send.srv = "save"
        /\ Insert(NewMessage(send.conv, "user")) /\ deleted' = deleted
        /\ send' = [send EXCEPT !.srv = "talk"]
        /\ UNCHANGED <<shown, window, loading, loads, lossy, faults>>
      BY <1>2 DEF ServerSaves, server
  <2>2. Adds(send.conv, "user") /\ Count("user") < MaxSends + faults
      BY <1>s, <1>t, <2>1 DEF Adds, Counted
  <2> QED
      BY <1>s, <2>1, <2>2
<1>3. CASE ServerReplies
  <2>1. send.conv \in Conversations /\ Adds(send.conv, "agent") /\ Count("agent") < MaxReplies /\ send' = send
      BY <1>3, <1>s DEF ServerReplies, Adds
  <2> QED
      BY <2>1
<1> QED
    BY <1>1, <1>2, <1>3

\* No other step touches the server's rows.
LEMMA OthersKeepRows ==
  ASSUME [Next]_vars, ~Elsewhere, ~ServerSaves, ~ServerReplies
  PROVE  UNCHANGED server
BY DEF Next, vars, server, ServerErrs, ServerEnds, LoadServed, LoadAnswered, LoadFails, Join,
       Deliver, Switch, Send, Regenerate, Begin, Consume, Break, FallbackAnswered, FallbackFails

\* A regeneration deletes rows there are.
LEMMA KeepsLog ==
  ASSUME IInv, [Next]_vars, log' = log
  PROVE  deleted \subseteq deleted' /\ deleted' \subseteq Inserted
<1>t. LogTypes /\ SendTypes
    BY Parts
<1>1. CASE UNCHANGED server
    BY <1>1, <1>t DEF server, LogTypes
<1>2. CASE Elsewhere \/ ServerReplies
    BY <1>2, <1>t DEF Elsewhere, ServerReplies, LogTypes
<1>3. CASE ServerSaves
  <2>1. \/ deleted' = deleted
        \/ deleted' = deleted \cup TrailingReplies(send.conv)
      BY <1>3 DEF ServerSaves, server
  <2>2. send # None /\ send.conv \in Conversations
      BY <1>3, <1>t DEF ServerSaves, SendTypes, Sends
  <2>3. TrailingReplies(send.conv) \subseteq Inserted
      BY <1>t, <2>2, LogFacts DEF TrailingReplies
  <2> QED
      BY <1>t, <2>1, <2>3 DEF LogTypes
<1> QED
    BY <1>1, <1>2, <1>3, OthersKeepRows

\* The bound on faults is in its guard.
LEMMA FaultStep ==
  ASSUME LogTypes, [Next]_vars
  PROVE  /\ faults' \in 0 .. MaxFaults
         /\ faults <= faults'
<1>1. faults \in 0 .. MaxFaults /\ MaxFaults \in Nat
    BY ChatAssumption DEF LogTypes
<1>2. faults' = faults \/ Fault
    BY DEF Next, vars, Elsewhere, ServerSaves, ServerReplies, ServerErrs, ServerEnds, LoadServed,
       LoadAnswered, LoadFails, Join, Deliver, Switch, Send, Regenerate, Begin, Consume, Break,
       FallbackAnswered, FallbackFails
<1> QED
    BY <1>1, <1>2 DEF Fault

\* The server's rows keep their shape.
LEMMA LogStep == IInv /\ [Next]_vars => LogTypes'
<1> SUFFICES ASSUME IInv, [Next]_vars
             PROVE  LogTypes'
    OBVIOUS
<1>t. LogTypes /\ Counted
    BY Parts
<1>1. CASE log' = log
  <2>1. deleted' \subseteq Inserted' /\ faults' \in 0 .. MaxFaults
      BY <1>1, <1>t, KeepsLog, FaultStep DEF Inserted, ToSet
  <2>2. LogShape'
      BY <1>1, <1>t DEF LogShape, LogTypes
  <2> QED
      BY <1>1, <1>t, <2>1, <2>2 DEF LogTypes
<1>2. CASE log' # log
  <2>1. Elsewhere \/ ServerSaves \/ ServerReplies
      BY <1>2, OthersKeepRows DEF server
  <2>2. PICK c \in Conversations, by \in {"user", "agent"} :
            /\ Adds(c, by)
            /\ by = "agent" => Count("agent") < MaxReplies
            /\ by = "user" => Count("user") < MaxSends + faults
      BY <1>2, <2>1, Additions
  <2>3. Count("user") + Count("agent") < Bound
      BY <1>t, <2>2, RoomFor
  <2> QED
      BY <1>t, <2>2, <2>3, InsertEffect DEF Adds
<1> QED
    BY <1>1, <1>2

\* One more message counts for its sender alone.
LEMMA CountAdd ==
  ASSUME NEW m, m \notin Inserted, Inserted' = Inserted \cup {m}, IsFiniteSet(Inserted),
         NEW w
  PROVE  /\ IsFiniteSet(Inserted')
         /\ Count(w) \in Nat
         /\ Count(w)' = IF m.by = w THEN Count(w) + 1 ELSE Count(w)
<1> DEFINE By == {x \in Inserted : x.by = w}
<1>1. IsFiniteSet(Inserted')
    BY FS_AddElement
<1>2. IsFiniteSet(By) /\ Cardinality(By) \in Nat
  <2>1. By \in SUBSET Inserted
      OBVIOUS
  <2>2. IsFiniteSet(By)
      BY <2>1, FS_Subset
  <2> QED
      BY <2>2, FS_CardinalityType
<1>3. By' = {x \in Inserted' : x.by = w}
    OBVIOUS
<1>4. By' = IF m.by = w THEN By \cup {m} ELSE By
    BY <1>3
<1>5. m \notin By
    OBVIOUS
<1>6. Count(w) = Cardinality(By) /\ Count(w)' = Cardinality(By')
    BY DEF Count
<1> HIDE DEF By
<1>7. Cardinality(By \cup {m}) = Cardinality(By) + 1
    BY <1>2, <1>5, FS_AddElement
<1> QED
    BY <1>1, <1>2, <1>4, <1>6, <1>7
Pending == send # None /\ send.kind = "send" /\ send.srv = "save"

\* A message is about to be saved because a send began, because its stream broke,
\* or because it was already.
LEMMA PendingBefore ==
  ASSUME IInv, [Next]_vars, Pending'
  PROVE  Pending \/ Count("user") < MaxSends \/ (Break /\ faults' = faults + 1)
<1>t. SendTypes /\ send \in Sends \cup {None}
    BY Parts DEF SendTypes
<1>1. CASE UNCHANGED send
    BY <1>1 DEF Pending
<1>2. CASE ServerSaves \/ ServerErrs \/ ServerEnds
  <2>1. send # None /\ send \in Sends
      BY <1>2, <1>t DEF ServerSaves, ServerErrs, ServerEnds
  <2>2. \/ send' = [send EXCEPT !.srv = "talk"]
        \/ send' = [send EXCEPT !.srv = "talk", !.errors = TRUE]
        \/ send' = [send EXCEPT !.errors = TRUE]
        \/ send' = [send EXCEPT !.srv = "over"]
      BY <1>2 DEF ServerSaves, ServerErrs, ServerEnds
  <2> QED
      BY <2>1, <2>2 DEF Pending, Sends
<1>3. CASE \E i \in DOMAIN loads : Continue(i)
    BY <1>3 DEF Continue, Pending
<1>4. ASSUME NEW c \in Conversations, Switch(c)
      PROVE  Pending
    BY <1>4 DEF Switch, Pending
<1>5. CASE Send
    BY <1>5 DEF Send
<1>6. CASE Regenerate
    BY <1>6 DEF Regenerate, Begin, Pending
<1>7. CASE Consume
  <2>1. send \in Sends /\ send # None
      BY <1>7, <1>t DEF Consume, Streaming
  <2>2. \/ send' = [send EXCEPT !.confirmed = TRUE]
        \/ send' = send
        \/ send' = [send EXCEPT !.hadError = TRUE]
        \/ send' = None
      BY <1>7 DEF Consume, Finish
  <2> QED
      BY <2>1, <2>2 DEF Pending, Sends
<1>8. CASE Break
    BY <1>8 DEF Break, Fault
<1>9. CASE FallbackAnswered
  <2>1. send \in Sends /\ send' = [send EXCEPT !.phase = "reload", !.srv = "over"]
      BY <1>9, <1>t DEF FallbackAnswered
  <2> QED
      BY <2>1 DEF Pending, Sends
<1>10. CASE FallbackFails
    BY <1>10 DEF FallbackFails, Pending
<1> QED
    BY <1>1, <1>2, <1>3, <1>4, <1>5, <1>6, <1>7, <1>8, <1>9, <1>10
    DEF Next, vars, Elsewhere, ServerReplies, LoadServed, LoadAnswered, LoadFails, Join, Deliver

\* What was inserted stays within the bounds: a retried message is paid for by
\* a fault.
LEMMA CountStep == IInv /\ [Next]_vars => Counted'
<1> SUFFICES ASSUME IInv, [Next]_vars
             PROVE  Counted'
    OBVIOUS
<1>t. LogTypes /\ Counted /\ SendTypes /\ send \in Sends \cup {None}
    BY Parts DEF SendTypes
<1>f. faults \in Nat /\ faults' \in Nat /\ faults <= faults' /\ MaxSends \in Nat
    BY <1>t, FaultStep, ChatAssumption DEF LogTypes
<1>b. /\ IsFiniteSet(Inserted)
      /\ Count("agent") <= MaxReplies /\ Count("user") <= MaxSends + faults
      /\ Pending => Count("user") < MaxSends + faults
    BY <1>t DEF Counted, Pending
<1>n. Count("user") \in Nat /\ Count("agent") \in Nat
    <2>1. \A w : IsFiniteSet({m \in Inserted : m.by = w})
      <3>1. \A w : {m \in Inserted : m.by = w} \in SUBSET Inserted
          OBVIOUS
      <3> QED
          BY <1>b, <3>1, FS_Subset
    <2> QED
        BY <2>1, FS_CardinalityType DEF Count
<1>p. Pending' => Pending \/ Count("user") < MaxSends \/ faults' = faults + 1
    BY PendingBefore
<1>1. CASE log' = log
  <2>1. Inserted' = Inserted
      BY <1>1 DEF Inserted, ToSet
  <2>2. Count("user")' = Count("user") /\ Count("agent")' = Count("agent")
      BY <2>1 DEF Count
  <2>3. Pending' => Count("user") < MaxSends + faults'
      BY <1>b, <1>f, <1>n, <1>p
  <2>4. Count("user") <= MaxSends + faults'
      BY <1>b, <1>f, <1>n
  <2> QED
      BY <1>b, <2>1, <2>2, <2>3, <2>4 DEF Counted, Pending
<1>2. CASE log' # log
  <2>1. Elsewhere \/ ServerSaves \/ ServerReplies
      BY <1>2, OthersKeepRows DEF server
  <2>2. PICK c \in Conversations, by \in {"user", "agent"} :
            /\ Adds(c, by)
            /\ by = "agent" => Count("agent") < MaxReplies /\ send' = send
            /\ by = "user" =>
                 /\ Count("user") < MaxSends + faults
                 /\ send # None /\ send.conv = c /\ send.kind = "send"
                 /\ send' = [send EXCEPT !.srv = "talk"]
      BY <1>2, <2>1, Additions
  <2>3. Count("user") + Count("agent") < Bound
      BY <1>t, <2>2, RoomFor
  <2>4. PICK m : /\ m \notin Inserted /\ Inserted' = Inserted \cup {m} /\ m.by = by
      BY <1>t, <2>2, <2>3, InsertEffect DEF Adds
  <2>5. /\ IsFiniteSet(Inserted')
        /\ Count("user")' = IF by = "user" THEN Count("user") + 1 ELSE Count("user")
        /\ Count("agent")' = IF by = "agent" THEN Count("agent") + 1 ELSE Count("agent")
      BY <1>b, <2>4, CountAdd
  <2>6. faults' = faults
      BY <2>2 DEF Adds
  <2>7. CASE by = "user"
    <3>1. send \in Sends /\ send' = [send EXCEPT !.srv = "talk"]
        BY <1>t, <2>2, <2>7
    <3>2. ~Pending'
        BY <3>1 DEF Pending, Sends
    <3> QED
        BY <1>b, <1>f, <1>n, <2>2, <2>5, <2>6, <2>7, <3>2 DEF Counted, Pending
  <2>8. CASE by = "agent"
    <3>1. Pending' => Pending
        BY <2>2, <2>8 DEF Pending
    <3> QED
        BY <1>b, <1>f, <1>n, <2>2, <2>5, <2>6, <2>8, <3>1, ChatAssumption DEF Counted, Pending
  <2> QED
      BY <2>7, <2>8
<1> QED
    BY <1>1, <1>2

\* The logs only grow: what a step adds is one message, after all of its
\* conversation's and on its way to the page that listens.
LEMMA LogGrows ==
  ASSUME IInv, [Next]_vars
  PROVE  /\ Inserted \subseteq Inserted'
         /\ \A c \in Conversations : ToSet(log[c]) \subseteq ToSet(log'[c])
         /\ \/ /\ log' = log
               /\ (Elsewhere \/ ServerSaves \/ ServerReplies) =>
                    UNCHANGED <<wire, shown, window, loading, loads, lossy, faults>>
            \/ \E c \in Conversations, m \in Messages :
                 /\ m.conv = c /\ m \in Inserted' /\ m \notin Inserted
                 /\ \A x \in ToSet(log[c]) : x.n < m.n
                 /\ ToSet(log'[c]) = ToSet(log[c]) \cup {m}
                 /\ \A d \in Conversations : d # c => log'[d] = log[d]
                 /\ wire' = IF joined = c THEN wire \cup {m} ELSE wire
                 /\ UNCHANGED <<deleted, shown, window, loading, loads, lossy, faults>>
<1>t. LogTypes /\ Counted
    BY Parts
<1>1. CASE ~ (Elsewhere \/ ServerSaves \/ ServerReplies)
    BY <1>1, OthersKeepRows DEF server, Inserted, ToSet
<1>2. CASE ServerSaves /\ UNCHANGED <<log, wire, shown, window, loading, loads, lossy, faults>>
    BY <1>2 DEF Inserted, ToSet
<1>3. CASE /\ Elsewhere \/ ServerSaves \/ ServerReplies
           /\ ~ (ServerSaves
                   /\ UNCHANGED <<log, wire, shown, window, loading, loads, lossy, faults>>)
  <2>1. PICK c \in Conversations, by \in {"user", "agent"} :
            /\ Adds(c, by)
            /\ by = "agent" => Count("agent") < MaxReplies
            /\ by = "user" => Count("user") < MaxSends + faults
      BY <1>3, Additions
  <2>2. Count("user") + Count("agent") < Bound
      BY <1>t, <2>1, RoomFor
  <2>3. PICK m \in Messages :
          /\ m.conv = c /\ m \notin Inserted /\ Inserted' = Inserted \cup {m}
          /\ \A x \in ToSet(log[c]) : x.n < m.n
          /\ ToSet(log'[c]) = ToSet(log[c]) \cup {m}
          /\ \A d \in Conversations : d # c => log'[d] = log[d]
          /\ wire' = IF joined = c THEN wire \cup {m} ELSE wire
      BY <1>t, <2>1, <2>2, InsertEffect DEF Adds
  <2>4. \A d \in Conversations : ToSet(log[d]) \subseteq ToSet(log'[d])
      BY <2>3
  <2> QED
      BY <2>1, <2>3, <2>4 DEF Adds
<1> QED
    BY <1>1, <1>2, <1>3

(***************************************************************************)
(* The window, the channel and the loads.                                  *)
(***************************************************************************)

\* What the list of loads is made of.
LEMMA LoadFacts ==
  ASSUME LoadTypes
  PROVE  /\ Len(loads) \in Nat /\ DOMAIN loads = 1 .. Len(loads)
         /\ \A i \in DOMAIN loads :
              /\ loads[i] \in Loads /\ loads[i].conv \in Conversations
              /\ loads[i].why \in {"init", "send", "tail"}
              /\ loads[i].stage \in {"asked", "served", "joining"}
              /\ loads[i].snap \in Seq(Messages)
<1>1. Len(loads) \in Nat /\ DOMAIN loads = 1 .. Len(loads)
    BY LenProperties DEF LoadTypes
<1>2. \A i \in DOMAIN loads : loads[i] \in Loads
    BY <1>1, ElementOfSeq DEF LoadTypes
<1> QED
    BY <1>1, <1>2 DEF Loads

\* The channel is the open conversation's, and so is what is on its way: Join
\* checks the conversation after its awaits, and opening another one leaves.
LEMMA WindowStep == IInv /\ [Next]_vars => WindowTypes'
<1> SUFFICES ASSUME IInv, [Next]_vars
             PROVE  WindowTypes'
    OBVIOUS
<1>t. LogTypes /\ WindowTypes
    BY Parts
<1>l. LoadTypes
    BY Parts
<1>g. Inserted \subseteq Inserted'
    BY LogGrows
<1>1. CASE UNCHANGED window /\ wire' \subseteq wire
    BY <1>1, <1>g, <1>t DEF WindowTypes, window, WireShape, RealtimeFollowsWindow
<1>2. ASSUME NEW c \in Conversations, NEW m \in Messages, m.conv = c, m \in Inserted',
             wire' = IF joined = c THEN wire \cup {m} ELSE wire, UNCHANGED window
      PROVE  WindowTypes'
    BY <1>2, <1>g, <1>t DEF WindowTypes, window, WireShape, RealtimeFollowsWindow
<1>3. CASE Elsewhere \/ ServerSaves \/ ServerReplies
    BY <1>1, <1>2, <1>3, LogGrows
<1>4. ASSUME NEW i \in DOMAIN loads, Join(i)
      PROVE  WindowTypes'
  <2>1. CASE UNCHANGED <<joined, wire>>
      BY <1>1, <1>4, <2>1 DEF Join, window
  <2>2. CASE joined' = conv /\ wire' = Replay /\ conv \in Conversations
    <3>1. Replay \subseteq ToSet(log[conv])
        BY DEF Replay
    <3>2. \A m \in Replay : m.conv = conv /\ m \in Inserted
        BY <1>t, <2>2, <3>1, LogFacts
    <3> QED
        BY <1>4, <1>g, <1>t, <2>2, <3>2 DEF Join, WindowTypes, WireShape, RealtimeFollowsWindow
  <2>3. loads[i].conv \in Conversations
      BY <1>l, LoadFacts
  <2> QED
      BY <1>4, <2>1, <2>2, <2>3 DEF Join
<1>5. CASE Deliver
    BY <1>1, <1>5 DEF Deliver
<1>6. ASSUME NEW c \in Conversations, Switch(c)
      PROVE  WindowTypes'
    BY <1>6 DEF Switch, WindowTypes, WireShape, RealtimeFollowsWindow
<1>7. ASSUME NEW i \in DOMAIN loads, LoadServed(i) \/ LoadAnswered(i) \/ LoadFails(i)
      PROVE  WindowTypes'
    BY <1>1, <1>7 DEF LoadServed, LoadAnswered, LoadFails
<1>8. CASE Send \/ Regenerate \/ Consume \/ Break
    BY <1>1, <1>8 DEF Send, Regenerate, Begin, Consume, Break
<1>9. CASE ServerErrs \/ ServerEnds \/ FallbackAnswered \/ FallbackFails
    BY <1>1, <1>9 DEF ServerErrs, ServerEnds, FallbackAnswered, FallbackFails
<1>10. CASE UNCHANGED vars
    BY <1>1, <1>10 DEF vars, window
<1> QED
    BY <1>3, <1>4, <1>5, <1>6, <1>7, <1>8, <1>9, <1>10 DEF Next

\* What a GET has read stays true of the rows: they only grow, at their end, or
\* are deleted.
LEMMA FaithfulStays ==
  ASSUME IInv, [Next]_vars
  PROVE  \A l \in Loads : Faithful(l, log, deleted) => Faithful(l, log', deleted')
<1> SUFFICES ASSUME NEW l \in Loads, Faithful(l, log, deleted)
             PROVE  Faithful(l, log', deleted')
    OBVIOUS
<1>1. l.conv \in Conversations /\ l.snap \in Seq(Messages)
    BY DEF Loads
<1>2. \A k \in DOMAIN l.snap : l.snap[k] \in ToSet(log[l.conv])
    BY DEF Faithful, ToSet
<1>3. CASE log' = log
  <2>1. deleted \subseteq deleted'
      BY <1>3, KeepsLog
  <2> QED
      BY <1>3, <2>1 DEF Faithful
<1>4. ASSUME NEW c \in Conversations, NEW m \in Messages, deleted' = deleted,
             \A x \in ToSet(log[c]) : x.n < m.n,
             ToSet(log'[c]) = ToSet(log[c]) \cup {m},
             \A d \in Conversations : d # c => log'[d] = log[d]
      PROVE  Faithful(l, log', deleted')
  <2>1. CASE l.conv # c
      BY <1>1, <1>4, <2>1 DEF Faithful
  <2>2. CASE l.conv = c
    <3>1. \A k \in DOMAIN l.snap : l.snap[k].n < m.n
        BY <1>2, <1>4, <2>2
    <3> QED
        BY <1>4, <2>2, <3>1 DEF Faithful
  <2> QED
      BY <2>1, <2>2
<1> QED
    BY <1>3, <1>4, LogGrows

\* What is left of a list without one of its entries.
LEMMA Removing ==
  ASSUME NEW S, NEW s \in Seq(S), NEW i \in DOMAIN s
  PROVE  /\ RemoveAt(s, i) \in Seq(S)
         /\ DOMAIN RemoveAt(s, i) = 1 .. Len(s) - 1
         /\ \A j \in 1 .. Len(s) - 1 : RemoveAt(s, i)[j] = IF j < i THEN s[j] ELSE s[j + 1]
         /\ \A j \in DOMAIN RemoveAt(s, i) : \E k \in DOMAIN s : k # i /\ RemoveAt(s, i)[j] = s[k]
         /\ \A k \in DOMAIN s : k # i => \E j \in DOMAIN RemoveAt(s, i) : RemoveAt(s, i)[j] = s[k]
<1> DEFINE a == SubSeq(s, 1, i - 1)
           b == SubSeq(s, i + 1, Len(s))
           r == a \o b
<1>1. Len(s) \in Nat /\ DOMAIN s = 1 .. Len(s) /\ i \in 1 .. Len(s)
    BY LenProperties
<1>2. a \in Seq(S) /\ Len(a) = i - 1 /\ \A j \in 1 .. i - 1 : a[j] = s[j]
    BY <1>1, SubSeqProperties
<1>3. b \in Seq(S) /\ Len(b) = Len(s) - i /\ \A j \in 1 .. Len(s) - i : b[j] = s[i + j]
    BY <1>1, SubSeqProperties
<1> HIDE DEF a, b
<1>4. /\ r \in Seq(S) /\ DOMAIN r = 1 .. Len(s) - 1
      /\ \A j \in 1 .. Len(s) - 1 : r[j] = IF j < i THEN s[j] ELSE s[j + 1]
  <2>0. r \in Seq(S) /\ Len(r) = Len(a) + Len(b)
      BY <1>2, <1>3, ConcatProperties
  <2>1. r \in Seq(S) /\ Len(r) = Len(s) - 1
      BY <1>1, <1>2, <1>3, <2>0
  <2>2. \A j \in 1 .. Len(r) : r[j] = IF j <= Len(a) THEN a[j] ELSE b[j - Len(a)]
      BY <1>2, <1>3, ConcatProperties
  <2>3. ASSUME NEW j \in 1 .. Len(s) - 1
        PROVE  r[j] = IF j < i THEN s[j] ELSE s[j + 1]
    <3>1. CASE j < i
        BY <1>1, <1>2, <2>1, <2>2, <3>1
    <3>2. CASE ~(j < i)
      <4>1. r[j] = b[j - (i - 1)]
          BY <1>1, <1>2, <2>1, <2>2, <3>2
      <4>2. j - (i - 1) \in 1 .. Len(s) - i /\ i + (j - (i - 1)) = j + 1
          BY <1>1, <3>2
      <4> QED
          BY <1>3, <3>2, <4>1, <4>2
    <3> QED
        BY <3>1, <3>2
  <2> QED
      BY <2>1, <2>3, LenProperties
<1>5. RemoveAt(s, i) = r
    BY DEF RemoveAt, a, b
<1> HIDE DEF r
<1>6. ASSUME NEW j \in DOMAIN r
      PROVE  \E k \in DOMAIN s : k # i /\ r[j] = s[k]
  <2>1. CASE j < i
      BY <1>1, <1>4, <2>1
  <2>2. CASE ~(j < i)
    <3>1. j + 1 \in DOMAIN s /\ j + 1 # i /\ r[j] = s[j + 1]
        BY <1>1, <1>4, <2>2
    <3> QED
        BY <3>1
  <2> QED
      BY <2>1, <2>2
<1>7. ASSUME NEW k \in DOMAIN s, k # i
      PROVE  \E j \in DOMAIN r : r[j] = s[k]
  <2>1. CASE k < i
    <3>1. k \in DOMAIN r /\ r[k] = s[k]
        BY <1>1, <1>4, <2>1
    <3> QED
        BY <3>1
  <2>2. CASE ~(k < i)
    <3>1. k - 1 \in DOMAIN r /\ r[k - 1] = s[k]
        BY <1>1, <1>4, <1>7, <2>2
    <3> QED
        BY <3>1
  <2> QED
      BY <2>1, <2>2
<1> QED
    BY <1>4, <1>5, <1>6, <1>7

\* The entries of a list of loads that is asked for.
Asks == {<<>>, <<"init">>, <<"send">>, <<"tail">>, <<"init", "tail">>}

\* _loadMessages up to its await: new loads come after those there are.
LEMMA StartEffect ==
  ASSUME LoadTypes, NEW c \in Conversations, NEW whys \in Asks, StartLoads(c, whys)
  PROVE  /\ loads' \in Seq(Loads) /\ loading' \in BOOLEAN
         /\ \A j \in DOMAIN loads' :
              \/ \E k \in DOMAIN loads : loads'[j] = loads[k]
              \/ \E w \in {"init", "send", "tail"} : loads'[j] = Asked(c, w)
         /\ \A j \in DOMAIN loads' :
              \/ j \in DOMAIN loads /\ loads'[j] = loads[j]
              \/ \E k \in DOMAIN whys : j = Len(loads) + k /\ loads'[j] = Asked(c, whys[k])
         /\ whys = <<>> => UNCHANGED <<loads, loading, shown, lossy>>
         /\ whys # <<>> =>
              /\ shown' = <<>> /\ lossy' = FALSE
              /\ \E j \in DOMAIN loads' : loads'[j].conv = c /\ loads'[j].stage = "asked"
<1> DEFINE n == Len(whys)
           new == [k \in DOMAIN whys |-> Asked(c, whys[k])]
<1>1. /\ n \in 0 .. 2 /\ DOMAIN whys = 1 .. n
      /\ \A k \in 1 .. n : whys[k] \in {"init", "send", "tail"}
    BY DEF Asks
<1>2. \A w \in {"init", "send", "tail"} : Asked(c, w) \in Loads
  <2>1. <<>> \in Seq(Messages)
      OBVIOUS
  <2> QED
      BY <2>1 DEF Asked, Loads
<1>3. new \in [1 .. n -> Loads] /\ new \in Seq(Loads) /\ Len(new) = n
  <2>1. \A k \in 1 .. n : Asked(c, whys[k]) \in Loads
      BY <1>1, <1>2
  <2>2. new \in [1 .. n -> Loads] /\ n \in Nat
      BY <1>1, <2>1
  <2> HIDE DEF new
  <2> QED
      BY <2>2
<1>4. CASE whys = <<>>
    BY <1>4 DEF StartLoads, LoadTypes
<1>5. CASE whys # <<>>
  <2>1. loads' = loads \o new /\ loading' = TRUE /\ shown' = <<>> /\ lossy' = FALSE
      BY <1>5 DEF StartLoads
  <2>2. n \in 1 .. 2
      BY <1>1, <1>5 DEF Asks
  <2>3. \A k \in 1 .. n : new[k] = Asked(c, whys[k])
      BY <1>1
  <2>4. new[1].conv = c /\ new[1].stage = "asked"
      BY <1>1, <2>2 DEF Asked
  <2> HIDE DEF new, n
  <2>5. /\ loads \in Seq(Loads) /\ Len(loads) \in Nat /\ DOMAIN loads = 1 .. Len(loads)
      BY LoadFacts DEF LoadTypes
  <2>6. loads' \in Seq(Loads) /\ Len(loads') = Len(loads) + n
    <3>1. loads \o new \in Seq(Loads) /\ Len(loads \o new) = Len(loads) + Len(new)
        BY <1>3, <2>5, ConcatProperties
    <3> QED
        BY <1>3, <2>1, <3>1
  <2>7. \A j \in 1 .. Len(loads) + n :
           loads'[j] = IF j <= Len(loads) THEN loads[j] ELSE new[j - Len(loads)]
      BY <1>3, <2>1, <2>5, ConcatProperties
  <2>8. DOMAIN loads' = 1 .. Len(loads) + n
      BY <2>6, LenProperties
  <2>9. ASSUME NEW j \in DOMAIN loads'
        PROVE  \/ j \in DOMAIN loads /\ loads'[j] = loads[j]
               \/ \E k \in DOMAIN whys :
                     /\ j = Len(loads) + k /\ loads'[j] = Asked(c, whys[k])
                     /\ whys[k] \in {"init", "send", "tail"}
    <3>1. CASE j <= Len(loads)
        BY <2>5, <2>7, <2>8, <3>1
    <3>2. CASE ~(j <= Len(loads))
      <4>1. j - Len(loads) \in 1 .. n /\ loads'[j] = new[j - Len(loads)]
          BY <1>1, <2>5, <2>7, <2>8, <3>2
      <4>2. j = Len(loads) + (j - Len(loads))
          BY <2>5, <2>8
      <4> QED
          BY <1>1, <2>3, <4>1, <4>2
    <3> QED
        BY <3>1, <3>2
  <2>10. Len(loads) + 1 \in DOMAIN loads' /\ loads'[Len(loads) + 1] = new[1]
    <3>1. Len(loads) + 1 \in 1 .. Len(loads) + n /\ ~(Len(loads) + 1 <= Len(loads))
          /\ Len(loads) + 1 - Len(loads) = 1
        BY <2>2, <2>5
    <3> QED
        BY <2>7, <2>8, <3>1
  <2> QED
      BY <1>5, <2>1, <2>4, <2>6, <2>9, <2>10
<1> QED
    BY <1>4, <1>5

\* A load just asked for has read nothing yet.
LEMMA AskedFaithful ==
  ASSUME NEW c \in Conversations, NEW w \in {"init", "send", "tail"}, NEW rows, NEW gone
  PROVE  Asked(c, w) \in Loads /\ Faithful(Asked(c, w), rows, gone)
<1>1. <<>> \in Seq(Messages) /\ DOMAIN <<>> = {}
    OBVIOUS
<1> QED
    BY <1>1 DEF Asked, Loads, Faithful, ToSet, IsInjective

\* What the GET of a conversation returns.
LEMMA Served ==
  ASSUME LogTypes, NEW c \in Conversations
  PROVE  /\ Saved(c) \in Seq(Messages) /\ IsInjective(Saved(c))
         /\ ToSet(Saved(c)) = ToSet(log[c]) \ deleted
<1>1. log[c] \in Seq(Messages) /\ IsInjective(log[c])
    BY LogFacts
<1>2. Saved(c) \in Seq(Messages \ deleted)
    BY <1>1, WithoutProperties DEF Saved
<1>3. Saved(c) \in Seq(Messages)
    BY <1>2, SeqMonotonic
<1> QED
    BY <1>1, <1>3, WithoutProperties DEF Saved

\* Where loads are started, a conversation is open.
LEMMA Starts ==
  ASSUME IInv, Consume \/ Break \/ FallbackAnswered \/ (\E c \in Conversations : Switch(c))
  PROVE  \/ UNCHANGED <<loads, loading>>
         \/ \E c \in Conversations, whys \in Asks : c = conv' /\ StartLoads(c, whys)
<1>t. WindowTypes /\ SendTypes
    BY Parts
<1>1. send # None => conv \in Conversations
    BY <1>t DEF WindowTypes, SendTypes, StreamShape
<1>2. ASSUME NEW c \in Conversations, Switch(c)
      PROVE  \E d \in Conversations, whys \in Asks : d = conv' /\ StartLoads(d, whys)
    BY <1>2 DEF Switch, Asks
<1>3. CASE FallbackAnswered
    BY <1>1, <1>3 DEF FallbackAnswered, Asks, window
<1>4. CASE (Consume \/ Break) /\ Finish
  <2>1. send # None /\ conv' = conv
      BY <1>4 DEF Consume, Break, Streaming, window
  <2>2. StartLoads(conv, <<"tail">>) \/ StartLoads(conv, <<>>)
      BY <1>4 DEF Finish
  <2> QED
      BY <1>1, <2>1, <2>2 DEF Asks
<1>5. CASE (Consume \/ Break) /\ ~Finish
    BY <1>5 DEF Consume, Break
<1> QED
    BY <1>2, <1>3, <1>4, <1>5

\* Every load is faithful to the rows of its own conversation.
LEMMA LoadsStep == IInv /\ [Next]_vars => LoadTypes'
<1> SUFFICES ASSUME IInv, [Next]_vars
             PROVE  LoadTypes'
    OBVIOUS
<1>t. LogTypes /\ LoadTypes
    BY Parts
<1>l. /\ loads \in Seq(Loads) /\ Len(loads) \in Nat /\ DOMAIN loads = 1 .. Len(loads)
      /\ \A i \in DOMAIN loads : loads[i] \in Loads
      /\ loading \in BOOLEAN
    BY <1>t, LoadFacts DEF LoadTypes
<1>f. \A i \in DOMAIN loads : Faithful(loads[i], log', deleted')
    BY <1>t, <1>l, FaithfulStays DEF LoadTypes, LoadsShape
<1>1. CASE UNCHANGED <<loads, loading>>
    BY <1>1, <1>f, <1>l DEF LoadTypes, LoadsShape
<1>2. ASSUME NEW i \in DOMAIN loads, LoadServed(i)
      PROVE  LoadTypes'
  <2> DEFINE l == [loads[i] EXCEPT !.stage = "served", !.snap = Saved(loads[i].conv)]
  <2>1. loads' = [loads EXCEPT ![i] = l] /\ loading' = loading /\ log' = log /\ deleted' = deleted
      BY <1>2 DEF LoadServed, server
  <2>2. loads[i].conv \in Conversations
      BY <1>l DEF Loads
  <2>3. /\ l \in Loads /\ l.conv = loads[i].conv /\ l.stage = "served"
        /\ l.snap = Saved(loads[i].conv)
      BY <1>l, <1>t, <2>2, Served DEF Loads
  <2>4. Faithful(l, log, deleted)
      BY <1>t, <2>2, <2>3, Served DEF Faithful
  <2> HIDE DEF l
  <2>5. loads' \in Seq(Loads) /\ DOMAIN loads' = DOMAIN loads
      BY <1>l, <2>1, <2>3, ExceptSeq
  <2>6. \A j \in DOMAIN loads' : Faithful(loads'[j], log', deleted')
      BY <1>f, <1>l, <2>1, <2>4, <2>5
  <2> QED
      BY <1>l, <2>1, <2>5, <2>6 DEF LoadTypes, LoadsShape
<1>3. ASSUME NEW i \in DOMAIN loads, LoadAnswered(i) \/ LoadFails(i)
      PROVE  LoadTypes'
  <2>1. Continue(i) /\ log' = log /\ deleted' = deleted
      BY <1>3 DEF LoadAnswered, LoadFails, server
  <2>2. CASE loads[i].why = "init"
    <3> DEFINE l == [loads[i] EXCEPT !.stage = "joining"]
    <3>1. loads' = [loads EXCEPT ![i] = l] /\ loading' = FALSE
        BY <2>1, <2>2 DEF Continue
    <3>2. /\ l \in Loads /\ l.conv = loads[i].conv /\ l.stage = "joining"
          /\ l.snap = loads[i].snap
        BY <1>l DEF Loads
    <3>3. Faithful(l, log', deleted')
      <4>1. Faithful(loads[i], log', deleted')
          BY <1>f
      <4> QED
          BY <3>2, <4>1 DEF Faithful
    <3> HIDE DEF l
    <3>4. loads' \in Seq(Loads) /\ DOMAIN loads' = DOMAIN loads
        BY <1>l, <3>1, <3>2, ExceptSeq
    <3>5. \A j \in DOMAIN loads' : Faithful(loads'[j], log', deleted')
        BY <1>f, <1>l, <3>1, <3>3, <3>4
    <3> QED
        BY <3>1, <3>4, <3>5 DEF LoadTypes, LoadsShape
  <2>3. CASE loads[i].why # "init"
    <3>1. loads' = RemoveAt(loads, i) /\ loading' = FALSE
        BY <2>1, <2>3 DEF Continue
    <3>2. loads' \in Seq(Loads) /\ \A j \in DOMAIN loads' : \E k \in DOMAIN loads : loads'[j] = loads[k]
        BY <1>l, <3>1, Removing
    <3> QED
        BY <1>f, <3>1, <3>2 DEF LoadTypes, LoadsShape
  <2> QED
      BY <2>2, <2>3
<1>4. ASSUME NEW i \in DOMAIN loads, Join(i)
      PROVE  LoadTypes'
  <2>1. loads' = RemoveAt(loads, i) /\ loading' = loading
      BY <1>4 DEF Join
  <2>2. loads' \in Seq(Loads) /\ \A j \in DOMAIN loads' : \E k \in DOMAIN loads : loads'[j] = loads[k]
      BY <1>l, <2>1, Removing
  <2> QED
      BY <1>f, <1>l, <2>1, <2>2 DEF LoadTypes, LoadsShape
<1>5. ASSUME NEW c \in Conversations, NEW whys \in Asks, StartLoads(c, whys)
      PROVE  LoadTypes'
  <2>1. /\ loads' \in Seq(Loads) /\ loading' \in BOOLEAN
        /\ \A j \in DOMAIN loads' :
              \/ \E k \in DOMAIN loads : loads'[j] = loads[k]
              \/ \E w \in {"init", "send", "tail"} : loads'[j] = Asked(c, w)
      BY <1>5, <1>t, StartEffect
  <2>2. \A w \in {"init", "send", "tail"} : Faithful(Asked(c, w), log', deleted')
      BY AskedFaithful
  <2> QED
      BY <1>f, <2>1, <2>2 DEF LoadTypes, LoadsShape
<1>6. CASE Consume \/ Break \/ FallbackAnswered \/ \E c \in Conversations : Switch(c)
    BY <1>1, <1>5, <1>6, Starts
<1>7. CASE Elsewhere \/ ServerSaves \/ ServerReplies
  <2>1. UNCHANGED <<loads, loading>>
      BY <1>7, LogGrows
  <2> QED
      BY <1>1, <2>1
<1>8. CASE ServerErrs \/ ServerEnds \/ Deliver \/ Send \/ Regenerate \/ FallbackFails
    BY <1>1, <1>8 DEF ServerErrs, ServerEnds, Deliver, Send, Regenerate, Begin, FallbackFails
<1>9. CASE UNCHANGED vars
    BY <1>1, <1>9 DEF vars
<1> QED
    BY <1>2, <1>3, <1>4, <1>6, <1>7, <1>8, <1>9 DEF Next

\* A send waits for its reload until that is answered.
LEMMA WaitsForReload ==
  ASSUME IInv, [Next]_vars, send # None, send.phase = "reload"
  PROVE  \/ send' = send
         \/ \E i \in DOMAIN loads : loads[i].why = "send" /\ Continue(i)
<1>1. ASSUME NEW i \in DOMAIN loads, Continue(i)
      PROVE  send' = send \/ loads[i].why = "send"
    BY <1>1 DEF Continue
<1>2. ~ServerSaves /\ ~ServerErrs /\ ~ServerEnds /\ ~Send /\ ~Regenerate /\ ~Consume /\ ~Break
    BY DEF ServerSaves, ServerErrs, ServerEnds, Send, Regenerate, Begin, Consume, Break, Streaming
<1>3. ~FallbackAnswered /\ ~FallbackFails
    BY DEF FallbackAnswered, FallbackFails
<1>4. ASSUME NEW c \in Conversations, Switch(c)
      PROVE  send' = send
    BY <1>4 DEF Switch, Streaming
<1>5. CASE Elsewhere \/ ServerReplies \/ Deliver \/ UNCHANGED vars
    BY <1>5 DEF Elsewhere, ServerReplies, Deliver, vars
<1>6. ASSUME NEW i \in DOMAIN loads, LoadServed(i) \/ Join(i)
      PROVE  send' = send
    BY <1>6 DEF LoadServed, Join
<1>7. ASSUME NEW i \in DOMAIN loads, LoadAnswered(i) \/ LoadFails(i)
      PROVE  send' = send \/ (loads[i].why = "send" /\ Continue(i))
    BY <1>1, <1>7 DEF LoadAnswered, LoadFails
<1> QED
    BY <1>2, <1>3, <1>4, <1>5, <1>6, <1>7 DEF Next

\* At most one load ends a send: the fallback is answered once, and a send in
\* its reload begins nothing else.
LEMMA ReloadStep == IInv /\ [Next]_vars => OneReload'
<1> SUFFICES ASSUME IInv, [Next]_vars
             PROVE  OneReload'
    OBVIOUS
<1>t. LoadTypes /\ SendTypes /\ OneReload /\ WindowTypes
    BY Parts
<1>l. /\ loads \in Seq(Loads) /\ Len(loads) \in Nat /\ DOMAIN loads = 1 .. Len(loads)
      /\ \A i \in DOMAIN loads : loads[i] \in Loads
    BY <1>t, LoadFacts DEF LoadTypes
\* Loads that are those there were, in their places or moved up by one.
<1>1. ASSUME DOMAIN loads' = DOMAIN loads, \A j \in DOMAIN loads : loads'[j].why = loads[j].why,
             \/ send' = send
             \/ \A j \in DOMAIN loads : loads[j].why # "send"
      PROVE  OneReload'
    BY <1>t, <1>1 DEF OneReload
<1>2. ASSUME NEW i \in DOMAIN loads, loads' = RemoveAt(loads, i),
             send' = send \/ loads[i].why = "send"
      PROVE  OneReload'
  <2>0. /\ DOMAIN RemoveAt(loads, i) = 1 .. Len(loads) - 1
        /\ \A j \in 1 .. Len(loads) - 1 :
              RemoveAt(loads, i)[j] = IF j < i THEN loads[j] ELSE loads[j + 1]
      BY <1>l, Removing
  <2>1. /\ DOMAIN loads' = 1 .. Len(loads) - 1
        /\ \A j \in DOMAIN loads' : loads'[j] = IF j < i THEN loads[j] ELSE loads[j + 1]
      BY <1>2, <2>0
  <2>2. \A j \in DOMAIN loads' : (IF j < i THEN j ELSE j + 1) \in DOMAIN loads \ {i}
      BY <1>l, <2>1
  <2>3. CASE loads[i].why = "send"
    <3>1. \A j \in DOMAIN loads \ {i} : loads[j].why # "send"
        BY <1>t, <2>3 DEF OneReload
    <3>2. \A j \in DOMAIN loads' : loads'[j].why # "send"
        BY <2>1, <2>2, <3>1
    <3> QED
        BY <3>2 DEF OneReload
  <2>4. CASE loads[i].why # "send"
    <3> SUFFICES ASSUME NEW j \in DOMAIN loads', loads'[j].why = "send"
                 PROVE  /\ send' # None /\ send'.phase = "reload"
                        /\ \A k \in DOMAIN loads' : loads'[k].why = "send" => k = j
        BY DEF OneReload
    <3>1. send' = send
        BY <1>2, <2>4
    <3>2. /\ send # None /\ send.phase = "reload"
          /\ \A k \in DOMAIN loads' : loads'[k].why = "send" =>
                (IF k < i THEN k ELSE k + 1) = (IF j < i THEN j ELSE j + 1)
        BY <1>t, <2>1, <2>2 DEF OneReload
    <3>3. \A k \in DOMAIN loads' : k \in Int
        BY <2>1
    <3> QED
        BY <1>l, <3>1, <3>2, <3>3
  <2> QED
      BY <2>3, <2>4
\* Loads that are started after those there are.
<1>s. ASSUME NEW c \in Conversations, NEW whys \in Asks, StartLoads(c, whys)
      PROVE  \A j \in DOMAIN loads' :
                \/ j \in DOMAIN loads /\ loads'[j] = loads[j]
                \/ \E k \in DOMAIN whys : j = Len(loads) + k /\ loads'[j] = Asked(c, whys[k])
    BY <1>s, <1>t, StartEffect
<1>3. ASSUME NEW c \in Conversations, NEW whys \in Asks, StartLoads(c, whys),
             \A k \in DOMAIN whys : whys[k] # "send",
             send' = send \/ \A j \in DOMAIN loads : loads[j].why # "send"
      PROVE  OneReload'
  <2>1. \A j \in DOMAIN loads' :
              \/ j \in DOMAIN loads /\ loads'[j] = loads[j]
              \/ \E k \in DOMAIN whys : j = Len(loads) + k /\ loads'[j] = Asked(c, whys[k])
      BY <1>3, <1>s
  <2>2. \A j \in DOMAIN loads' : loads'[j].why = "send" => j \in DOMAIN loads /\ loads'[j] = loads[j]
      BY <1>3, <2>1 DEF Asked
  <2> QED
      BY <1>3, <1>t, <2>2 DEF OneReload
<1>n. (send = None \/ send.phase # "reload") => \A j \in DOMAIN loads : loads[j].why # "send"
    BY <1>t DEF OneReload
<1>4. ASSUME NEW i \in DOMAIN loads, LoadServed(i)
      PROVE  OneReload'
  <2>1. /\ loads' = [loads EXCEPT ![i] = [loads[i] EXCEPT !.stage = "served", !.snap = Saved(loads[i].conv)]]
        /\ send' = send
      BY <1>4 DEF LoadServed
  <2>2. DOMAIN loads' = DOMAIN loads /\ \A j \in DOMAIN loads : loads'[j].why = loads[j].why
      BY <1>l, <2>1 DEF Loads
  <2> QED
      BY <1>1, <2>1, <2>2
<1>5. ASSUME NEW i \in DOMAIN loads, LoadAnswered(i) \/ LoadFails(i)
      PROVE  OneReload'
  <2>1. Continue(i)
      BY <1>5 DEF LoadAnswered, LoadFails
  <2>2. CASE loads[i].why = "init"
    <3>1. loads' = [loads EXCEPT ![i] = [loads[i] EXCEPT !.stage = "joining"]] /\ send' = send
        BY <2>1, <2>2 DEF Continue
    <3>2. DOMAIN loads' = DOMAIN loads /\ \A j \in DOMAIN loads : loads'[j].why = loads[j].why
        BY <1>l, <3>1 DEF Loads
    <3> QED
        BY <1>1, <3>1, <3>2
  <2>3. CASE loads[i].why # "init"
      BY <1>2, <2>1, <2>3 DEF Continue
  <2> QED
      BY <2>2, <2>3
<1>6. ASSUME NEW i \in DOMAIN loads, Join(i)
      PROVE  OneReload'
    BY <1>2, <1>6 DEF Join
<1>7. ASSUME NEW c \in Conversations, Switch(c)
      PROVE  OneReload'
  <2>1. PICK whys \in {<<"init">>, <<"init", "tail">>} : StartLoads(c, whys)
      BY <1>7 DEF Switch
  <2>2. whys \in Asks /\ \A k \in DOMAIN whys : whys[k] # "send"
      BY DEF Asks
  <2>3. send' = send \/ send.phase # "reload"
      BY <1>7 DEF Switch, Streaming
  <2> QED
      BY <1>3, <1>n, <2>1, <2>2, <2>3
<1>8. CASE FallbackAnswered
  <2>1. /\ send # None /\ send \in Sends /\ send.phase = "fallback" /\ conv \in Conversations
        /\ send' = [send EXCEPT !.phase = "reload", !.srv = "over"]
        /\ StartLoads(conv, <<"send">>)
      BY <1>8, <1>t DEF FallbackAnswered, SendTypes, StreamShape, WindowTypes
  <2>2. send' \in Sends /\ send'.phase = "reload"
      BY <2>1 DEF Sends
  <2>3. send' # None
      BY <2>2, NoneAssumption
  <2>4. \A j \in DOMAIN loads' :
              \/ j \in DOMAIN loads /\ loads'[j] = loads[j]
              \/ j = Len(loads) + 1
    <3>1. PICK c \in Conversations, whys \in Asks : DOMAIN whys = {1} /\ StartLoads(c, whys)
        BY <2>1 DEF Asks
    <3>2. \A j \in DOMAIN loads' :
              \/ j \in DOMAIN loads /\ loads'[j] = loads[j]
              \/ \E k \in DOMAIN whys : j = Len(loads) + k /\ loads'[j] = Asked(c, whys[k])
        BY <1>s, <3>1
    <3> QED
        BY <3>1, <3>2
  <2>5. \A j \in DOMAIN loads' : loads'[j].why = "send" => j = Len(loads) + 1
      BY <1>n, <2>1, <2>4
  <2> QED
      BY <2>2, <2>3, <2>5 DEF OneReload
<1>9. CASE (Consume \/ Break) /\ Finish
  <2>1. send # None /\ send.phase = "stream" /\ conv \in Conversations
      BY <1>9, <1>t DEF Consume, Break, Streaming, SendTypes, StreamShape, WindowTypes
  <2>2. PICK whys \in {<<"tail">>, <<>>} : StartLoads(conv, whys)
      BY <1>9 DEF Finish
  <2>3. whys \in Asks /\ \A k \in DOMAIN whys : whys[k] # "send"
      BY DEF Asks
  <2> QED
      BY <1>3, <1>n, <2>1, <2>2, <2>3
<1>10. CASE UNCHANGED loads /\ (send' = send \/ send = None \/ send.phase # "reload")
    BY <1>1, <1>10, <1>n
<1>11. CASE (Consume \/ Break) /\ ~Finish
    BY <1>10, <1>11 DEF Consume, Break, Streaming
<1>12. CASE Elsewhere \/ ServerSaves \/ ServerReplies
  <2>1. loads' = loads
      BY <1>12, LogGrows
  <2>2. send' = send \/ send = None \/ send.phase # "reload"
      BY <1>12 DEF Elsewhere, ServerSaves, ServerReplies
  <2> QED
      BY <1>10, <2>1, <2>2
<1>13. CASE ServerErrs \/ ServerEnds \/ Deliver \/ Send \/ Regenerate \/ FallbackFails \/ UNCHANGED vars
    BY <1>10, <1>13 DEF ServerErrs, ServerEnds, Deliver, Send, Regenerate, Begin, FallbackFails, vars
<1> QED
    BY <1>4, <1>5, <1>6, <1>7, <1>8, <1>9, <1>11, <1>12, <1>13 DEF Next

(***************************************************************************)
(* The screen.                                                             *)
(***************************************************************************)

\* What may be on the screen: messages of the open conversation and the
\* message that is being sent.
Entries == {m \in Messages \cup {Optimistic(conv)} : m.conv = conv}

\* The temporary entry is one, and no message is it.
LEMMA OptimisticEntry ==
  /\ Optimistic(conv) \in Entries /\ Optimistic(conv) \notin Messages
  /\ \A m \in Messages : m.conv = conv => m \in Entries
BY MessageTypes DEF Entries, Optimistic

\* addMessage: the entry is there, once.
LEMMA AddedEffect ==
  ASSUME NEW S, NEW list \in Seq(S), IsInjective(list), NEW m \in S
  PROVE  /\ Added(list, m) \in Seq(S) /\ IsInjective(Added(list, m))
         /\ ToSet(Added(list, m)) = ToSet(list) \cup {m}
<1>1. CASE m \in ToSet(list)
    BY <1>1 DEF Added
<1>2. CASE m \notin ToSet(list)
    BY <1>2, AppendSet, AppendProperties DEF Added
<1> QED
    BY <1>1, <1>2

\* removeOptimistic: the temporary entry is gone, the others stay.
LEMMA RemovedEffect ==
  ASSUME NEW S, NEW list \in Seq(S), IsInjective(list), NEW c
  PROVE  /\ Removed(list, c) \in Seq(S) /\ IsInjective(Removed(list, c))
         /\ ToSet(Removed(list, c)) = ToSet(list) \ {Optimistic(c)}
<1>1. Removed(list, c) \in Seq(S \ {Optimistic(c)})
    BY WithoutProperties DEF Removed
<1>2. Removed(list, c) \in Seq(S)
    BY <1>1, SeqMonotonic
<1> QED
    BY <1>2, WithoutProperties DEF Removed

\* confirmOptimistic: whether or not the broadcast came first, no entry is there
\* twice, the temporary one is gone and no other one is.
LEMMA ConfirmedEffect ==
  ASSUME NEW S, NEW list \in Seq(S), IsInjective(list), NEW c, NEW m \in S, m # Optimistic(c)
  PROVE  /\ Confirmed(list, c, m) \in Seq(S) /\ IsInjective(Confirmed(list, c, m))
         /\ ToSet(list) \ {Optimistic(c)} \subseteq ToSet(Confirmed(list, c, m))
         /\ Optimistic(c) \notin ToSet(Confirmed(list, c, m))
<1> DEFINE o == Optimistic(c)
           r == [i \in DOMAIN list |-> IF list[i] = o THEN m ELSE list[i]]
<1>1. CASE m \in ToSet(list)
    BY <1>1, RemovedEffect DEF Confirmed
<1>2. CASE m \notin ToSet(list)
  <2>1. Confirmed(list, c, m) = r
      BY <1>2 DEF Confirmed
  <2>2. Len(list) \in Nat /\ DOMAIN list = 1 .. Len(list) /\ \A i \in DOMAIN list : list[i] \in S
      BY LenProperties
  <2>3. /\ r \in [1 .. Len(list) -> S] /\ DOMAIN r = DOMAIN list
        /\ \A i \in DOMAIN list : r[i] = IF list[i] = o THEN m ELSE list[i]
      BY <2>2
  <2> HIDE DEF o, r
  <2>4. r \in Seq(S)
      BY <2>2, <2>3
  <2>5. \A i \in DOMAIN list : list[i] # m
      BY <1>2 DEF ToSet
  <2>6. IsInjective(r)
    <3>1. ASSUME NEW a \in DOMAIN list, NEW b \in DOMAIN list, r[a] = r[b]
          PROVE  list[a] = list[b]
        BY <2>3, <2>5, <3>1
    <3> QED
        BY <2>3, <3>1 DEF IsInjective
  <2>7. o \notin ToSet(r)
    <3>1. m # o
        BY DEF o
    <3> QED
        BY <2>3, <3>1 DEF ToSet
  <2>8. ToSet(list) \ {o} \subseteq ToSet(r)
      BY <2>3 DEF ToSet
  <2> QED
      BY <2>1, <2>4, <2>6, <2>7, <2>8 DEF o
<1> QED
    BY <1>1, <1>2

\* The ways a step may change what is shown.
Same == shown' = shown /\ conv' = conv
Cleared == shown' = <<>>
Reloaded(i) == conv' = conv /\ loads[i].conv = conv /\ shown' = loads[i].snap
Grown(m) == conv' = conv /\ m \in Messages /\ m.conv = conv /\ shown' = Added(shown, m)
Settled(m) == conv' = conv /\ m \in Messages /\ m.conv = conv /\ shown' = Confirmed(shown, conv, m)

\* What the stream's events are, and its head and tail.
LEMMA StreamFacts ==
  ASSUME SendTypes
  PROVE  /\ events \in Seq(Events) /\ Len(events) \in Nat /\ DOMAIN events = 1 .. Len(events)
         /\ \A i \in DOMAIN events :
              /\ events[i] \in Events
              /\ events[i].what \in {"confirm", "reply", "error", "end"}
              /\ events[i].what \in {"confirm", "reply"} => events[i].m \in Messages
         /\ events # <<>> => /\ Head(events) = events[1] /\ 1 \in DOMAIN events
                             /\ Tail(events) \in Seq(Events)
                             /\ \A i \in DOMAIN Tail(events) :
                                   i + 1 \in DOMAIN events /\ Tail(events)[i] = events[i + 1]
<1>1. events \in Seq(Events) /\ Len(events) \in Nat /\ DOMAIN events = 1 .. Len(events)
    BY LenProperties DEF SendTypes
<1>2. \A i \in DOMAIN events : events[i] \in Events
    BY <1>1, ElementOfSeq
<1>3. \A e \in Events : /\ e.what \in {"confirm", "reply", "error", "end"}
                        /\ e.what \in {"confirm", "reply"} => e.m \in Messages
    BY DEF Events
<1>4. ASSUME events # <<>>
      PROVE  /\ Head(events) = events[1] /\ 1 \in DOMAIN events
             /\ Tail(events) \in Seq(Events)
             /\ \A i \in DOMAIN Tail(events) :
                   i + 1 \in DOMAIN events /\ Tail(events)[i] = events[i + 1]
  <2>1. Len(events) >= 1
      BY <1>1, <1>4, EmptySeq
  <2>2. /\ Head(events) = events[1] /\ Tail(events) \in Seq(Events)
        /\ Len(Tail(events)) = Len(events) - 1
        /\ \A i \in 1 .. Len(Tail(events)) : Tail(events)[i] = events[i + 1]
      BY <1>1, <1>4, HeadTailProperties
  <2>3. DOMAIN Tail(events) = 1 .. Len(events) - 1
      BY <2>2, LenProperties
  <2> QED
      BY <1>1, <2>1, <2>2, <2>3
<1> QED
    BY <1>1, <1>2, <1>3, <1>4

\* A stream that goes on, or is given up for the plain endpoint.
LEMMA ContinuedShown ==
  ASSUME IInv, Consume \/ Break, ~Finish
  PROVE  \/ Consume /\ Same
         \/ \E m : Consume /\ Grown(m)
         \/ \E m : Consume /\ Settled(m) /\ send' = [send EXCEPT !.confirmed = TRUE]
         \/ Break /\ conv' = conv /\ shown' = Removed(shown, conv)
<1>t. SendTypes
    BY Parts
<1>1. CASE Consume /\ ~Finish
  <2>1. /\ conv' = conv /\ send.conv = conv /\ events # <<>>
        /\ \A i \in DOMAIN events : events[i].what \in {"confirm", "reply"} => events[i].m.conv = conv
      BY <1>1, <1>t DEF Consume, window, SendTypes, StreamShape
  <2>2. /\ Head(events) = events[1]
        /\ events[1].what \in {"confirm", "reply"} => events[1].m \in Messages /\ events[1].m.conv = conv
      BY <1>t, <2>1, StreamFacts
  <2>3. CASE events[1].what = "confirm"
    <3>1. Settled(events[1].m) /\ send' = [send EXCEPT !.confirmed = TRUE]
        BY <1>1, <2>1, <2>2, <2>3 DEF Consume, Settled
    <3> QED
        BY <1>1, <3>1
  <2>4. CASE events[1].what = "reply"
    <3>1. Grown(events[1].m)
        BY <1>1, <2>1, <2>2, <2>4 DEF Consume, Grown
    <3> QED
        BY <1>1, <3>1
  <2>5. CASE events[1].what \notin {"confirm", "reply"}
      BY <1>1, <2>1, <2>2, <2>5 DEF Consume, Same
  <2> QED
      BY <2>3, <2>4, <2>5
<1>2. CASE Break /\ ~Finish
  <2>1. send.conv = conv /\ conv' = conv /\ shown' = Removed(shown, send.conv)
      BY <1>2, <1>t DEF Break, SendTypes, StreamShape, window
  <2> QED
      BY <1>2, <2>1
<1> QED
    BY <1>1, <1>2

\* Every step, by what it does to the screen.
LEMMA ShownMoves ==
  ASSUME IInv, [Next]_vars
  PROVE  \/ Same \/ Cleared
         \/ \E i \in DOMAIN loads : LoadAnswered(i) /\ Reloaded(i)
         \/ \E m : (Deliver \/ Consume) /\ Grown(m)
         \/ \E m : Consume /\ Settled(m) /\ send' = [send EXCEPT !.confirmed = TRUE]
         \/ Send
         \/ Break /\ conv' = conv /\ shown' = Removed(shown, conv)
<1>t. LogTypes /\ WindowTypes /\ LoadTypes /\ SendTypes
    BY Parts
<1>1. CASE Elsewhere \/ ServerSaves \/ ServerReplies
  <2>1. UNCHANGED <<shown, window>>
      BY <1>1, LogGrows DEF Elsewhere, ServerSaves, ServerReplies
  <2> QED
      BY <2>1 DEF Same, window
<1>2. CASE ServerErrs \/ ServerEnds \/ Regenerate \/ FallbackFails \/ UNCHANGED vars
    BY <1>2 DEF ServerErrs, ServerEnds, Regenerate, Begin, FallbackFails, vars, window, Same
<1>3. ASSUME NEW i \in DOMAIN loads, LoadServed(i) \/ LoadFails(i) \/ Join(i)
      PROVE  Same
    BY <1>3 DEF LoadServed, LoadFails, Join, window, Same
<1>4. ASSUME NEW i \in DOMAIN loads, LoadAnswered(i)
      PROVE  Same \/ Reloaded(i)
    BY <1>4 DEF LoadAnswered, window, Same, Reloaded
<1>5. CASE Deliver
  <2>1. PICK m \in wire : shown' = Added(shown, m) /\ conv' = conv
      BY <1>5 DEF Deliver, window
  <2>2. m \in Messages /\ m.conv \in Conversations
      BY <1>t, InsertedTypes, MessageTypes DEF WindowTypes
  <2>3. m.conv = conv
      BY <1>t, <2>1, <2>2, ChatAssumption DEF WindowTypes, WireShape, RealtimeFollowsWindow
  <2> QED
      BY <1>5, <2>1, <2>2, <2>3 DEF Grown
<1>6. ASSUME NEW c \in Conversations, Switch(c)
      PROVE  Cleared
    BY <1>6 DEF Switch, StartLoads, Cleared
<1>7. CASE FallbackAnswered
    BY <1>7 DEF FallbackAnswered, StartLoads, Cleared
<1>8. CASE (Consume \/ Break) /\ Finish
    BY <1>8 DEF Finish, StartLoads, Consume, Break, window, Cleared, Same
<1>9. CASE (Consume \/ Break) /\ ~Finish
    BY <1>9, ContinuedShown
<1> QED
    BY <1>1, <1>2, <1>3, <1>4, <1>5, <1>6, <1>7, <1>8, <1>9 DEF Next

(***************************************************************************)
(* The send and its stream.                                                *)
(***************************************************************************)

\* What a send that begins is.
LEMMA BeginEffect ==
  ASSUME IInv, NEW kind \in {"send", "regenerate"}, Begin(kind)
  PROVE  /\ send = None /\ conv \in Conversations /\ conv' = conv /\ events' = events
         /\ send' \in Sends /\ send' # None
         /\ send'.kind = kind /\ send'.conv = conv /\ send'.phase = "stream"
         /\ send'.srv = "save" /\ ~send'.confirmed
         /\ send'.since = Len(log[conv])
<1>t. LogTypes /\ Counted /\ WindowTypes
    BY Parts
<1>1. conv \in Conversations
    BY <1>t DEF Begin, WindowTypes
<1>2. Len(log[conv]) \in 0 .. Bound
    BY <1>1, <1>t, LogBound
<1>3. send' = [kind |-> kind, conv |-> conv, phase |-> "stream", srv |-> "save",
               since |-> Len(log[conv]), confirmed |-> FALSE, errors |-> FALSE,
               hadError |-> FALSE]
    BY DEF Begin
<1>4. send' \in Sends
    BY <1>1, <1>2, <1>3 DEF Sends
<1>5. /\ send'.kind = kind /\ send'.conv = conv /\ send'.phase = "stream"
      /\ send'.srv = "save" /\ send'.confirmed = FALSE
      /\ send'.since = Len(log[conv])
    BY <1>3
<1>6. send = None /\ conv' = conv /\ events' = events
    BY DEF Begin, window
<1>7. send' # None
    BY <1>4, NoneAssumption
<1> QED
    BY <1>1, <1>4, <1>5, <1>6, <1>7

\* The updates of a send that is under way.
LEMMA UpdateEffect ==
  ASSUME send \in Sends,
         \/ send' = send
         \/ send' = [send EXCEPT !.srv = "talk"]
         \/ send' = [send EXCEPT !.srv = "talk", !.errors = TRUE]
         \/ send' = [send EXCEPT !.errors = TRUE]
         \/ send' = [send EXCEPT !.srv = "over"]
         \/ send' = [send EXCEPT !.hadError = TRUE]
  PROVE  /\ send' \in Sends /\ send' # None
         /\ send'.kind = send.kind /\ send'.conv = send.conv /\ send'.phase = send.phase
         /\ send'.confirmed = send.confirmed
<1>1. /\ send' \in Sends
      /\ send'.kind = send.kind /\ send'.conv = send.conv /\ send'.phase = send.phase
      /\ send'.confirmed = send.confirmed
    BY DEF Sends
<1> QED
    BY <1>1, NoneAssumption

\* The message of the user is on the screen unconfirmed while this holds.
Waits == Streaming /\ send.kind = "send" /\ send.conv = conv /\ ~send.confirmed

\* An unconfirmed message appears with its send alone.
LEMMA OptimisticBefore ==
  ASSUME IInv, [Next]_vars, Optimistic(conv') \in ToSet(shown'), ~Send
  PROVE  conv' = conv /\ Optimistic(conv) \in ToSet(shown)
<1>t. LoadTypes /\ ShownTypes
    BY Parts
<1>1. shown \in Seq(Entries) /\ IsInjective(shown)
    BY <1>t DEF ShownTypes, Entries, NoDuplicates
<1>2. CASE Same
    BY <1>2 DEF Same
<1>3. CASE Cleared
    BY <1>3 DEF Cleared, ToSet
<1>4. ASSUME NEW i \in DOMAIN loads, Reloaded(i)
      PROVE  FALSE
  <2>1. loads[i].snap \in Seq(Messages)
      BY <1>t, LoadFacts
  <2>2. ToSet(loads[i].snap) \subseteq Messages
      BY <2>1 DEF ToSet
  <2> QED
      BY <1>4, <2>2, OptimisticEntry DEF Reloaded
<1>5. ASSUME NEW m, Grown(m)
      PROVE  conv' = conv /\ Optimistic(conv) \in ToSet(shown)
    BY <1>1, <1>5, AddedEffect, OptimisticEntry DEF Grown
<1>6. ASSUME NEW m, Settled(m)
      PROVE  FALSE
  <2>1. m \in Entries /\ m # Optimistic(conv)
      BY <1>6, OptimisticEntry DEF Settled
  <2>2. Optimistic(conv) \notin ToSet(Confirmed(shown, conv, m))
      BY <1>1, <2>1, ConfirmedEffect
  <2> QED
      BY <1>6, <2>2 DEF Settled
<1>7. CASE conv' = conv /\ shown' = Removed(shown, conv)
    BY <1>1, <1>7, RemovedEffect
<1> QED
    BY <1>2, <1>3, <1>4, <1>5, <1>6, <1>7, ShownMoves

\* A temporary entry on the screen waits for its confirmation: everything that
\* ends a send takes the entry away first.
LEMMA OptimisticWaits ==
  ASSUME IInv, [Next]_vars, conv' # None, Optimistic(conv') \in ToSet(shown')
  PROVE  Waits'
<1>t. LogTypes /\ LoadTypes /\ SendTypes /\ OneReload /\ ShownTypes
    BY Parts
<1>1. CASE Send
    BY <1>1, BeginEffect DEF Send, Waits, Streaming
<1>2. CASE ~Send
  <2>1. conv' = conv /\ Optimistic(conv) \in ToSet(shown)
      BY <1>2, OptimisticBefore
  <2>2. /\ send # None /\ send.phase = "stream" /\ send.kind = "send" /\ send.conv = conv
        /\ send \in Sends /\ ~send.confirmed
      BY <1>t, <2>1 DEF ShownTypes, OptimisticOnlyWhileSending, SendTypes, StreamShape, Streaming
  <2>3. shown \in Seq(Entries) /\ IsInjective(shown)
      BY <1>t DEF ShownTypes, Entries, NoDuplicates
  <2>4. CASE \/ send' = send
             \/ send' = [send EXCEPT !.srv = "talk"]
             \/ send' = [send EXCEPT !.srv = "talk", !.errors = TRUE]
             \/ send' = [send EXCEPT !.errors = TRUE]
             \/ send' = [send EXCEPT !.srv = "over"]
             \/ send' = [send EXCEPT !.hadError = TRUE]
      BY <2>1, <2>2, <2>4, UpdateEffect DEF Waits, Streaming
  <2>5. CASE Elsewhere \/ ServerSaves \/ ServerReplies \/ ServerErrs \/ ServerEnds \/ Deliver \/ UNCHANGED vars
      BY <2>4, <2>5 DEF Elsewhere, ServerSaves, ServerReplies, ServerErrs, ServerEnds, Deliver, vars
  <2>6. ASSUME NEW i \in DOMAIN loads, LoadServed(i) \/ LoadAnswered(i) \/ LoadFails(i) \/ Join(i)
        PROVE  send' = send
    <3>1. loads[i].why # "send"
        BY <1>t, <2>2 DEF OneReload
    <3> QED
        BY <2>6, <3>1 DEF LoadServed, LoadAnswered, LoadFails, Join, Continue
  <2>7. ASSUME NEW c \in Conversations, Switch(c)
        PROVE  FALSE
      BY <2>1, <2>7 DEF Switch
  <2>8. ~Regenerate /\ ~FallbackAnswered /\ ~FallbackFails
      BY <2>2 DEF Regenerate, Begin, FallbackAnswered, FallbackFails
  <2>9. ~Break
    <3>1. SUFFICES ASSUME Break PROVE FALSE
        OBVIOUS
    <3>2. shown' = Removed(shown, conv)
        BY <2>2, <3>1 DEF Break
    <3> QED
        BY <2>1, <2>3, <3>2, RemovedEffect
  <2>10. CASE Consume
    <3>1. events # <<>> /\ Head(events) = events[1]
        BY <1>t, <2>10, StreamFacts DEF Consume
    <3>2. events[1].what = "confirm"
        BY <1>t, <2>2, <3>1 DEF SendTypes, StreamShape, Streaming
    <3>3. /\ events[1].m \in Messages /\ events[1].m.conv = conv
          /\ shown' = Confirmed(shown, conv, events[1].m)
      <4>1. events[1].m.conv = conv
          BY <1>t, <2>2, <3>1, <3>2, StreamFacts DEF SendTypes, StreamShape, Streaming
      <4> QED
          BY <1>t, <2>2, <2>10, <3>1, <3>2, <4>1, StreamFacts DEF Consume
    <3>4. events[1].m \in Entries /\ events[1].m # Optimistic(conv)
        BY <3>3, OptimisticEntry
    <3>5. Optimistic(conv) \notin ToSet(shown')
        BY <2>3, <3>3, <3>4, ConfirmedEffect
    <3> QED
        BY <2>1, <3>5
  <2> QED
      BY <1>2, <2>4, <2>5, <2>6, <2>7, <2>8, <2>9, <2>10 DEF Next
<1> QED
    BY <1>1, <1>2

\* The screen shows the open conversation, every entry once.
LEMMA ShownStep == IInv /\ [Next]_vars => ShownTypes'
<1> SUFFICES ASSUME IInv, [Next]_vars
             PROVE  ShownTypes'
    OBVIOUS
<1>t. LogTypes /\ LoadTypes /\ ShownTypes /\ SendTypes
    BY Parts
<1>1. shown \in Seq(Entries) /\ IsInjective(shown)
    BY <1>t DEF ShownTypes, Entries, NoDuplicates
<1>2. conv' # None /\ Optimistic(conv') \in ToSet(shown') =>
        Streaming' /\ send'.kind = "send" /\ send'.conv = conv'
    BY OptimisticWaits DEF Waits
<1>3. conv' = conv => Entries' = Entries
    BY DEF Entries, Messages, Optimistic
<1>4. shown' \in Seq(Entries') /\ IsInjective(shown')
  <2>1. CASE Same
      BY <1>1, <1>3, <2>1 DEF Same
  <2>2. CASE Cleared
    <3>1. <<>> \in Seq(Entries') /\ IsInjective(<<>>)
        BY DEF IsInjective
    <3> QED
        BY <2>2, <3>1 DEF Cleared
  <2>3. ASSUME NEW i \in DOMAIN loads, Reloaded(i)
        PROVE  shown' \in Seq(Entries') /\ IsInjective(shown')
    <3> DEFINE s == loads[i].snap
    <3>1. loads[i].conv \in Conversations /\ loads[i].snap \in Seq(Messages) /\ Faithful(loads[i], log, deleted)
        BY <1>t, LoadFacts DEF LoadTypes, LoadsShape
    <3>2. s \in Seq(Messages) /\ IsInjective(s) /\ ToSet(s) \subseteq ToSet(log[conv]) /\ conv \in Conversations
        BY <2>3, <3>1 DEF Faithful, Reloaded
    <3>3. \A m \in ToSet(s) : m \in Entries
        BY <1>t, <3>2, LogFacts, OptimisticEntry
    <3> HIDE DEF s
    <3>4. s \in Seq(Entries)
      <4>1. Len(s) \in Nat /\ DOMAIN s = 1 .. Len(s) /\ \A k \in DOMAIN s : s[k] \in ToSet(s)
          BY <3>2, LenProperties DEF ToSet
      <4>2. \A k \in 1 .. Len(s) : s[k] \in Entries
          BY <3>3, <4>1
      <4>3. s \in [1 .. Len(s) -> Entries]
          BY <3>2, <4>1, <4>2
      <4> QED
          BY <4>1, <4>3
    <3> QED
        BY <1>3, <2>3, <3>2, <3>4 DEF Reloaded, s
  <2>4. ASSUME NEW m, Grown(m)
        PROVE  shown' \in Seq(Entries') /\ IsInjective(shown')
      BY <1>1, <1>3, <2>4, AddedEffect, OptimisticEntry DEF Grown
  <2>5. ASSUME NEW m, Settled(m)
        PROVE  shown' \in Seq(Entries') /\ IsInjective(shown')
    <3>1. m \in Entries /\ m # Optimistic(conv)
        BY <2>5, OptimisticEntry DEF Settled
    <3> QED
        BY <1>1, <1>3, <2>5, <3>1, ConfirmedEffect DEF Settled
  <2>6. CASE Send
      BY <1>1, <1>3, <2>6, AddedEffect, OptimisticEntry, BeginEffect DEF Send
  <2>7. CASE conv' = conv /\ shown' = Removed(shown, conv)
      BY <1>1, <1>3, <2>7, RemovedEffect
  <2> QED
      BY <2>1, <2>2, <2>3, <2>4, <2>5, <2>6, <2>7, ShownMoves
<1>5. lossy' \in BOOLEAN
  <2>1. lossy \in BOOLEAN
      BY <1>t DEF ShownTypes
  <2>2. ASSUME NEW c, NEW whys, StartLoads(c, whys)
        PROVE  lossy' \in BOOLEAN
      BY <2>1, <2>2 DEF StartLoads
  <2>3. CASE Elsewhere \/ ServerSaves \/ ServerReplies \/ ServerErrs \/ ServerEnds \/ Deliver
      BY <2>1, <2>3 DEF Elsewhere, ServerSaves, ServerReplies, ServerErrs, ServerEnds, Deliver
  <2>4. ASSUME NEW i \in DOMAIN loads, LoadServed(i) \/ LoadAnswered(i) \/ LoadFails(i) \/ Join(i)
        PROVE  lossy' \in BOOLEAN
      BY <2>1, <2>4 DEF LoadServed, LoadAnswered, LoadFails, Join
  <2>5. ASSUME NEW c \in Conversations, Switch(c)
        PROVE  lossy' \in BOOLEAN
      BY <2>2, <2>5 DEF Switch
  <2>6. CASE Send \/ Regenerate \/ FallbackFails \/ UNCHANGED vars
      BY <2>1, <2>6 DEF Send, Regenerate, Begin, FallbackFails, vars
  <2>7. CASE Consume \/ Break \/ FallbackAnswered
      BY <2>1, <2>2, <2>7 DEF Consume, Break, FallbackAnswered, Finish
  <2> QED
      BY <2>3, <2>4, <2>5, <2>6, <2>7 DEF Next
<1> QED
    BY <1>2, <1>4, <1>5 DEF ShownTypes, Entries, NoDuplicates, OptimisticOnlyWhileSending

\* An event more on the stream.
LEMMA EmitEffect ==
  ASSUME SendTypes, NEW e \in Events, events' = Append(events, e)
  PROVE  /\ events' \in Seq(Events) /\ events' # <<>>
         /\ DOMAIN events' = 1 .. Len(events) + 1
         /\ \A i \in DOMAIN events' : events'[i] = IF i \in DOMAIN events THEN events[i] ELSE e
<1>1. events \in Seq(Events) /\ Len(events) \in Nat /\ DOMAIN events = 1 .. Len(events)
    BY StreamFacts
<1>2. /\ events' \in Seq(Events) /\ Len(events') = Len(events) + 1
      /\ \A i \in 1 .. Len(events) : events'[i] = events[i]
      /\ events'[Len(events) + 1] = e
    BY <1>1, AppendProperties
<1>3. DOMAIN events' = 1 .. Len(events) + 1
    BY <1>2, LenProperties
<1>4. \A i \in DOMAIN events' : i \in DOMAIN events \/ i = Len(events) + 1
    BY <1>1, <1>3
<1> QED
    BY <1>1, <1>2, <1>3, <1>4

\* What a stream tells of is a saved message.
LEMMA ToldMessages ==
  ASSUME IInv, [Next]_vars, (ServerSaves /\ send.kind = "send") \/ ServerReplies
  PROVE  LET m == NewMessage(send.conv, IF ServerReplies THEN "agent" ELSE "user")
         IN  m \in Messages /\ m.conv = send.conv
<1>t. LogTypes /\ Counted /\ SendTypes
    BY Parts
<1> DEFINE by == IF ServerReplies THEN "agent" ELSE "user"
           m == NewMessage(send.conv, by)
<1>1. send # None /\ send.conv \in Conversations /\ by \in {"user", "agent"}
    BY <1>t DEF ServerSaves, ServerReplies, SendTypes, Sends
<1>2. Count("agent") < MaxReplies \/ Count("user") < MaxSends + faults
    BY <1>t DEF ServerSaves, ServerReplies, Counted
<1>3. Len(log[send.conv]) \in Nat
    BY <1>1, <1>t, LogFacts
<1>4. Len(log[send.conv]) + 1 \in 1 .. Bound
  <2>1. Count("user") + Count("agent") < Bound
      BY <1>2, <1>t, RoomFor
  <2>2. /\ Count("user") \in Nat /\ Count("agent") \in Nat
        /\ Len(log[send.conv]) <= Count("user") + Count("agent")
      BY <1>1, <1>t, LogBound
  <2> QED
      BY <1>3, <2>1, <2>2, BoundType
<1> QED
    BY <1>1, <1>4 DEF NewMessage, Messages

\* The events on their way belong to the stream that is read, the confirmation
\* first.
LEMMA SendStep == IInv /\ [Next]_vars => SendTypes'
<1> SUFFICES ASSUME IInv, [Next]_vars
             PROVE  SendTypes'
    OBVIOUS
<1>t. LogTypes /\ SendTypes /\ WindowTypes /\ OneReload
    BY Parts
<1>s. /\ send \in Sends \cup {None} /\ events \in Seq(Events)
      /\ send # None => conv # None
      /\ ~Streaming => events = <<>>
    BY <1>t DEF SendTypes, StreamShape
<1>o. conv' # None /\ send'.confirmed => Optimistic(conv') \notin ToSet(shown')
    BY OptimisticWaits DEF Waits
\* Nothing is under way, or the stream is not read.
<1>i. ASSUME send' = None \/ (/\ send' \in Sends /\ send'.phase # "stream" /\ conv' # None
                              /\ send'.phase = "fallback" => send'.kind = "send"),
             events' = <<>>
      PROVE  SendTypes'
  <2>1. <<>> \in Seq(Events)
      OBVIOUS
  <2> QED
      BY <1>i, <2>1 DEF SendTypes, StreamShape, Streaming
\* The stream goes on.
<1>g. ASSUME send' \in Sends, send'.phase = "stream", send'.conv = conv', conv' # None,
             events' \in Seq(Events),
             \A i \in DOMAIN events' :
                events'[i].what \in {"confirm", "reply"} => events'[i].m.conv = conv',
             send'.kind = "send" =>
               /\ send'.srv = "save" => events' = <<>> /\ ~send'.confirmed
               /\ send'.srv # "save" /\ ~send'.confirmed => events' # <<>> /\ events'[1].what = "confirm"
      PROVE  SendTypes'
    BY <1>g, <1>o, NoneAssumption DEF SendTypes, StreamShape, Streaming
<1>1. CASE UNCHANGED <<send, events, conv>>
  <2>1. CASE Streaming
    <3>1. /\ send \in Sends /\ send.phase = "stream" /\ send.conv = conv /\ conv # None
          /\ \A i \in DOMAIN events :
                events[i].what \in {"confirm", "reply"} => events[i].m.conv = conv
          /\ send.kind = "send" =>
               /\ send.srv = "save" => events = <<>> /\ ~send.confirmed
               /\ send.srv # "save" /\ ~send.confirmed => events # <<>> /\ events[1].what = "confirm"
        BY <1>t, <2>1 DEF SendTypes, StreamShape, Streaming
    <3> QED
        BY <1>1, <1>g, <1>s, <3>1
  <2>2. CASE ~Streaming
      BY <1>1, <1>i, <1>t, <2>2 DEF SendTypes, StreamShape, Streaming
  <2> QED
      BY <2>1, <2>2
\* The stream tells of one thing more.
<1>e. ASSUME Streaming, conv' = conv, NEW e \in Events, events' = Append(events, e),
             e.what \in {"confirm", "reply"} => e.m.conv = conv,
             send' \in Sends, send'.phase = "stream", send'.conv = send.conv, send'.kind = send.kind,
             send'.confirmed = send.confirmed, send'.srv # "save",
             send.srv = "save" /\ send.kind = "send" => e.what = "confirm"
      PROVE  SendTypes'
  <2>1. /\ events' \in Seq(Events) /\ events' # <<>>
        /\ DOMAIN events' = 1 .. Len(events) + 1
        /\ \A i \in DOMAIN events' : events'[i] = IF i \in DOMAIN events THEN events[i] ELSE e
      BY <1>e, <1>t, EmitEffect
  <2>2. /\ send.conv = conv /\ conv # None
        /\ \A i \in DOMAIN events :
              events[i].what \in {"confirm", "reply"} => events[i].m.conv = conv
        /\ send.kind = "send" =>
             /\ send.srv = "save" => events = <<>> /\ ~send.confirmed
             /\ send.srv # "save" /\ ~send.confirmed => events # <<>> /\ events[1].what = "confirm"
      BY <1>e, <1>t DEF SendTypes, StreamShape, Streaming
  <2>3. \A i \in DOMAIN events' :
           events'[i].what \in {"confirm", "reply"} => events'[i].m.conv = conv
      BY <1>e, <2>1, <2>2
  <2>4. 1 \in DOMAIN events' /\ (events # <<>> => 1 \in DOMAIN events)
      BY <1>t, <2>1, StreamFacts
  <2>5. send.kind = "send" /\ ~send.confirmed => events'[1].what = "confirm"
    <3>1. CASE send.srv = "save"
      <4>1. send.kind = "send" => 1 \notin DOMAIN events
          BY <2>2, <3>1
      <4> QED
          BY <1>e, <2>1, <2>4, <3>1, <4>1
    <3>2. CASE send.srv # "save"
        BY <2>1, <2>2, <2>4, <3>2
    <3> QED
        BY <3>1, <3>2
  <2> QED
      BY <1>e, <1>g, <2>1, <2>2, <2>3, <2>5
<1>m. \A m \in Messages, w \in {"confirm", "reply"} : [what |-> w, m |-> m] \in Events
    BY DEF Events
<1>x. \A w \in {"error", "end"} : [what |-> w, m |-> None] \in Events
    BY DEF Events
<1>2. CASE ServerSaves
  <2>1. send \in Sends /\ send # None /\ send.srv = "save" /\ conv' = conv /\ send.phase # "reload"
      BY <1>2, <1>s DEF ServerSaves, window
  <2>2. /\ \/ send' = [send EXCEPT !.srv = "talk"]
           \/ send' = [send EXCEPT !.srv = "talk", !.errors = TRUE]
        /\ send' \in Sends /\ send' # None /\ send'.srv = "talk"
        /\ send'.kind = send.kind /\ send'.conv = send.conv /\ send'.phase = send.phase
        /\ send'.confirmed = send.confirmed
    <3>1. \/ send' = [send EXCEPT !.srv = "talk"]
          \/ send' = [send EXCEPT !.srv = "talk", !.errors = TRUE]
        BY <1>2 DEF ServerSaves
    <3>2. send'.srv = "talk"
        BY <2>1, <3>1 DEF Sends
    <3> QED
        BY <2>1, <3>1, <3>2, UpdateEffect
  <2>3. CASE send.phase # "stream"
    <3>1. send.phase = "fallback" /\ send.kind = "send"
        BY <1>t, <2>1, <2>3 DEF SendTypes, StreamShape, Sends
    <3>2. events' = events /\ events = <<>>
        BY <1>2, <1>s, <2>3, <3>1 DEF ServerSaves, Streaming
    <3> QED
        BY <1>i, <1>s, <2>1, <2>2, <3>1, <3>2
  <2>4. CASE send.phase = "stream" /\ send.kind = "send"
    <3> DEFINE m == NewMessage(send.conv, "user")
    <3>1. ~ServerReplies
        BY <2>1 DEF ServerReplies
    <3>2. m \in Messages /\ m.conv = send.conv
        BY <1>2, <2>4, <3>1, ToldMessages
    <3>3. events' = Append(events, [what |-> "confirm", m |-> m])
        BY <1>2, <2>4 DEF ServerSaves, Emit
    <3>4. send.conv = conv /\ Streaming
        BY <1>t, <2>1, <2>4 DEF SendTypes, StreamShape, Streaming
    <3> HIDE DEF m
    <3>5. [what |-> "confirm", m |-> m] \in Events
        BY <1>m, <3>2
    <3> QED
        BY <1>e, <2>1, <2>2, <2>4, <3>2, <3>3, <3>4, <3>5
  <2>5. CASE send.phase = "stream" /\ send.kind = "regenerate"
    <3>1. Streaming /\ send.kind # "send"
        BY <2>1, <2>5 DEF Streaming
    <3>2. CASE events' = events
      <4>1. /\ send.conv = conv /\ conv # None
            /\ \A i \in DOMAIN events :
                  events[i].what \in {"confirm", "reply"} => events[i].m.conv = conv
          BY <1>t, <3>1 DEF SendTypes, StreamShape, Streaming
      <4> QED
          BY <1>g, <1>s, <2>1, <2>2, <2>5, <3>1, <3>2, <4>1
    <3>3. CASE Emit("error", None)
        BY <1>e, <1>x, <2>1, <2>2, <2>5, <3>1, <3>3 DEF Emit
    <3> QED
        BY <1>2, <2>5, <3>2, <3>3 DEF ServerSaves
  <2> QED
      BY <2>1, <2>3, <2>4, <2>5 DEF Sends
<1>3. CASE ServerReplies
  <2>1. send \in Sends /\ send # None /\ send.srv = "talk" /\ conv' = conv /\ send' = send
      BY <1>3, <1>s DEF ServerReplies, window
  <2>2. CASE send.phase # "stream"
      BY <1>1, <1>3, <2>1, <2>2 DEF ServerReplies
  <2>3. CASE send.phase = "stream"
    <3> DEFINE m == NewMessage(send.conv, "agent")
    <3>1. m \in Messages /\ m.conv = send.conv
        BY <1>3, ToldMessages
    <3>2. events' = Append(events, [what |-> "reply", m |-> m])
        BY <1>3, <2>3 DEF ServerReplies, Emit
    <3>3. send.conv = conv /\ Streaming
        BY <1>t, <2>1, <2>3 DEF SendTypes, StreamShape, Streaming
    <3> HIDE DEF m
    <3>4. [what |-> "reply", m |-> m] \in Events
        BY <1>m, <3>1
    <3> QED
        BY <1>e, <2>1, <2>3, <3>1, <3>2, <3>3, <3>4
  <2> QED
      BY <2>2, <2>3
<1>4. CASE ServerErrs \/ ServerEnds
  <2>1. /\ send \in Sends /\ send # None /\ send.srv = "talk" /\ send.phase = "stream" /\ conv' = conv
        /\ \/ send' = [send EXCEPT !.errors = TRUE]
           \/ send' = [send EXCEPT !.srv = "over"]
        /\ Emit("error", None) \/ Emit("end", None)
      BY <1>4, <1>s DEF ServerErrs, ServerEnds, window
  <2>2. send'.srv # "save"
      BY <2>1 DEF Sends
  <2>3. /\ send' \in Sends /\ send'.kind = send.kind /\ send'.conv = send.conv
        /\ send'.phase = send.phase /\ send'.confirmed = send.confirmed
      BY <2>1, UpdateEffect
  <2> QED
      BY <1>e, <1>x, <2>1, <2>2, <2>3 DEF Emit, Streaming
<1>5. ASSUME NEW i \in DOMAIN loads, LoadAnswered(i) \/ LoadFails(i)
      PROVE  SendTypes'
  <2>1. Continue(i) /\ events' = events /\ conv' = conv
      BY <1>5 DEF LoadAnswered, LoadFails, window
  <2>2. CASE loads[i].why = "send"
    <3>1. send' = None /\ send.phase = "reload"
        BY <1>t, <2>1, <2>2 DEF Continue, OneReload
    <3> QED
        BY <1>i, <1>s, <2>1, <3>1 DEF Streaming
  <2>3. CASE loads[i].why # "send"
      BY <1>1, <2>1, <2>3 DEF Continue
  <2> QED
      BY <2>2, <2>3
<1>6. ASSUME NEW c \in Conversations, Switch(c)
      PROVE  SendTypes'
  <2>1. conv' # None
      BY <1>6, ChatAssumption DEF Switch
  <2>2. CASE Streaming
      BY <1>6, <1>i, <2>2 DEF Switch
  <2>3. CASE ~Streaming
    <3>1. send' = send /\ events' = events /\ events = <<>>
        BY <1>6, <1>s, <2>3 DEF Switch
    <3>2. send = None \/ (send \in Sends /\ send.phase # "stream"
                            /\ (send.phase = "fallback" => send.kind = "send"))
        BY <1>t, <1>s, <2>3 DEF Streaming, SendTypes, StreamShape
    <3> QED
        BY <1>i, <2>1, <3>1, <3>2
  <2> QED
      BY <2>2, <2>3
<1>7. ASSUME NEW kind \in {"send", "regenerate"}, Begin(kind)
      PROVE  SendTypes'
  <2>1. /\ send = None /\ conv \in Conversations /\ conv' = conv /\ events' = events
        /\ send' \in Sends /\ send'.kind = kind /\ send'.conv = conv /\ send'.phase = "stream"
        /\ send'.srv = "save" /\ ~send'.confirmed
      BY <1>7, BeginEffect
  <2>2. events = <<>> /\ conv # None /\ DOMAIN events = {}
      BY <1>s, <2>1, ChatAssumption DEF Streaming
  <2> QED
      BY <1>g, <1>s, <2>1, <2>2
<1>8. CASE (Consume \/ Break) /\ Finish
    BY <1>8, <1>i DEF Finish
<1>9. CASE Consume /\ ~Finish
  <2>1. /\ send \in Sends /\ send # None /\ send.phase = "stream" /\ conv' = conv
        /\ Streaming /\ events # <<>> /\ events' = Tail(events)
      BY <1>9, <1>s DEF Consume, Streaming, window
  <2>2. /\ Head(events) = events[1] /\ 1 \in DOMAIN events
        /\ events' \in Seq(Events)
        /\ \A i \in DOMAIN events' : i + 1 \in DOMAIN events /\ events'[i] = events[i + 1]
      BY <1>t, <2>1, StreamFacts
  <2>3. /\ send.conv = conv /\ conv # None
        /\ \A i \in DOMAIN events :
              events[i].what \in {"confirm", "reply"} => events[i].m.conv = conv
        /\ send.kind = "send" =>
             send.srv # "save" /\ (~send.confirmed => events[1].what = "confirm")
      BY <1>t, <2>1 DEF SendTypes, StreamShape
  <2>4. \A i \in DOMAIN events' :
           events'[i].what \in {"confirm", "reply"} => events'[i].m.conv = conv
      BY <2>2, <2>3
  <2>5. CASE events[1].what = "confirm"
    <3>1. send' = [send EXCEPT !.confirmed = TRUE]
        BY <1>9, <2>2, <2>5 DEF Consume
    <3>2. /\ send' \in Sends /\ send'.kind = send.kind /\ send'.conv = send.conv
          /\ send'.phase = send.phase /\ send'.srv = send.srv /\ send'.confirmed = TRUE
        BY <2>1, <3>1 DEF Sends
    <3> QED
        BY <1>g, <2>1, <2>2, <2>3, <2>4, <3>2
  <2>6. CASE events[1].what # "confirm"
    <3>1. send' = send \/ send' = [send EXCEPT !.hadError = TRUE]
        BY <1>9, <2>2, <2>6 DEF Consume
    <3>2. /\ send' \in Sends /\ send'.kind = send.kind /\ send'.conv = send.conv
          /\ send'.phase = send.phase /\ send'.confirmed = send.confirmed /\ send'.srv = send.srv
        BY <2>1, <3>1 DEF Sends
    <3> QED
        BY <1>g, <2>1, <2>2, <2>3, <2>4, <2>6, <3>2
  <2> QED
      BY <2>5, <2>6
<1>10. CASE Break /\ ~Finish
  <2>1. /\ send \in Sends /\ conv # None /\ conv' = conv /\ events' = <<>> /\ send.kind # "regenerate"
        /\ send' = [send EXCEPT !.phase = "fallback", !.srv = "save", !.errors = FALSE]
      BY <1>10, <1>s DEF Break, Streaming, window
  <2>2. send' \in Sends /\ send'.phase = "fallback" /\ send'.kind = "send"
      BY <2>1 DEF Sends
  <2> QED
      BY <1>i, <2>1, <2>2
<1>11. CASE FallbackAnswered
  <2>1. /\ send \in Sends /\ conv # None /\ conv' = conv /\ events' = events /\ events = <<>>
        /\ send' = [send EXCEPT !.phase = "reload", !.srv = "over"]
      BY <1>11, <1>s DEF FallbackAnswered, Streaming, window
  <2>2. send' \in Sends /\ send'.phase = "reload"
      BY <2>1 DEF Sends
  <2> QED
      BY <1>i, <2>1, <2>2
<1>12. CASE FallbackFails
    BY <1>12, <1>i, <1>s DEF FallbackFails, Streaming
<1>13. CASE Elsewhere \/ Deliver \/ UNCHANGED vars
    BY <1>1, <1>13 DEF Elsewhere, Deliver, vars, window
<1>14. ASSUME NEW i \in DOMAIN loads, LoadServed(i) \/ Join(i)
       PROVE  SendTypes'
    BY <1>1, <1>14 DEF LoadServed, Join, window
<1> QED
    BY <1>2, <1>3, <1>4, <1>5, <1>6, <1>7, <1>8, <1>9, <1>10, <1>11, <1>12, <1>13, <1>14
    DEF Next, Send, Regenerate

(***************************************************************************)
(* Nothing is missed.                                                      *)
(***************************************************************************)

\* What is not lost: messages leave the screen for the server's rows alone, and the
\* loads that will bring them stay.
Carried ==
  /\ UNCHANGED window /\ (lossy => lossy')
  /\ \A m \in Messages :
       m \in ToSet(shown) \cup wire => m \in ToSet(shown') \cup wire' \cup deleted'
  /\ \A k \in DOMAIN loads :
       loads[k].conv = conv /\ loads[k].stage \in {"asked", "served"} =>
         \E j \in DOMAIN loads' :
            \/ loads'[j] = loads[k]
            \/ /\ loads'[j].conv = conv /\ loads'[j].stage = "served"
               /\ ToSet(log'[conv]) \subseteq ToSet(loads'[j].snap) \cup deleted'

\* A message that is new is on its way to the joined channel.
LEMMA NewOnItsWay ==
  ASSUME IInv, [Next]_vars, conv \in Conversations, joined = conv
  PROVE  /\ deleted \subseteq deleted'
         /\ \A m \in ToSet(log'[conv]) : m \in ToSet(log[conv]) \/ m \in wire'
<1>1. CASE log' = log
    BY <1>1, KeepsLog
<1>2. CASE log' # log
    BY <1>2, LogGrows
<1> QED
    BY <1>1, <1>2

\* A step that loses nothing keeps everything on its way to the screen.
LEMMA CarriedCovered ==
  ASSUME IInv, [Next]_vars, Carried
  PROVE  Covered'
<1>t. LogTypes /\ WindowTypes /\ Covered
    BY Parts
<1> SUFFICES ASSUME conv # None, joined = conv, ~lossy
             PROVE  \/ Reaching({})'
                    \/ \E i \in DOMAIN loads' :
                         /\ loads'[i].conv = conv
                         /\ \/ loads'[i].stage = "asked"
                            \/ loads'[i].stage = "served" /\ Reaching(ToSet(loads[i].snap))'
    BY DEF Carried, Covered, window
<1>1. conv \in Conversations /\ conv' = conv
    BY <1>t DEF WindowTypes, Carried, window
<1>2. /\ deleted \subseteq deleted'
      /\ \A m \in ToSet(log'[conv]) : m \in ToSet(log[conv]) \/ m \in wire'
    BY <1>1, NewOnItsWay
<1>3. ASSUME NEW X, Reaching(X)
      PROVE  ToSet(log'[conv]) \subseteq X \cup ToSet(shown') \cup wire' \cup deleted'
  <2>1. ASSUME NEW m \in ToSet(log[conv])
        PROVE  m \in X \cup ToSet(shown') \cup wire' \cup deleted'
    <3>1. m \in Messages
        BY <1>1, <1>t, LogFacts
    <3>2. m \in X \/ m \in ToSet(shown) \cup wire \/ m \in deleted
        BY <1>3 DEF Reaching
    <3> QED
        BY <1>2, <3>1, <3>2 DEF Carried
  <2> QED
      BY <1>2, <2>1
<1>4. CASE Reaching({})
    BY <1>1, <1>3, <1>4 DEF Reaching
<1>5. ASSUME NEW k \in DOMAIN loads, loads[k].conv = conv,
             \/ loads[k].stage = "asked"
             \/ loads[k].stage = "served" /\ Reaching(ToSet(loads[k].snap))
      PROVE  \E i \in DOMAIN loads' :
               /\ loads'[i].conv = conv
               /\ \/ loads'[i].stage = "asked"
                  \/ loads'[i].stage = "served" /\ Reaching(ToSet(loads[i].snap))'
  <2>1. PICK j \in DOMAIN loads' :
            \/ loads'[j] = loads[k]
            \/ /\ loads'[j].conv = conv /\ loads'[j].stage = "served"
               /\ ToSet(log'[conv]) \subseteq ToSet(loads'[j].snap) \cup deleted'
      BY <1>5 DEF Carried
  <2>2. CASE loads'[j] = loads[k]
    <3>1. loads[k].stage = "served" => 
            ToSet(log'[conv]) \subseteq ToSet(loads'[j].snap) \cup ToSet(shown') \cup wire' \cup deleted'
        BY <1>3, <1>5, <2>2
    <3> QED
        BY <1>1, <1>5, <2>2, <3>1 DEF Reaching
  <2>3. CASE /\ loads'[j].conv = conv /\ loads'[j].stage = "served"
             /\ ToSet(log'[conv]) \subseteq ToSet(loads'[j].snap) \cup deleted'
      BY <1>1, <2>3 DEF Reaching
  <2> QED
      BY <2>1, <2>2, <2>3
<1> QED
    BY <1>4, <1>5, <1>t DEF Covered

\* Nothing is lost unnoticed. A load that starts will bring everything; one that
\* is answered with less than the screen shows is a known loss; and the replay of a
\* join begins where the answer of its load ended.
LEMMA CoveredStep == IInv /\ [Next]_vars => Covered'
<1> SUFFICES ASSUME IInv, [Next]_vars
             PROVE  Covered'
    OBVIOUS
<1>t. LogTypes /\ WindowTypes /\ LoadTypes /\ ShownTypes /\ SendTypes /\ Covered
    BY Parts
<1>l. /\ loads \in Seq(Loads) /\ Len(loads) \in Nat /\ DOMAIN loads = 1 .. Len(loads)
      /\ \A i \in DOMAIN loads : loads[i] \in Loads
    BY <1>t, LoadFacts DEF LoadTypes
<1>e. shown \in Seq(Entries) /\ IsInjective(shown)
    BY <1>t DEF ShownTypes, Entries, NoDuplicates
<1>1. CASE UNCHANGED <<window, lossy, loads>> /\ ToSet(shown) \cup wire \subseteq ToSet(shown') \cup wire'
    BY <1>1, CarriedCovered DEF Carried
\* A load of the open conversation starts.
<1>2. ASSUME NEW c \in Conversations, NEW whys \in Asks, whys # <<>>, c = conv', StartLoads(c, whys)
      PROVE  Covered'
  <2>1. \E j \in DOMAIN loads' : loads'[j].conv = c /\ loads'[j].stage = "asked"
      BY <1>2, <1>t, StartEffect
  <2> QED
      BY <1>2, <2>1 DEF Covered
<1>3. CASE Elsewhere \/ ServerSaves \/ ServerReplies
  <2>1. UNCHANGED <<shown, window, loads, lossy>> /\ wire \subseteq wire'
      BY <1>3, LogGrows
  <2> QED
      BY <1>1, <2>1
<1>4. CASE ServerErrs \/ ServerEnds \/ Regenerate \/ FallbackFails \/ UNCHANGED vars
  <2>1. UNCHANGED <<shown, wire, window, lossy, loads>>
      BY <1>4 DEF ServerErrs, ServerEnds, Regenerate, Begin, FallbackFails, vars, window
  <2> QED
      BY <1>1, <2>1
<1>5. ASSUME NEW i \in DOMAIN loads, LoadServed(i)
      PROVE  Covered'
  <2> DEFINE l == [loads[i] EXCEPT !.stage = "served", !.snap = Saved(loads[i].conv)]
  <2>1. /\ loads' = [loads EXCEPT ![i] = l] /\ loads[i].stage = "asked"
        /\ UNCHANGED <<server, shown, window, wire, lossy>>
      BY <1>5 DEF LoadServed
  <2>2. loads[i].conv \in Conversations
      BY <1>l DEF Loads
  <2>3. l.conv = loads[i].conv /\ l.stage = "served" /\ l.snap = Saved(loads[i].conv)
      BY <1>l DEF Loads
  <2>4. ToSet(l.snap) = ToSet(log[loads[i].conv]) \ deleted
      BY <1>t, <2>2, <2>3, Served
  <2> HIDE DEF l
  <2>5. DOMAIN loads' = DOMAIN loads /\ loads'[i] = l
        /\ \A k \in DOMAIN loads : k # i => loads'[k] = loads[k]
      BY <1>l, <2>1
  <2>6. ASSUME NEW k \in DOMAIN loads, loads[k].conv = conv
        PROVE  \E j \in DOMAIN loads' :
                 \/ loads'[j] = loads[k]
                 \/ /\ loads'[j].conv = conv /\ loads'[j].stage = "served"
                    /\ ToSet(log'[conv]) \subseteq ToSet(loads'[j].snap) \cup deleted'
    <3>1. CASE k # i
        BY <2>5, <3>1
    <3>2. CASE k = i
      <4>1. log' = log /\ deleted' = deleted
          BY <2>1 DEF server
      <4>2. ToSet(log'[conv]) \subseteq ToSet(loads'[i].snap) \cup deleted'
          BY <2>4, <2>5, <2>6, <3>2, <4>1
      <4> QED
          BY <2>3, <2>5, <2>6, <3>2, <4>2
    <3> QED
        BY <3>1, <3>2
  <2>7. Carried
      BY <2>1, <2>6 DEF Carried
  <2> QED
      BY <2>7, CarriedCovered
\* What becomes of the loads when the page continues after one of them.
<1>c. ASSUME NEW i \in DOMAIN loads, Continue(i), loads[i].stage # "joining" 
      PROVE  /\ \A k \in DOMAIN loads : k # i => \E j \in DOMAIN loads' : loads'[j] = loads[k]
  <2>1. CASE loads[i].why = "init"
    <3>1. loads' = [loads EXCEPT ![i] = [loads[i] EXCEPT !.stage = "joining"]]
        BY <1>c, <2>1 DEF Continue
    <3>2. \A k \in DOMAIN loads : k # i => k \in DOMAIN loads' /\ loads'[k] = loads[k]
        BY <1>l, <3>1
    <3> QED
        BY <3>2
  <2>2. CASE loads[i].why # "init"
    <3>1. loads' = RemoveAt(loads, i)
        BY <1>c, <2>2 DEF Continue
    <3>2. \A k \in DOMAIN loads : k # i => \E j \in DOMAIN RemoveAt(loads, i) : RemoveAt(loads, i)[j] = loads[k]
        BY <1>l, Removing
    <3> QED
        BY <3>1, <3>2
  <2> QED
      BY <2>1, <2>2
<1>6. ASSUME NEW i \in DOMAIN loads, LoadFails(i) \/ (LoadAnswered(i) /\ loads[i].conv # conv)
      PROVE  Covered'
  <2>1. /\ Continue(i) /\ loads[i].stage # "joining"
        /\ UNCHANGED <<server, shown, window, wire>> /\ (lossy => lossy')
      BY <1>6 DEF LoadFails, LoadAnswered
  <2>2. CASE loads[i].conv # conv
    <3>1. \A k \in DOMAIN loads : loads[k].conv = conv =>
             \E j \in DOMAIN loads' : loads'[j] = loads[k]
        BY <1>c, <2>1, <2>2
    <3>2. Carried
        BY <2>1, <3>1 DEF Carried
    <3> QED
        BY <3>2, CarriedCovered
  <2>3. CASE loads[i].conv = conv
      BY <1>6, <2>3 DEF LoadFails, Covered
  <2> QED
      BY <2>2, <2>3
<1>7. ASSUME NEW i \in DOMAIN loads, LoadAnswered(i), loads[i].conv = conv
      PROVE  Covered'
  <2> DEFINE s == loads[i].snap
  <2>1. /\ Continue(i) /\ loads[i].stage = "served" /\ shown' = s
        /\ UNCHANGED <<log, deleted, conv, joined, wire>>
        /\ lossy' = (lossy \/ ~(ToSet(shown) \subseteq ToSet(s) \cup deleted))
      BY <1>7 DEF LoadAnswered, server, window
  <2> SUFFICES ASSUME conv # None, joined = conv, ~lossy, ToSet(shown) \subseteq ToSet(s) \cup deleted
               PROVE  Covered'
      BY <2>1 DEF Covered
  <2> HIDE DEF s
  <2>2. CASE Reaching({})
      BY <2>1, <2>2 DEF Covered, Reaching
  <2>3. CASE Reaching(ToSet(s))
      BY <2>1, <2>3 DEF Covered, Reaching
  <2>4. ASSUME NEW k \in DOMAIN loads, k # i, loads[k].conv = conv,
               \/ loads[k].stage = "asked"
               \/ loads[k].stage = "served" /\ Reaching(ToSet(loads[k].snap))
        PROVE  Covered'
    <3>1. PICK j \in DOMAIN loads' : loads'[j] = loads[k]
        BY <1>c, <2>1, <2>4
    <3>2. loads[k].stage = "served" =>
             ToSet(log'[conv]) \subseteq ToSet(loads'[j].snap) \cup ToSet(shown') \cup wire' \cup deleted'
        BY <2>1, <2>4, <3>1 DEF Reaching
    <3>3. loads'[j].stage = "served" => Reaching(ToSet(loads[j].snap))'
        BY <2>1, <3>1, <3>2 DEF Reaching
    <3> QED
        BY <2>1, <2>4, <3>1, <3>3 DEF Covered
  <2> QED
    <3>1. \/ Reaching({})
          \/ \E k \in DOMAIN loads :
               /\ loads[k].conv = conv
               /\ \/ loads[k].stage = "asked"
                  \/ loads[k].stage = "served" /\ Reaching(ToSet(loads[k].snap))
        BY <1>t DEF Covered
    <3>2. CASE \/ loads[i].stage = "asked"
               \/ loads[i].stage = "served" /\ Reaching(ToSet(loads[i].snap))
      <4>1. Reaching(ToSet(s))
          BY <2>1, <3>2 DEF s
      <4> QED
          BY <2>3, <4>1
    <3> QED
        BY <2>2, <2>4, <3>1, <3>2
<1>8. ASSUME NEW i \in DOMAIN loads, Join(i)
      PROVE  Covered'
  <2>1. /\ loads' = RemoveAt(loads, i) /\ loads[i].stage = "joining"
        /\ UNCHANGED <<log, deleted, shown, conv>>
      BY <1>8 DEF Join, server
  <2>2. CASE UNCHANGED <<joined, wire, lossy>>
    <3>1. \A k \in DOMAIN loads : k # i => \E j \in DOMAIN RemoveAt(loads, i) : RemoveAt(loads, i)[j] = loads[k]
        BY <1>l, Removing
    <3>2. \A k \in DOMAIN loads : loads[k].stage \in {"asked", "served"} =>
             \E j \in DOMAIN loads' : loads'[j] = loads[k]
        BY <2>1, <3>1
    <3>3. Carried
        BY <2>1, <2>2, <3>2 DEF Carried, window
    <3> QED
        BY <3>3, CarriedCovered
  <2>3. CASE /\ loads[i].conv = conv /\ wire' = Replay
             /\ lossy' = (lossy \/ shown = <<>> \/ shown # loads[i].snap)
    <3> SUFFICES ASSUME shown # <<>>, shown = loads[i].snap
                 PROVE  Reaching({})'
        BY <2>3 DEF Covered
    <3>1. conv \in Conversations /\ shown \in Seq(Messages) /\ Faithful(loads[i], log, deleted)
        BY <1>t, <2>3, LoadFacts DEF LoadTypes, LoadsShape
    <3>2. /\ Len(shown) \in Nat /\ DOMAIN shown = 1 .. Len(shown) /\ Len(shown) \in DOMAIN shown
          /\ Last(shown) = shown[Len(shown)] /\ Last(shown) \in Messages
        BY <3>1, LenProperties, EmptySeq DEF Last
    <3>3. Last(shown).n \in 1 .. Bound
        BY <3>2, MessageTypes
    <3>4. Replay = {m \in ToSet(log[conv]) : m.n > Last(shown).n}
        BY <3>3 DEF Replay
    <3>5. ASSUME NEW m \in ToSet(log[conv]), m \notin ToSet(shown) \cup deleted
          PROVE  m \in Replay
      <4>1. Last(shown).n < m.n
          BY <2>1, <3>1, <3>2, <3>5, <2>3 DEF Faithful
      <4>2. m.n \in 1 .. Bound
          BY <1>t, <3>1, LogFacts, MessageTypes
      <4> QED
          BY <3>3, <3>4, <4>1, <4>2, BoundType
    <3> QED
        BY <2>1, <2>3, <3>5 DEF Reaching
  <2> QED
      BY <1>8, <2>2, <2>3 DEF Join
<1>9. CASE Deliver
  <2>1. PICK m \in wire : wire' = wire \ {m} /\ shown' = Added(shown, m) /\ UNCHANGED <<window, lossy, loads>>
      BY <1>9 DEF Deliver
  <2>2. m \in Entries
    <3>1. m \in Messages /\ m.conv = joined /\ m.conv \in Conversations
        BY <1>t, InsertedTypes, MessageTypes DEF WindowTypes, WireShape
    <3> QED
        BY <1>t, <3>1, ChatAssumption, OptimisticEntry DEF WindowTypes, RealtimeFollowsWindow
  <2>3. ToSet(shown') = ToSet(shown) \cup {m}
      BY <1>e, <2>1, <2>2, AddedEffect
  <2> QED
      BY <1>1, <2>1, <2>3
<1>10. ASSUME NEW c \in Conversations, Switch(c)
       PROVE  Covered'
    BY <1>10, ChatAssumption DEF Switch, Covered
<1>11. CASE Send
  <2>1. ToSet(shown') = ToSet(shown) \cup {Optimistic(conv)}
      BY <1>11, <1>e, AddedEffect, OptimisticEntry DEF Send
  <2> QED
      BY <1>1, <1>11, <2>1 DEF Send, Begin
<1>12. CASE FallbackAnswered
  <2>1. conv \in Conversations /\ conv' = conv /\ StartLoads(conv, <<"send">>)
      BY <1>12, <1>t DEF FallbackAnswered, SendTypes, StreamShape, WindowTypes, window
  <2> QED
      BY <1>2, <2>1 DEF Asks
<1>13. CASE (Consume \/ Break) /\ Finish
  <2>1. conv \in Conversations /\ UNCHANGED <<window, wire>>
      BY <1>13, <1>t DEF Consume, Break, Streaming, SendTypes, StreamShape, WindowTypes
  <2>2. CASE StartLoads(conv, <<"tail">>)
      BY <1>2, <2>1, <2>2 DEF Asks, window
  <2>3. CASE StartLoads(conv, <<>>)
      BY <1>1, <2>1, <2>3 DEF StartLoads
  <2> QED
      BY <1>13, <2>2, <2>3 DEF Finish
<1>14. CASE (Consume \/ Break) /\ ~Finish
  <2>1. UNCHANGED <<window, wire, loads, lossy>>
      BY <1>14 DEF Consume, Break
  <2>2. ASSUME NEW m \in Messages, m \in ToSet(shown)
        PROVE  m \in ToSet(shown') 
    <3>1. CASE Same
        BY <2>2, <3>1 DEF Same
    <3>2. ASSUME NEW x, Grown(x)
          PROVE  m \in ToSet(shown')
        BY <1>e, <2>2, <3>2, AddedEffect, OptimisticEntry DEF Grown
    <3>3. ASSUME NEW x, Settled(x)
          PROVE  m \in ToSet(shown')
      <4>1. x \in Entries /\ x # Optimistic(conv) /\ m # Optimistic(conv)
          BY <3>3, OptimisticEntry DEF Settled
      <4>2. ToSet(shown) \ {Optimistic(conv)} \subseteq ToSet(Confirmed(shown, conv, x))
          BY <1>e, <4>1, ConfirmedEffect
      <4> QED
          BY <2>2, <3>3, <4>1, <4>2 DEF Settled
    <3>4. CASE shown' = Removed(shown, conv)
        BY <1>e, <2>2, <3>4, RemovedEffect, OptimisticEntry
    <3> QED
        BY <3>1, <3>2, <3>3, <3>4, <1>14, ContinuedShown
  <2> QED
      BY <2>1, <2>2, CarriedCovered DEF Carried
<1> QED
    BY <1>3, <1>4, <1>5, <1>6, <1>7, <1>8, <1>9, <1>10, <1>11, <1>12, <1>13, <1>14 DEF Next

(***************************************************************************)
(* The theorems.                                                           *)
(***************************************************************************)

\* Every step of the page, the server and the channel preserves the invariant.
LEMMA IInvStep == IInv /\ [Next]_vars => IInv'
<1>1. IInv /\ [Next]_vars =>
        /\ LogTypes' /\ Counted' /\ WindowTypes' /\ LoadTypes' /\ SendTypes' /\ OneReload'
        /\ ShownTypes' /\ Covered'
    BY LogStep, CountStep, WindowStep, LoadsStep, SendStep, ReloadStep, ShownStep, CoveredStep
<1> QED
    BY <1>1, Parts, PTL

\* No conversation is open at first, and nothing is stored.
LEMMA IInvInit == Init => IInv
<1> SUFFICES ASSUME Init
             PROVE  IInv
    OBVIOUS
<1>1. \A c \in Conversations : log[c] = <<>> /\ ToSet(log[c]) = {}
    BY DEF Init, ToSet
<1>2. Inserted = {}
    BY <1>1 DEF Inserted
<1>3. \A w : Count(w) = 0
  <2>1. \A w : {m \in Inserted : m.by = w} = {}
      BY <1>2
  <2> QED
      BY <2>1, FS_EmptySet DEF Count
<1>4. LogTypes
  <2>1. log \in [Conversations -> Seq(Messages)]
      BY DEF Init
  <2>2. LogShape
      BY <1>1 DEF LogShape
  <2> QED
      BY <2>1, <2>2, ChatAssumption DEF LogTypes, Init
<1>5. Counted
    BY <1>2, <1>3, FS_EmptySet, ChatAssumption DEF Counted, Init
<1>6. WindowTypes
    BY DEF Init, WindowTypes, WireShape, RealtimeFollowsWindow
<1>7. LoadTypes /\ OneReload
  <2>1. loads = <<>> /\ DOMAIN loads = {} /\ loads \in Seq(Loads) /\ loading = FALSE
      BY DEF Init
  <2> QED
      BY <2>1 DEF LoadTypes, LoadsShape, OneReload
<1>8. SendTypes
    BY DEF Init, SendTypes, StreamShape, Streaming
<1>9. ShownTypes
  <2>1. shown = <<>> /\ shown \in Seq(Entries) /\ IsInjective(shown)
      BY DEF Init, IsInjective
  <2> QED
      BY <2>1 DEF Init, ShownTypes, Entries, NoDuplicates, OptimisticOnlyWhileSending
<1>10. Covered
    BY DEF Init, Covered
<1> QED
    BY <1>4, <1>5, <1>6, <1>7, <1>8, <1>9, <1>10, Parts

\* The invariant holds in every reachable state.
LEMMA Invariant == Spec => []IInv
BY IInvInit, IInvStep, PTL DEF Spec

\* Every variable of the chat keeps its type, for any conversations and bounds: in
\* particular the screen shows entries of the open conversation alone.
THEOREM ChatTypes == Spec => []ChatTypeOK
<1>1. IInv => ChatTypeOK
    BY DEF IInv
<1> QED
    BY <1>1, Invariant, PTL

\* A message is on the screen once, whichever of the GET, the event stream and the
\* broadcast brings it first (addMessage and confirmOptimistic of ChatSessionStore).
THEOREM ShownOnce == Spec => []NoDuplicates
<1>1. IInv => NoDuplicates
    BY DEF IInv
<1> QED
    BY <1>1, Invariant, PTL

\* A temporary message is on the screen only while its stream may still confirm it
\* (the fallback and the finally block of _handleSendMessage).
THEOREM OptimisticWhileSending == Spec => []OptimisticOnlyWhileSending
<1>1. IInv => OptimisticOnlyWhileSending
    BY DEF IInv
<1> QED
    BY <1>1, Invariant, PTL

\* However late the loads of conversations left before are answered, the joined
\* channel is the open conversation's (the check after the awaits of
\* _initConversation).
THEOREM ChannelFollowsWindow == Spec => []RealtimeFollowsWindow
<1>1. IInv => RealtimeFollowsWindow
    BY DEF IInv
<1> QED
    BY <1>1, Invariant, PTL

\* At rest, and without one of the known losses, every saved message of the open
\* conversation is on the screen: the replay of joinConversation closes the gap
\* between the GET and the channel.
THEOREM AllShown == Spec => []NothingMissed
<1>1. ASSUME IInv
      PROVE  NothingMissed
  <2> SUFFICES ASSUME conv # None, joined = conv, wire = {},
                      \A i \in DOMAIN loads : loads[i].conv # conv, ~lossy
               PROVE  ToSet(Saved(conv)) \subseteq ToSet(shown)
      BY DEF NothingMissed
  <2>1. LogTypes /\ conv \in Conversations /\ Covered
      BY <1>1, Parts DEF WindowTypes
  <2>2. Reaching({})
      BY <2>1 DEF Covered
  <2> QED
      BY <2>1, <2>2, Served DEF Reaching
<1> QED
    BY <1>1, Invariant, PTL
=============================================================================
