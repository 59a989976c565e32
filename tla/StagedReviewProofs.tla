-------------------------- MODULE StagedReviewProofs --------------------------
(***************************************************************************)
(* Proofs about StagedReview, for any number of sessions and of requests   *)
(* served at a time, for journals of any length and of any branch.         *)
(*                                                                         *)
(* The journal's shape, which its writers keep, is all that a ledger needs *)
(* to balance.  What an answer shows is a set of the journal's events, its *)
(* reach their maximum: it grows with the cursor and with the journal.     *)
(* The exposure ledger covers whatever was answered before, though a       *)
(* request may be far behind the sessions and the journal it read; so what *)
(* it says when a label is chosen covers what was known when the           *)
(* annotation was asked for.                                               *)
(***************************************************************************)
EXTENDS StagedReview, FiniteSetTheorems, TLAPS

-----------------------------------------------------------------------------
(***************************************************************************)
(* The journal: the order of its events.                                   *)
(***************************************************************************)
Types == {"episode_start", "observation", "agent_context", "action_intent",
          "action_commit", "action_rejected", "terminal"}
EventType == [type : Types, request : Nat]

\* The types that an event of this type may follow.
Before(type) ==
    CASE type = "observation"     -> {"episode_start", "action_commit"}
      [] type = "agent_context"   -> {"observation"}
      [] type = "action_intent"   -> {"observation", "agent_context"}
      [] type = "action_commit"   -> {"action_intent"}
      [] type = "action_rejected" -> {"action_intent"}
      [] type = "terminal"        -> Types \ {"terminal"}
      [] OTHER                    -> {}

Intents(events) == Positions(events, "action_intent")

\* Every event follows one it may follow, a commit or rejection that of its
\* intent, every action a board; intents are numbered in their order.
Chained(events) ==
    \A i \in DOMAIN events :
        IF i = 1 THEN events[i].type \in {"episode_start", "terminal"}
        ELSE events[i - 1].type \in Before(events[i].type)
Answered(events) ==
    \A i \in DOMAIN events : events[i].type \in {"action_commit", "action_rejected"} =>
        events[i].request = events[i - 1].request
Boarded(events) ==
    \A i \in DOMAIN events : events[i].type \in ActionTypes => \E j \in Boards(events) : j < i
Numbered(events) ==
    \A i \in Intents(events) :
        /\ events[i].request <= Cardinality(Intents(events))
        /\ \A j \in Intents(events) : i < j => events[i].request < events[j].request
Shaped(events) ==
    /\ events \in Seq(EventType)
    /\ Chained(events) /\ Answered(events) /\ Boarded(events) /\ Numbered(events)

\* A terminal counts what its writer counts.
Endings ==
    Ended(log) =>
        \/ ending.scope = "incomplete"
        \/ ending.scope = "unstarted" /\ ending.committed = 0 /\ ~Started(log) /\ Commits(log) = 0
        \/ ending.scope = "runner" /\ Started(log) /\ ending.committed = Inherited + Commits(log)
        \/ ending.scope = "recovered" /\ ending.committed = Commits(log)

JournalInv == Shaped(log) /\ Endings

\* What an event is that may be appended.
MayFollow(events, e) ==
    /\ e \in EventType
    /\ IF events = <<>> THEN e.type \in {"episode_start", "terminal"}
       ELSE events[Len(events)].type \in Before(e.type)
    /\ e.type \in {"action_commit", "action_rejected"} =>
         e.request = events[Len(events)].request
    /\ e.type = "action_intent" => e.request = Cardinality(Intents(events)) + 1

\* A journal with one event more.
LEMMA Appended ==
  ASSUME NEW events \in Seq(EventType), NEW e \in EventType
  PROVE  /\ Append(events, e) \in Seq(EventType)
         /\ Len(events) \in Nat /\ DOMAIN events = 1 .. Len(events)
         /\ Len(Append(events, e)) = Len(events) + 1
         /\ DOMAIN Append(events, e) = 1 .. (Len(events) + 1)
         /\ Append(events, e)[Len(events) + 1] = e
         /\ \A i \in 1 .. Len(events) : Append(events, e)[i] = events[i]
  OBVIOUS

\* A journal has finitely many events of a type.
LEMMA PositionsFinite ==
  ASSUME NEW events \in Seq(EventType), NEW type
  PROVE  /\ Positions(events, type) \subseteq 1 .. Len(events) /\ Len(events) \in Nat
         /\ IsFiniteSet(Positions(events, type)) /\ Cardinality(Positions(events, type)) \in Nat
<1>1. Positions(events, type) \subseteq 1 .. Len(events) /\ Len(events) \in Nat
  BY DEF Positions
<1>2. IsFiniteSet(1 .. Len(events))
  BY <1>1, FS_Interval
<1> QED
  BY <1>1, <1>2, FS_Subset, FS_CardinalityType

\* The positions of a type, one more if the new event has it.
LEMMA AppendedPositions ==
  ASSUME NEW events \in Seq(EventType), NEW e \in EventType, NEW type
  PROVE  /\ Positions(Append(events, e), type)
              = Positions(events, type) \cup (IF e.type = type THEN {Len(events) + 1} ELSE {})
         /\ Positions(events, type) \subseteq 1 .. Len(events)
         /\ IsFiniteSet(Positions(events, type))
         /\ Cardinality(Positions(events, type)) \in Nat
         /\ Cardinality(Positions(Append(events, e), type))
              = Cardinality(Positions(events, type)) + (IF e.type = type THEN 1 ELSE 0)
<1> DEFINE more == Append(events, e)
           P == Positions(events, type)
<1>1. Positions(more, type) = P \cup (IF e.type = type THEN {Len(events) + 1} ELSE {})
  <2> HIDE DEF more
  <2> QED
    BY Appended DEF Positions, more
<1>2. P \subseteq 1 .. Len(events) /\ Len(events) \in Nat
  BY Appended DEF Positions
<1>3. IsFiniteSet(P) /\ Cardinality(P) \in Nat
  BY PositionsFinite
<1>4. Len(events) + 1 \notin P
  BY <1>2
<1>5. Cardinality(Positions(more, type)) = Cardinality(P) + (IF e.type = type THEN 1 ELSE 0)
  <2> HIDE DEF P, more
  <2>1. CASE e.type = type
    BY <1>1, <1>3, <1>4, <2>1, FS_AddElement
  <2>2. CASE e.type # type
    BY <1>1, <1>3, <2>2
  <2> QED
    BY <2>1, <2>2
<1> QED
  BY <1>1, <1>2, <1>3, <1>5

\* What a type says of the one before.
LEMMA BeforeTypes ==
  ASSUME NEW a, NEW b, a \in Before(b)
  PROVE  /\ a # "terminal" /\ b # "episode_start" /\ a \in Types
         /\ b \in {"action_commit", "action_rejected"} => a = "action_intent"
         /\ b = "observation" => a \in {"episode_start", "action_commit"}
         /\ b \in ActionTypes => a \in ActionTypes \cup {"observation"}
         /\ b \in {"action_intent", "action_commit", "action_rejected", "agent_context",
                   "observation", "terminal"}
         /\ a = "agent_context" => b \in {"action_intent", "terminal"}
  BY DEF Before, Types, ActionTypes

\* The shape of a journal stays when an event that may is appended.
LEMMA ShapedAppend ==
  ASSUME NEW events, Shaped(events), NEW e, MayFollow(events, e)
  PROVE  Shaped(Append(events, e))
<1> DEFINE more == Append(events, e)
           n == Len(events) + 1
<1>1. /\ more \in Seq(EventType) /\ Len(events) \in Nat /\ DOMAIN events = 1 .. Len(events)
      /\ DOMAIN more = 1 .. n /\ more[n] = e
      /\ \A i \in 1 .. Len(events) : more[i] = events[i]
  BY Appended DEF Shaped, MayFollow
<1>2. events = <<>> <=> Len(events) = 0
  BY DEF Shaped
<1>3. Boards(events) \subseteq Boards(more)
  BY AppendedPositions DEF Shaped, MayFollow, Boards
<1> HIDE DEF more
<1>4. ASSUME NEW i \in DOMAIN more, i # n
      PROVE  i \in DOMAIN events /\ (i # 1 => i - 1 \in DOMAIN events) /\ more[i] = events[i]
             /\ (i # 1 => more[i - 1] = events[i - 1])
  BY <1>1, <1>4
<1>5. Chained(more)
  <2> SUFFICES ASSUME NEW i \in DOMAIN more
               PROVE  IF i = 1 THEN more[i].type \in {"episode_start", "terminal"}
                      ELSE more[i - 1].type \in Before(more[i].type)
    BY DEF Chained
  <2>1. CASE i # n
    BY <1>4, <2>1 DEF Shaped, Chained
  <2>2. CASE i = n
    BY <1>1, <1>2, <2>2 DEF MayFollow
  <2> QED
    BY <2>1, <2>2
<1>6. Answered(more)
  <2> SUFFICES ASSUME NEW i \in DOMAIN more,
                      more[i].type \in {"action_commit", "action_rejected"}
               PROVE  more[i].request = more[i - 1].request
    BY DEF Answered
  <2>1. i # 1
    BY <1>5 DEF Chained
  <2>2. CASE i # n
    BY <1>4, <2>1, <2>2 DEF Shaped, Answered
  <2>3. CASE i = n
    BY <1>1, <2>1, <2>3 DEF MayFollow
  <2> QED
    BY <2>2, <2>3
<1>7. Boarded(more)
  <2> SUFFICES ASSUME NEW i \in DOMAIN more, more[i].type \in ActionTypes
               PROVE  \E j \in Boards(more) : j < i
    BY DEF Boarded
  <2>1. CASE i # n
    BY <1>3, <1>4, <2>1 DEF Shaped, Boarded
  <2>2. CASE i = n
    <3>1. /\ Len(events) \in DOMAIN events /\ Len(events) < n
          /\ events[Len(events)].type \in Before(e.type)
      BY <1>1, <1>2, <2>2 DEF MayFollow, ActionTypes
    <3>2. events[Len(events)].type \in ActionTypes \cup {"observation"}
      BY <1>1, <2>2, <3>1, BeforeTypes
    <3>3. CASE events[Len(events)].type = "observation"
      <4>1. Len(events) \in Boards(events)
        BY <3>1, <3>3 DEF Boards, Positions
      <4> QED
        BY <1>3, <2>2, <3>1, <4>1
    <3>4. CASE events[Len(events)].type \in ActionTypes
      <4>1. PICK j \in Boards(events) : j < Len(events)
        BY <3>1, <3>4 DEF Shaped, Boarded
      <4>2. j \in DOMAIN events
        BY DEF Boards, Positions
      <4> QED
        BY <1>1, <1>3, <2>2, <4>1, <4>2
    <3> QED
      BY <3>2, <3>3, <3>4
  <2> QED
    BY <2>1, <2>2
<1>8. Numbered(more)
  <2> DEFINE I == Intents(events)
             k == Cardinality(I)
  <2>1. /\ Intents(more) = I \cup (IF e.type = "action_intent" THEN {n} ELSE {})
        /\ I \subseteq 1 .. Len(events) /\ k \in Nat
        /\ Cardinality(Intents(more)) = k + (IF e.type = "action_intent" THEN 1 ELSE 0)
    BY AppendedPositions DEF Shaped, MayFollow, Intents, more
  <2>2. \A i \in I : events[i].request \in Nat
    <3>1. \A i \in 1 .. Len(events) : events[i] \in EventType
      BY <1>1 DEF Shaped
    <3> QED
      BY <2>1, <3>1 DEF EventType
  <2>3. \A i \in I : /\ more[i].request <= k /\ more[i].request \in Nat
                     /\ \A j \in I : i < j => more[i].request < more[j].request
    BY <1>1, <2>1, <2>2 DEF Shaped, Numbered
  <2>4. e.type = "action_intent" => more[n].request = k + 1
    BY <1>1 DEF MayFollow
  <2> HIDE DEF I, k, n
  <2>5. \A i \in I : i < n
    BY <1>1, <2>1 DEF n
  <2> SUFFICES ASSUME NEW i \in Intents(more)
               PROVE  /\ more[i].request <= Cardinality(Intents(more))
                      /\ \A j \in Intents(more) : i < j => more[i].request < more[j].request
    BY DEF Numbered
  <2>6. CASE i \in I
    BY <2>1, <2>3, <2>4, <2>6
  <2>7. CASE i \notin I
    <3>1. i = n /\ e.type = "action_intent"
      BY <2>1, <2>7
    <3>2. n \in Nat /\ \A j \in I : j \in Nat
      BY <1>1, <2>1 DEF n
    <3> QED
      BY <2>1, <2>4, <2>5, <3>1, <3>2
  <2> QED
    BY <2>6, <2>7
<1> QED
  BY <1>1, <1>5, <1>6, <1>7, <1>8 DEF Shaped, more

\* Only the last event can be a terminal, only the first the start.
LEMMA EndsLast ==
  ASSUME NEW events, Shaped(events)
  PROVE  /\ \A i \in DOMAIN events : events[i].type = "terminal" => i = Len(events)
         /\ \A i \in DOMAIN events : events[i].type = "episode_start" => i = 1
         /\ Ended(events) => events # <<>> /\ events[Len(events)].type = "terminal"
<1>1. DOMAIN events = 1 .. Len(events) /\ Len(events) \in Nat
  BY DEF Shaped
<1>2. ASSUME NEW i \in DOMAIN events, events[i].type = "terminal", i # Len(events) PROVE FALSE
  <2>1. i + 1 \in DOMAIN events /\ i + 1 # 1 /\ (i + 1) - 1 = i
    BY <1>1, <1>2
  <2>2. events[i].type \in Before(events[i + 1].type)
    BY <2>1 DEF Shaped, Chained
  <2> QED
    BY <1>2, <2>2, BeforeTypes
<1>3. ASSUME NEW i \in DOMAIN events, events[i].type = "episode_start", i # 1 PROVE FALSE
  BY <1>3, BeforeTypes DEF Shaped, Chained
<1>4. ASSUME Ended(events) PROVE events # <<>> /\ events[Len(events)].type = "terminal"
  BY <1>1, <1>2, <1>4 DEF Ended
<1> QED
  BY <1>2, <1>3, <1>4

\* An event that is written after some types follows one of them.
LEMMA WriteFollows ==
  ASSUME JournalInv, NEW type \in Types, NEW request, NEW after,
         Write(type, request, after), after \subseteq Before(type)
  PROVE  /\ log # <<>> /\ log[Len(log)].type \in after /\ log[Len(log)].request \in Nat
         /\ ~Ended(log) /\ log' = Append(log, Event(type, request)) /\ ending' = ending
<1>1. log \in Seq(EventType) /\ Len(log) \in Nat /\ DOMAIN log = 1 .. Len(log)
      /\ (log = <<>> <=> Len(log) = 0)
  BY DEF JournalInv, Shaped
<1>2. "nothing" \notin after /\ "terminal" \notin after
  BY DEF Before, Types
<1>3. log # <<>> /\ log[Len(log)].type \in after
  BY <1>2 DEF Write, Last
<1>4. log[Len(log)] \in EventType
  BY <1>1, <1>3
<1>5. ~Ended(log)
  BY <1>2, <1>3, EndsLast DEF JournalInv
<1> QED
  BY <1>3, <1>4, <1>5 DEF Write, EventType

\* Whatever is written is an event that may follow, by a writer who finds no
\* terminal.
LEMMA Writes ==
  ASSUME JournalInv, WriteJournal
  PROVE  /\ ~Ended(log)
         /\ \E e : MayFollow(log, e) /\ log' = Append(log, e)
                    /\ (e.type = "terminal" => Finish \/ FinishFailed \/ Recover)
<1>1. log \in Seq(EventType) /\ Len(log) \in Nat /\ DOMAIN log = 1 .. Len(log)
      /\ (log = <<>> <=> Len(log) = 0)
  BY DEF JournalInv, Shaped
<1>2. Cardinality(Intents(log)) \in Nat
  BY <1>1, PositionsFinite DEF Intents
<1>3. ASSUME NEW type \in Types, NEW request \in Nat
      PROVE  /\ Event(type, request) \in EventType
             /\ Event(type, request).type = type /\ Event(type, request).request = request
  BY DEF Event, EventType
<1>4. CASE LogStart
  <2>1. log = <<>> /\ log' = Append(log, Event("episode_start", 0)) /\ ending' = ending
    <3>1. log # <<>> => log[Len(log)] \in EventType
      BY <1>1
    <3> QED
      BY <1>4, <3>1 DEF LogStart, Write, Last, EventType, Types
  <2>2. MayFollow(log, Event("episode_start", 0))
    BY <1>3, <2>1 DEF MayFollow, Types
  <2> QED
    BY <2>1, <2>2 DEF Ended, Event
<1>5. CASE Observe
  <2>1. {"episode_start", "action_commit"} \subseteq Before("observation")
    BY DEF Before
  <2>2. Write("observation", 0, {"episode_start", "action_commit"})
    BY <1>5 DEF Observe
  <2>3. /\ log # <<>> /\ log[Len(log)].type \in {"episode_start", "action_commit"}
        /\ ~Ended(log) /\ log' = Append(log, Event("observation", 0)) /\ ending' = ending
    BY <2>1, <2>2, WriteFollows DEF Types
  <2>4. MayFollow(log, Event("observation", 0))
    BY <1>3, <2>1, <2>3 DEF MayFollow, Types
  <2> QED
    BY <2>3, <2>4 DEF Event
<1>6. CASE TakeTurn
  <2>1. {"observation"} \subseteq Before("agent_context")
    BY DEF Before
  <2>2. Write("agent_context", 0, {"observation"})
    BY <1>6 DEF TakeTurn
  <2>3. /\ log # <<>> /\ log[Len(log)].type \in {"observation"}
        /\ ~Ended(log) /\ log' = Append(log, Event("agent_context", 0)) /\ ending' = ending
    BY <2>1, <2>2, WriteFollows DEF Types
  <2>4. MayFollow(log, Event("agent_context", 0))
    BY <1>3, <2>1, <2>3 DEF MayFollow, Types
  <2> QED
    BY <2>3, <2>4 DEF Event
<1>7. CASE Intend
  <2> DEFINE n == Cardinality(Intents(log)) + 1
  <2>1. {"observation", "agent_context"} \subseteq Before("action_intent") /\ n \in Nat
    BY <1>2 DEF Before
  <2>2. Write("action_intent", n, {"observation", "agent_context"})
    BY <1>7 DEF Intend, Intents
  <2>3. /\ log # <<>> /\ log[Len(log)].type \in {"observation", "agent_context"}
        /\ ~Ended(log) /\ log' = Append(log, Event("action_intent", n)) /\ ending' = ending
    <3> HIDE DEF n
    <3> QED
      BY <2>1, <2>2, WriteFollows DEF Types
  <2>4. MayFollow(log, Event("action_intent", n))
    <3>1. /\ Event("action_intent", n) \in EventType
          /\ Event("action_intent", n).type = "action_intent" /\ Event("action_intent", n).request = n
      <4> HIDE DEF n
      <4> QED
        BY <1>3, <2>1 DEF Types
    <3> QED
      BY <3>1, <2>1, <2>3 DEF MayFollow
  <2> QED
    BY <2>3, <2>4 DEF Event
<1>8. ASSUME NEW type \in {"action_commit", "action_rejected"},
             Write(type, log[Len(log)].request, {"action_intent"})
      PROVE  /\ ~Ended(log)
             /\ \E e : MayFollow(log, e) /\ log' = Append(log, e)
                       /\ (e.type = "terminal" => Finish \/ FinishFailed \/ Recover)
  <2>1. {"action_intent"} \subseteq Before(type) /\ type \in Types
    BY DEF Before, Types
  <2>2. /\ log # <<>> /\ log[Len(log)].type \in {"action_intent"} /\ log[Len(log)].request \in Nat
        /\ ~Ended(log) /\ log' = Append(log, Event(type, log[Len(log)].request)) /\ ending' = ending
    BY <1>8, <2>1, WriteFollows
  <2>3. MayFollow(log, Event(type, log[Len(log)].request))
    <3>1. PICK r : r = log[Len(log)].request
      OBVIOUS
    <3>2. /\ Event(type, r) \in EventType
          /\ Event(type, r).type = type /\ Event(type, r).request = r
      BY <1>3, <2>1, <2>2, <3>1
    <3> QED
      BY <3>1, <3>2, <2>1, <2>2 DEF MayFollow
  <2> QED
    BY <2>2, <2>3 DEF Event
<1>9. ASSUME NEW scope, NEW count, End(scope, count), Finish \/ FinishFailed \/ Recover
      PROVE  /\ ~Ended(log)
             /\ \E e : MayFollow(log, e) /\ log' = Append(log, e)
                       /\ (e.type = "terminal" => Finish \/ FinishFailed \/ Recover)
  <2>1. ~Ended(log) /\ log' = Append(log, Event("terminal", 0))
    BY <1>9 DEF End
  <2>2. log # <<>> => log[Len(log)].type \in Types \ {"terminal"}
    <3>1. ASSUME log # <<>> PROVE Len(log) \in DOMAIN log /\ log[Len(log)] \in EventType
      BY <1>1, <3>1
    <3> QED
      BY <2>1, <3>1 DEF Ended, EventType
  <2>3. MayFollow(log, Event("terminal", 0))
    <3>1. Before("terminal") = Types \ {"terminal"}
      BY DEF Before
    <3> QED
      BY <1>3, <2>2, <3>1 DEF MayFollow, Types
  <2> QED
    BY <1>9, <2>1, <2>3
<1> QED
  <2>1. CASE Commit \/ RejectNative
    BY <1>8, <2>1 DEF Commit, RejectNative
  <2>2. CASE Finish \/ FinishFailed \/ Recover
    <3>1. \E scope, count : End(scope, count)
      BY <2>2 DEF Finish, FinishFailed, Recover
    <3> QED
      BY <1>9, <2>2, <3>1
  <2> QED
    BY <1>4, <1>5, <1>6, <1>7, <2>1, <2>2 DEF WriteJournal

\* The journal keeps its shape, and its terminal counts what its writer counts.
LEMMA JournalStep ==
  ASSUME JournalInv, WriteJournal
  PROVE  JournalInv'
<1>1. PICK e : MayFollow(log, e) /\ log' = Append(log, e)
               /\ (e.type = "terminal" => Finish \/ FinishFailed \/ Recover)
  BY Writes
<1>2. ~Ended(log) /\ log \in Seq(EventType) /\ e \in EventType
  BY <1>1, Writes DEF JournalInv, Shaped, MayFollow
<1>3. Shaped(log')
  BY <1>1, ShapedAppend DEF JournalInv
<1>4. Endings'
  <2>1. SUFFICES ASSUME Ended(log)'
                 PROVE  (\/ ending.scope = "incomplete"
                         \/ ending.scope = "unstarted" /\ ending.committed = 0 /\ ~Started(log) /\ Commits(log) = 0
                         \/ ending.scope = "runner" /\ Started(log) /\ ending.committed = Inherited + Commits(log)
                         \/ ending.scope = "recovered" /\ ending.committed = Commits(log))'
    BY DEF Endings
  <2>2. e.type = "terminal"
    BY <1>1, <1>2, <2>1, Appended DEF Ended
  <2>3. /\ Commits(log') = Commits(log) /\ (Started(log') <=> Started(log))
    BY <1>1, <1>2, <2>2, AppendedPositions DEF Commits, Started
  <2>4. log = <<>> => Commits(log) = 0 /\ ~Started(log)
    <3>1. log = <<>> => Positions(log, "action_commit") = {} /\ Positions(log, "episode_start") = {}
      BY DEF Positions
    <3> QED
      BY <3>1, FS_EmptySet DEF Commits, Started
  <2>5. log # <<>> => Started(log)
    <3>1. ASSUME log # <<>> PROVE Started(log)
      <4>1. 1 \in DOMAIN log
        BY <1>2, <3>1
      <4>2. log[1].type # "terminal"
        BY <1>2, <4>1 DEF Ended
      <4>3. log[1].type = "episode_start"
        BY <4>1, <4>2 DEF JournalInv, Shaped, Chained
      <4> QED
        BY <4>1, <4>3 DEF Started, Positions
    <3> QED
      BY <3>1
  <2>6. \/ log # <<>> /\ ending' = [scope |-> "runner", committed |-> Inherited + Commits(log)]
        \/ log = <<>> /\ ending' = [scope |-> "unstarted", committed |-> 0]
        \/ log # <<>> /\ ending' = [scope |-> "incomplete", committed |-> 0]
        \/ ending' = [scope |-> "recovered", committed |-> Commits(log)]
    <3>2. Finish \/ FinishFailed \/ Recover
      BY <1>1, <2>2
    <3> QED
      BY <3>2 DEF Finish, FinishFailed, Recover, End
  <2> QED
    BY <2>3, <2>4, <2>5, <2>6
<1> QED
  BY <1>3, <1>4 DEF JournalInv

-----------------------------------------------------------------------------
(***************************************************************************)
(* The decision ledger accounts for a journal of this shape.               *)
(***************************************************************************)

\* A commit or rejection follows its intent; what has the same request is the
\* same.
LEMMA Outcomes ==
  ASSUME NEW events, Shaped(events)
  PROVE  /\ \A i \in DOMAIN events : events[i].type \in {"action_commit", "action_rejected"} =>
              i - 1 \in Intents(events) /\ events[i].request = events[i - 1].request
         /\ \A i, j \in Intents(events) : events[i].request = events[j].request => i = j
         /\ \A i, j \in DOMAIN events :
              {events[i].type, events[j].type} \subseteq {"action_commit", "action_rejected"} =>
                (events[i].request = events[j].request => i = j)
<1>1. DOMAIN events = 1 .. Len(events) /\ Len(events) \in Nat
  BY DEF Shaped
<1>2. ASSUME NEW i \in DOMAIN events, events[i].type \in {"action_commit", "action_rejected"}
      PROVE  i - 1 \in Intents(events) /\ events[i].request = events[i - 1].request
  <2>1. i # 1 /\ events[i - 1].type \in Before(events[i].type)
    BY <1>2 DEF Shaped, Chained
  <2>2. i - 1 \in DOMAIN events /\ events[i - 1].type = "action_intent"
    BY <1>1, <1>2, <2>1, BeforeTypes
  <2> QED
    BY <1>2, <2>2 DEF Intents, Positions, Shaped, Answered
<1>3. ASSUME NEW i \in Intents(events), NEW j \in Intents(events),
             events[i].request = events[j].request, i # j
      PROVE  FALSE
  <2>1. i \in Nat /\ j \in Nat /\ events[i].request \in Nat /\ events[j].request \in Nat
    <3>1. i \in DOMAIN events /\ j \in DOMAIN events
      BY DEF Intents, Positions
    <3>2. events[i] \in EventType /\ events[j] \in EventType
      BY <3>1 DEF Shaped
    <3> QED
      BY <1>1, <3>1, <3>2 DEF EventType
  <2>2. i < j \/ j < i
    BY <1>3, <2>1
  <2>3. events[i].request < events[j].request \/ events[j].request < events[i].request
    BY <2>2 DEF Shaped, Numbered
  <2> QED
    BY <1>3, <2>1, <2>3
<1>4. \A i, j \in DOMAIN events :
        {events[i].type, events[j].type} \subseteq {"action_commit", "action_rejected"} =>
          (events[i].request = events[j].request => i = j)
  <2> SUFFICES ASSUME NEW i \in DOMAIN events, NEW j \in DOMAIN events,
                      {events[i].type, events[j].type} \subseteq {"action_commit", "action_rejected"},
                      events[i].request = events[j].request
               PROVE  i = j
    OBVIOUS
  <2>1. /\ i - 1 \in Intents(events) /\ events[i].request = events[i - 1].request
        /\ j - 1 \in Intents(events) /\ events[j].request = events[j - 1].request
    BY <1>2
  <2>2. i - 1 = j - 1
    BY <1>3, <2>1
  <2> QED
    BY <1>1, <2>2
<1>5. \A i, j \in Intents(events) : events[i].request = events[j].request => i = j
  BY <1>3
<1> QED
  BY <1>2, <1>4, <1>5

\* The requests with a settled row, and those with another one.
Rowed(events) == {events[i].request : i \in Rows(events)}
Unrowed(events) == {events[i].request : i \in Uncommitted(events)}

\* Every intent has one row.
LEMMA OneRowEach ==
  ASSUME NEW events, Shaped(events), NEW rowed, NEW open,
         rowed = Rowed(events), open = Unrowed(events)
  PROVE  /\ rowed \cap open = {} /\ rowed \cup open = Requests(events, "action_intent")
         /\ rowed \subseteq Requests(events, "action_commit")
<1> USE DEF Rowed, Unrowed
<1> DEFINE C == Positions(events, "action_commit")
<1>1. C \subseteq DOMAIN events /\ \A i \in C : events[i].type = "action_commit"
  BY DEF Positions
<1>2. Rows(events) \subseteq C /\ Intents(events) \subseteq DOMAIN events
  BY DEF Rows, Intents, Positions
<1>3. ASSUME NEW x \in rowed PROVE x \in Requests(events, "action_intent")
                                   /\ x \in Requests(events, "action_commit") /\ x \notin open
  <2>1. PICK i \in Rows(events) : events[i].request = x
    OBVIOUS
  <2>2. i - 1 \in Intents(events) /\ events[i - 1].request = x
    BY <1>1, <1>2, <2>1, Outcomes
  <2>3. x \in Requests(events, "action_intent") /\ x \in Requests(events, "action_commit")
    BY <1>2, <2>1, <2>2 DEF Requests, Intents
  <2>4. x \notin Settling(events)
    <3> SUFFICES ASSUME x \in Settling(events) PROVE FALSE
      OBVIOUS
    <3>1. PICK j \in C \ Rows(events) : events[j].request = x
      BY DEF Settling
    <3>2. i = j
      BY <1>1, <1>2, <2>1, <3>1, Outcomes
    <3> QED
      BY <2>1, <3>1, <3>2
  <2>5. x \notin open
    <3> SUFFICES ASSUME x \in open PROVE FALSE
      OBVIOUS
    <3>1. PICK k \in Uncommitted(events) : events[k].request = x
      OBVIOUS
    <3> QED
      BY <2>3, <2>4, <3>1 DEF Uncommitted
  <2> QED
    BY <2>3, <2>5
<1>4. open \subseteq Requests(events, "action_intent")
  BY DEF Uncommitted, Requests
<1>5. ASSUME NEW x \in Requests(events, "action_intent"), x \notin open PROVE x \in rowed
  <2>1. PICK i \in Positions(events, "action_intent") : events[i].request = x
    BY DEF Requests
  <2>2. x \in Requests(events, "action_commit") /\ x \notin Settling(events)
    BY <1>5, <2>1 DEF Uncommitted
  <2>3. PICK j \in C : events[j].request = x
    BY <2>2 DEF Requests
  <2>4. j \in Rows(events)
    BY <2>2, <2>3 DEF Settling
  <2> QED
    BY <2>3, <2>4
<1> QED
  BY <1>3, <1>4, <1>5

\* An intent without a row of its own has the status that the journal gives it.
LEMMA TrueStatus ==
  ASSUME NEW events, Shaped(events), NEW i \in Uncommitted(events)
  PROVE  /\ Status(events, i) = "awaiting_transition" <=>
              events[i].request \in Requests(events, "action_commit")
         /\ Status(events, i) = "in_progress" => ~Ended(events)
<1> DEFINE x == events[i].request
<1>1. CASE x \in Requests(events, "action_rejected")
  <2>1. PICK k \in Positions(events, "action_rejected") : events[k].request = x
    BY <1>1 DEF Requests
  <2>2. ASSUME x \in Requests(events, "action_commit") PROVE FALSE
    <3>1. PICK j \in Positions(events, "action_commit") : events[j].request = x
      BY <2>2 DEF Requests
    <3>2. /\ j \in DOMAIN events /\ events[j].type = "action_commit"
          /\ k \in DOMAIN events /\ events[k].type = "action_rejected"
      BY <2>1, <3>1 DEF Positions
    <3>3. j = k
      BY <2>1, <3>1, <3>2, Outcomes
    <3> QED
      BY <3>2, <3>3
  <2> QED
    BY <1>1, <2>2 DEF Status
<1>2. CASE x \notin Requests(events, "action_rejected") /\ x \in Settling(events)
  <2>1. x \in Requests(events, "action_commit")
    BY <1>2 DEF Settling, Requests
  <2> QED
    BY <1>2, <2>1 DEF Status
<1>3. CASE x \notin Requests(events, "action_rejected") /\ x \notin Settling(events)
  <2>1. x \notin Requests(events, "action_commit")
    BY <1>3 DEF Uncommitted
  <2> QED
    BY <1>3, <2>1 DEF Status
<1> QED
  BY <1>1, <1>2, <1>3

\* At most one board is at work: that of the last turn, if nothing or only the
\* terminal came after it.
LEMMA OnePending ==
  ASSUME NEW events, Shaped(events)
  PROVE  Pending(events) \cap Acted(events) = {} /\ Cardinality(Pending(events)) <= 1
<1>1. DOMAIN events = 1 .. Len(events) /\ Len(events) \in Nat
  BY DEF Shaped
<1> DEFINE open(i) == i = Len(events) \/ (i = Len(events) - 1 /\ events[i + 1].type = "terminal")
           T == {i \in Positions(events, "agent_context") : open(i)}
<1>2. ASSUME NEW i \in Positions(events, "agent_context"), ~open(i)
      PROVE  BoardOf(events, i) \in Acted(events)
  <2>1. i \in DOMAIN events /\ events[i].type = "agent_context"
    BY DEF Positions
  <2>2. i + 1 \in DOMAIN events /\ i + 1 # 1 /\ (i + 1) - 1 = i
    BY <1>1, <1>2, <2>1
  <2>3. events[i + 1].type \in {"action_intent", "terminal"}
    BY <2>1, <2>2, BeforeTypes DEF Shaped, Chained
  <2>4. events[i + 1].type # "terminal"
    BY <1>1, <1>2, <2>2, EndsLast
  <2>5. i + 1 \in Positions(events, "action_intent") /\ i + 1 \notin Boards(events)
    BY <2>2, <2>3, <2>4 DEF Positions, Boards
  <2>6. {j \in Boards(events) : j <= i + 1} = {j \in Boards(events) : j <= i}
    <3>1. \A j \in Boards(events) : j \in Nat
      BY <1>1 DEF Boards, Positions
    <3>2. i \in Nat
      BY <1>1, <2>1
    <3> QED
      BY <2>5, <3>1, <3>2
  <2>7. BoardOf(events, i + 1) = BoardOf(events, i)
    BY <2>6 DEF BoardOf
  <2> QED
    BY <2>5, <2>7 DEF Acted
<1>3. \A i, j \in T : i = j
  <2> SUFFICES ASSUME NEW i \in T, NEW j \in T, i < j PROVE FALSE
    <3>1. \A i \in T : i \in Nat
      BY <1>1 DEF Positions
    <3> QED
      BY <3>1
  <2>1. i \in DOMAIN events /\ j \in DOMAIN events /\ events[j].type = "agent_context"
    BY DEF Positions
  <2>2. j = Len(events) /\ events[i + 1].type = "terminal" /\ i + 1 = j
    BY <1>1, <2>1
  <2> QED
    BY <2>1, <2>2
<1>4. Pending(events) \subseteq {BoardOf(events, i) : i \in T}
  BY <1>2 DEF Pending
<1>5. PICK S : S = {BoardOf(events, i) : i \in T}
  OBVIOUS
<1>6. \A x, y \in S : x = y
  <2> HIDE DEF T
  <2> QED
    BY <1>3, <1>5
<1>7. Pending(events) = {} \/ \E x : Pending(events) = {x}
  <2> HIDE DEF T
  <2>1. Pending(events) \subseteq S
    BY <1>4, <1>5
  <2> QED
    BY <1>6, <2>1
<1>8. Cardinality(Pending(events)) <= 1
  BY <1>7, FS_EmptySet, FS_Singleton
<1> QED
  BY <1>8 DEF Pending

\* A kept snapshot is the journal: it is served while their lengths agree.
LEMMA SnapshotIsLog ==
  ASSUME Shaped(log)
  PROVE  Snapshot = log
<1>1. log \in Seq(EventType)
  BY DEF Shaped
<1>2. SubSeq(log, 1, Len(log)) = log
  BY <1>1
<1> QED
  BY <1>2 DEF Snapshot

\* The ledger balances.
LEMMA JournalBalances ==
  ASSUME JournalInv
  PROVE  LedgerBalances
<1> SUFFICES ASSUME ~Incomplete(log), ~Unsettled(log)
             PROVE  Opens(log) /\ Accounts(log)
  BY SnapshotIsLog DEF JournalInv, LedgerBalances
<1>1. Shaped(log) /\ Endings
  BY DEF JournalInv
<1>2. Accounts(log)
  <2>1. PICK rowed, open : rowed = Rowed(log) /\ open = Unrowed(log)
    OBVIOUS
  <2>2. /\ rowed \cap open = {} /\ rowed \cup open = Requests(log, "action_intent")
        /\ rowed \subseteq Requests(log, "action_commit")
    BY <1>1, <2>1, OneRowEach
  <2>3. \A i \in Uncommitted(log) :
          /\ Status(log, i) = "awaiting_transition" <=> log[i].request \in Requests(log, "action_commit")
          /\ Status(log, i) = "in_progress" => ~Ended(log)
    BY <1>1, TrueStatus
  <2>4. Pending(log) \cap Acted(log) = {} /\ Cardinality(Pending(log)) <= 1
    BY <1>1, OnePending
  <2> QED
    BY <2>1, <2>2, <2>3, <2>4 DEF Accounts, Rowed, Unrowed
<1>3. ASSUME Ended(log)
      PROVE  Cardinality(Rows(log)) = Commits(log) /\ ending.committed = Expected(log)
  <2> DEFINE C == Positions(log, "action_commit")
  <2>1. C \ Rows(log) = {}
    <3>1. CASE Boards(log) = {}
      <4>1. \A i \in C : i \in DOMAIN log /\ log[i].type \in ActionTypes
        BY DEF Positions, ActionTypes
      <4> QED
        BY <1>1, <3>1, <4>1 DEF Shaped, Boarded
    <3>2. CASE Boards(log) # {}
      BY <1>3, <3>2 DEF Unsettled, Settling
    <3> QED
      BY <3>1, <3>2
  <2>2. Rows(log) = C
    BY <2>1 DEF Rows
  <2>3. Cardinality(Rows(log)) = Commits(log)
    BY <2>2 DEF Commits
  <2>4. Commits(log) \in Nat /\ Inherited \in Nat
    BY <1>1, PositionsFinite, LineageAssumption DEF Shaped, Commits
  <2>5. ending.committed = Expected(log)
    BY <1>1, <1>3, <2>4 DEF Endings, Incomplete, Expected
  <2> QED
    BY <2>3, <2>5
<1>4. Opens(log)
  BY <1>3 DEF Opens, Balanced
<1> QED
  BY <1>2, <1>4

-----------------------------------------------------------------------------
(***************************************************************************)
(* Greatest and least numbers.                                             *)
(***************************************************************************)

\* A set of natural numbers has a least element.
LEMMA LeastNat ==
  ASSUME NEW T \in SUBSET Nat, T # {}
  PROVE  \E n \in T : \A m \in T : n <= m
<1>1. PICK n \in T : \A m \in T : ~(<<m, n>> \in OpToRel(<, Nat))
  BY NatLessThanWellFounded, WFMin
<1>2. \A m \in T : ~(m < n)
  BY <1>1 DEF OpToRel
<1> QED
  BY <1>2

\* What bounds of a set in it is its greatest element.
LEMMA MaxUnique ==
  ASSUME NEW S \in SUBSET Nat, NEW m \in S, \A x \in S : x <= m
  PROVE  Max(S) = m
<1>1. PICK y : y = Max(S)
  OBVIOUS
<1>2. m \in S /\ \A x \in S : m >= x
  OBVIOUS
<1>3. y \in S /\ \A x \in S : y >= x
  BY <1>1, <1>2 DEF Max
<1> QED
  BY <1>1, <1>3

\* A bounded set has a greatest element.
LEMMA MaxIs ==
  ASSUME NEW k \in Nat, NEW S \in SUBSET (0 .. k), S # {}
  PROVE  /\ Max(S) \in S /\ Max(S) \in 0 .. k /\ \A x \in S : x <= Max(S)
<1> DEFINE T == {n \in 0 .. k : \A x \in S : x <= n}
<1>1. T \in SUBSET Nat /\ k \in T
  OBVIOUS
<1>2. PICK n \in T : \A m \in T : n <= m
  <2> HIDE DEF T
  <2> QED
    BY <1>1, LeastNat
<1>3. n \in S
  <2> SUFFICES ASSUME n \notin S PROVE FALSE
    OBVIOUS
  <2>1. PICK y \in S : TRUE
    OBVIOUS
  <2>2. \A x \in S : x <= n /\ x # n
    BY <1>2
  <2>3. n - 1 \in 0 .. k /\ \A x \in S : x <= n - 1
    BY <2>1, <2>2, <1>2
  <2>4. n - 1 \in T
    BY <2>3
  <2> QED
    BY <1>2, <2>3, <2>4
<1>4. S \in SUBSET Nat
  OBVIOUS
<1>5. Max(S) = n
  BY <1>2, <1>3, <1>4, MaxUnique
<1> QED
  BY <1>2, <1>3, <1>5

\* The greater of two.
LEMMA MaxPair ==
  ASSUME NEW a \in Nat, NEW b \in Nat
  PROVE  Max({a, b}) = IF a <= b THEN b ELSE a
<1>1. CASE a <= b
  BY <1>1, MaxUnique
<1>2. CASE ~(a <= b)
  BY <1>2, MaxUnique
<1> QED
  BY <1>1, <1>2

\* More has a greater maximum.
LEMMA MaxMore ==
  ASSUME NEW k \in Nat, NEW T \in SUBSET (0 .. k), NEW S \in SUBSET T, S # {}
  PROVE  Max(S) <= Max(T)
<1>1. Max(S) \in S
  BY MaxIs
<1> QED
  BY <1>1, MaxIs

\* The maximum of a part stands for the part.
LEMMA MaxOfMax ==
  ASSUME NEW k \in Nat, NEW A \in SUBSET (0 .. k), A # {}, NEW E \in SUBSET (0 .. k)
  PROVE  Max({Max(A)} \cup E) = Max(A \cup E)
<1>1. PICK a : a = Max(A)
  OBVIOUS
<1>2. a \in A /\ \A x \in A : x <= a
  BY <1>1, MaxIs
<1>3. PICK m : m = Max(A \cup E)
  OBVIOUS
<1>4. A \cup E \in SUBSET (0 .. k) /\ A \cup E # {}
  OBVIOUS
<1>5. m \in A \cup E /\ \A x \in A \cup E : x <= m
  BY <1>3, <1>4, MaxIs
<1>6. {a} \cup E \in SUBSET Nat /\ m \in {a} \cup E /\ \A x \in {a} \cup E : x <= m
  <2>1. m \in A => m = a
    BY <1>2, <1>5
  <2> QED
    BY <1>2, <1>5, <2>1
<1>7. Max({a} \cup E) = m
  BY <1>6, MaxUnique
<1> QED
  BY <1>1, <1>3, <1>7

-----------------------------------------------------------------------------
(***************************************************************************)
(* The boards of a journal, in their order.                                *)
(***************************************************************************)
Upto(events, i) == {j \in Boards(events) : j <= i}
Count(events, i) == Cardinality(Upto(events, i))

\* How many boards there are up to an event.
LEMMA CountType ==
  ASSUME NEW events \in Seq(EventType)
  PROVE  /\ Boards(events) \subseteq 1 .. Len(events) /\ Len(events) \in Nat
         /\ Decisions(events) \in Nat
         /\ \A i : IsFiniteSet(Upto(events, i)) /\ Count(events, i) \in Nat
         /\ Count(events, 0) = 0 /\ Count(events, Len(events)) = Decisions(events)
<1>1. /\ Boards(events) \subseteq 1 .. Len(events) /\ Len(events) \in Nat
      /\ IsFiniteSet(Boards(events)) /\ Decisions(events) \in Nat
  BY PositionsFinite DEF Boards, Decisions
<1>2. \A i : IsFiniteSet(Upto(events, i)) /\ Count(events, i) \in Nat
  <2>1. \A i : Upto(events, i) \subseteq Boards(events)
    BY DEF Upto
  <2> QED
    BY <1>1, <2>1, FS_Subset, FS_CardinalityType DEF Count
<1>3. Upto(events, 0) = {} /\ Upto(events, Len(events)) = Boards(events)
  BY <1>1 DEF Upto
<1> QED
  BY <1>1, <1>2, <1>3, FS_EmptySet DEF Count, Decisions

\* It grows by one at a board, and nowhere else.
LEMMA CountGrows ==
  ASSUME NEW events \in Seq(EventType), NEW i \in Nat, NEW k \in Nat, i <= k
  PROVE  /\ Count(events, i) <= Count(events, k)
         /\ k \in Boards(events) /\ i < k => Count(events, i) < Count(events, k)
         /\ k = i + 1 => Count(events, k) = Count(events, i) + (IF k \in Boards(events) THEN 1 ELSE 0)
<1>1. /\ Boards(events) \subseteq 1 .. Len(events) /\ Len(events) \in Nat
      /\ IsFiniteSet(Upto(events, i)) /\ Count(events, i) \in Nat
      /\ IsFiniteSet(Upto(events, k)) /\ Count(events, k) \in Nat
  BY CountType
<1>2. \A j \in Boards(events) : j \in Nat
  BY <1>1
<1>3. Upto(events, i) \subseteq Upto(events, k)
  BY <1>2 DEF Upto
<1>4. Count(events, i) <= Count(events, k)
  BY <1>1, <1>3, FS_Subset DEF Count
<1>5. ASSUME k \in Boards(events), i < k PROVE Count(events, i) + 1 <= Count(events, k)
  <2>1. k \notin Upto(events, i) /\ Upto(events, i) \cup {k} \subseteq Upto(events, k)
    BY <1>2, <1>3, <1>5 DEF Upto
  <2>2. Cardinality(Upto(events, i) \cup {k}) = Count(events, i) + 1
    BY <1>1, <2>1, FS_AddElement DEF Count
  <2> QED
    BY <1>1, <2>1, <2>2, FS_Subset DEF Count
<1>6. ASSUME k = i + 1
      PROVE  Count(events, k) = Count(events, i) + (IF k \in Boards(events) THEN 1 ELSE 0)
  <2>1. CASE k \in Boards(events)
    <3>1. ~(k <= i) /\ \A j \in Boards(events) : j <= k <=> (j <= i \/ j = k)
      BY <1>2, <1>6
    <3>2. k \notin Upto(events, i)
      BY <3>1 DEF Upto
    <3>3. Upto(events, k) = Upto(events, i) \cup {k}
      BY <2>1, <3>1 DEF Upto
    <3> QED
      BY <1>1, <2>1, <3>2, <3>3, FS_AddElement DEF Count
  <2>2. CASE k \notin Boards(events)
    <3>1. Upto(events, k) = Upto(events, i)
      BY <1>2, <1>6, <2>2 DEF Upto
    <3> QED
      BY <1>1, <2>2, <3>1 DEF Count
  <2> QED
    BY <2>1, <2>2
<1> QED
  BY <1>1, <1>4, <1>5, <1>6

\* The nth board.
LEMMA BoardAtIs ==
  ASSUME NEW events \in Seq(EventType), NEW n \in 1 .. Decisions(events)
  PROVE  /\ BoardAt(events, n) \in Boards(events) /\ Count(events, BoardAt(events, n)) = n
         /\ BoardAt(events, n) \in 1 .. Len(events)
         /\ \A i \in Boards(events) : Count(events, i) = n => i = BoardAt(events, n)
<1>1. /\ Boards(events) \subseteq 1 .. Len(events) /\ Len(events) \in Nat
      /\ \A i : Count(events, i) \in Nat
      /\ Count(events, 0) = 0 /\ Count(events, Len(events)) = Decisions(events)
      /\ Decisions(events) \in Nat
  BY CountType
<1> DEFINE T == {i \in Nat : n <= Count(events, i)}
<1>2. PICK i \in T : \A k \in T : i <= k
  <2>1. T \in SUBSET Nat /\ Len(events) \in T
    BY <1>1
  <2> HIDE DEF T
  <2> QED
    BY <2>1, LeastNat
<1>3. i # 0
  BY <1>1, <1>2
<1>4. i - 1 \in Nat /\ i - 1 \notin T /\ i - 1 <= i /\ (i - 1) + 1 = i
  BY <1>2, <1>3
<1>5. Count(events, i) = Count(events, i - 1) + (IF i \in Boards(events) THEN 1 ELSE 0)
  BY <1>2, <1>4, CountGrows
<1>6. i \in Boards(events) /\ Count(events, i) = n
  BY <1>1, <1>2, <1>4, <1>5
<1>7. ASSUME NEW x \in Boards(events), NEW y \in Boards(events),
             Count(events, x) = Count(events, y)
      PROVE  x = y
  <2>1. x \in Nat /\ y \in Nat
    BY <1>1
  <2>2. x < y => Count(events, x) < Count(events, y)
    BY <2>1, CountGrows
  <2>3. y < x => Count(events, y) < Count(events, x)
    BY <2>1, CountGrows
  <2> QED
    BY <1>1, <1>7, <2>1, <2>2, <2>3
<1>8. PICK b : b = BoardAt(events, n)
  OBVIOUS
<1>9. b \in Boards(events) /\ Count(events, b) = n
  BY <1>6, <1>8 DEF BoardAt, Count, Upto
<1> QED
  BY <1>1, <1>7, <1>8, <1>9

\* Later boards come later, and none in between.
LEMMA BoardsInOrder ==
  ASSUME NEW events \in Seq(EventType), NEW m \in 1 .. Decisions(events),
         NEW n \in 1 .. Decisions(events), m < n
  PROVE  /\ BoardAt(events, m) < BoardAt(events, n)
         /\ BoardAt(events, m + 1) <= BoardAt(events, n) /\ m + 1 \in 1 .. Decisions(events)
<1>0. Decisions(events) \in Nat
  BY CountType
<1>1. ASSUME NEW p \in 1 .. Decisions(events), NEW q \in 1 .. Decisions(events), p < q
      PROVE  BoardAt(events, p) < BoardAt(events, q)
  <2>1. PICK b, c : b = BoardAt(events, p) /\ c = BoardAt(events, q)
    OBVIOUS
  <2>2. /\ b \in 1 .. Len(events) /\ Count(events, b) = p
        /\ c \in 1 .. Len(events) /\ Count(events, c) = q
    BY <2>1, BoardAtIs
  <2>3. c <= b => Count(events, c) <= Count(events, b)
    <3>1. b \in Nat /\ c \in Nat
      BY <2>2
    <3> QED
      BY <3>1, CountGrows
  <2> QED
    BY <1>0, <1>1, <2>1, <2>2, <2>3
<1>2. m + 1 \in 1 .. Decisions(events) /\ (m + 1 = n \/ m + 1 < n)
  BY <1>0
<1>3. BoardAt(events, m + 1) <= BoardAt(events, n)
  <2>1. CASE m + 1 = n
    BY <2>1, <1>2, BoardAtIs
  <2>2. CASE m + 1 < n
    <3>1. BoardAt(events, m + 1) < BoardAt(events, n)
      BY <1>1, <1>2, <2>2
    <3> QED
      BY <1>2, <3>1, BoardAtIs
  <2> QED
    BY <1>2, <2>1, <2>2
<1> QED
  BY <1>1, <1>2, <1>3

\* One event more leaves the boards where they are.
LEMMA BoardsAppended ==
  ASSUME NEW events \in Seq(EventType), NEW e \in EventType, NEW more, more = Append(events, e)
  PROVE  /\ more \in Seq(EventType) /\ Len(more) = Len(events) + 1
         /\ Decisions(more) = Decisions(events) + (IF e.type = "observation" THEN 1 ELSE 0)
         /\ \A n \in 1 .. Decisions(events) : BoardAt(more, n) = BoardAt(events, n)
         /\ e.type = "observation" => BoardAt(more, Decisions(more)) = Len(more)
<1>1. /\ more \in Seq(EventType) /\ Len(events) \in Nat /\ Len(more) = Len(events) + 1
      /\ Decisions(more) = Decisions(events) + (IF e.type = "observation" THEN 1 ELSE 0)
      /\ Boards(more) = Boards(events) \cup (IF e.type = "observation" THEN {Len(more)} ELSE {})
      /\ Boards(events) \subseteq 1 .. Len(events)
  BY Appended, AppendedPositions DEF Decisions, Boards
<1>2. Decisions(events) \in Nat /\ Decisions(more) \in Nat
  BY <1>1, CountType
<1>3. ASSUME NEW i \in 1 .. Len(events) PROVE Count(more, i) = Count(events, i)
  <2>1. Upto(more, i) = Upto(events, i)
    BY <1>1 DEF Upto
  <2> QED
    BY <2>1 DEF Count
<1>4. ASSUME NEW n \in 1 .. Decisions(events) PROVE BoardAt(more, n) = BoardAt(events, n)
  <2>1. PICK b : b = BoardAt(events, n)
    OBVIOUS
  <2>2. b \in Boards(events) /\ b \in 1 .. Len(events) /\ Count(events, b) = n
    BY <2>1, BoardAtIs
  <2>3. b \in Boards(more) /\ Count(more, b) = n /\ n \in 1 .. Decisions(more)
    BY <1>1, <1>2, <1>3, <2>2
  <2> QED
    BY <1>1, <2>1, <2>3, BoardAtIs
<1>5. ASSUME e.type = "observation" PROVE BoardAt(more, Decisions(more)) = Len(more)
  <2>1. Len(more) \in Boards(more) /\ Count(more, Len(more)) = Decisions(more)
    BY <1>1, <1>5, CountType
  <2>2. Decisions(more) \in 1 .. Decisions(more)
    BY <1>1, <1>2, <1>5
  <2> QED
    BY <1>1, <2>1, <2>2, BoardAtIs
<1> QED
  BY <1>1, <1>4, <1>5

-----------------------------------------------------------------------------
(***************************************************************************)
(* Views.                                                                  *)
(***************************************************************************)

\* The events that a view is made of: the board, the actions at it, the board
\* after it or the end.
Board(events, c) == {BoardAt(events, c.index)}
Acts(events, c) == IF c.stage = "observation" THEN {} ELSE ActionEvents(events, c.index)
Onward(events, c) ==
    IF c.stage = "transition" /\ c.index < Decisions(events)
    THEN {BoardAt(events, c.index + 1)} ELSE {}
Outcome(events, c) == c.stage = "transition" /\ c.index = Decisions(events) /\ Ended(events)
Final(events, c) == IF Outcome(events, c) THEN {Len(events)} ELSE {}
Shown(events, c) == Board(events, c) \cup Acts(events, c) \cup Onward(events, c) \cup Final(events, c)
Claim(events, c, staged) ==
    Board(events, c) \cup Onward(events, c) \cup (IF staged THEN Acts(events, c) ELSE {})

\* A view by its parts.
LEMMA ViewIs ==
  ASSUME NEW events, NEW c, NEW staged \in BOOLEAN
  PROVE  /\ View(events, c, staged).shown = Max(Shown(events, c))
         /\ View(events, c, staged).claimed = Max(Claim(events, c, staged))
         /\ View(events, c, staged).exposed =
              IF staged THEN Max({Max(Claim(events, c, staged))} \cup Final(events, c))
              ELSE Max(Claim(events, c, staged))
         /\ View(events, c, staged).outcome = Outcome(events, c)
  BY DEF View, Shown, Claim, Board, Acts, Onward, Final, Outcome

\* They are events of the journal.
LEMMA ShownBounded ==
  ASSUME NEW events \in Seq(EventType), NEW c, c.index \in 1 .. Decisions(events),
         NEW staged
  PROVE  /\ Board(events, c) \in SUBSET (0 .. Len(events)) /\ Board(events, c) # {}
         /\ Acts(events, c) \in SUBSET (0 .. Len(events))
         /\ Onward(events, c) \in SUBSET (0 .. Len(events))
         /\ Final(events, c) \in SUBSET (0 .. Len(events))
         /\ Shown(events, c) \in SUBSET (0 .. Len(events)) /\ Shown(events, c) # {}
         /\ Claim(events, c, staged) \in SUBSET (0 .. Len(events)) /\ Claim(events, c, staged) # {}
         /\ Claim(events, c, staged) \subseteq Shown(events, c)
         /\ Len(events) \in Nat /\ Decisions(events) \in Nat
<1>1. Len(events) \in Nat /\ Decisions(events) \in Nat /\ DOMAIN events = 1 .. Len(events)
  BY CountType
<1>2. Board(events, c) \in SUBSET (0 .. Len(events)) /\ Board(events, c) # {}
  BY <1>1, BoardAtIs DEF Board
<1>3. Acts(events, c) \in SUBSET (0 .. Len(events))
  <2>1. ActionEvents(events, c.index) \subseteq 0 .. Len(events)
    <3>1. PICK b : b = BoardAt(events, c.index)
      OBVIOUS
    <3>2. b \in 1 .. Len(events)
      BY <3>1, BoardAtIs
    <3>3. SegmentEnd(events, c.index) \in Int /\ SegmentEnd(events, c.index) <= Len(events)
      <4>1. CASE c.index < Decisions(events)
        <5>1. c.index + 1 \in 1 .. Decisions(events)
          BY <1>1, <4>1
        <5>2. BoardAt(events, c.index + 1) \in 1 .. Len(events)
          BY <5>1, BoardAtIs
        <5> QED
          BY <1>1, <4>1, <5>2 DEF SegmentEnd
      <4>2. CASE ~(c.index < Decisions(events))
        BY <1>1, <4>2 DEF SegmentEnd
      <4> QED
        BY <4>1, <4>2
    <3> QED
      BY <1>1, <3>1, <3>2, <3>3 DEF ActionEvents
  <2> QED
    BY <2>1 DEF Acts
<1>4. Onward(events, c) \in SUBSET (0 .. Len(events))
  <2>1. CASE c.index < Decisions(events)
    <3>1. c.index + 1 \in 1 .. Decisions(events)
      BY <1>1, <2>1
    <3>2. BoardAt(events, c.index + 1) \in 1 .. Len(events)
      BY <3>1, BoardAtIs
    <3> QED
      BY <1>1, <3>2 DEF Onward
  <2>2. CASE ~(c.index < Decisions(events))
    BY <2>2 DEF Onward
  <2> QED
    BY <2>1, <2>2
<1>5. Final(events, c) \in SUBSET (0 .. Len(events))
  BY <1>1 DEF Final
<1> QED
  BY <1>1, <1>2, <1>3, <1>4, <1>5 DEF Shown, Claim

\* A view shows what it claims and no event that is not there; a staged one
\* exposes exactly what it shows.
LEMMA ViewFacts ==
  ASSUME NEW events \in Seq(EventType), NEW c, c.index \in 1 .. Decisions(events),
         NEW staged \in BOOLEAN, NEW v, v = View(events, c, staged)
  PROVE  /\ v.shown \in Nat /\ v.claimed \in Nat /\ v.exposed \in Nat /\ v.outcome \in BOOLEAN
         /\ v.shown <= Len(events) /\ v.claimed <= v.shown
         /\ staged => v.exposed = v.shown
         /\ v.shown = Max(Shown(events, c))
         /\ v.outcome => Ended(events)
<1> DEFINE S == Shown(events, c)
           C == Claim(events, c, staged)
           F == Final(events, c)
<1>1. /\ S \in SUBSET (0 .. Len(events)) /\ S # {} /\ C \in SUBSET S /\ C # {}
      /\ C \in SUBSET (0 .. Len(events)) /\ F \in SUBSET (0 .. Len(events)) /\ Len(events) \in Nat
  BY ShownBounded
<1>2. v.shown = Max(S) /\ v.claimed = Max(C) /\ v.outcome = Outcome(events, c)
      /\ v.exposed = IF staged THEN Max({Max(C)} \cup F) ELSE Max(C)
  BY ViewIs
<1>3. Max(S) \in 0 .. Len(events) /\ Max(C) \in 0 .. Len(events) /\ Max(C) <= Max(S)
  <2> HIDE DEF S, C, F
  <2> QED
    BY <1>1, MaxIs, MaxMore
<1>4. ASSUME staged PROVE v.exposed = Max(S)
  <2>1. C \cup F = S
    BY <1>4 DEF Claim, Shown
  <2>2. Max({Max(C)} \cup F) = Max(C \cup F)
    <3> HIDE DEF S, C, F
    <3> QED
      BY <1>1, MaxOfMax
  <2> QED
    BY <1>2, <1>4, <2>1, <2>2
<1>5. v.outcome \in BOOLEAN /\ (v.outcome => Ended(events))
  BY <1>2 DEF Outcome
<1> HIDE DEF S, C, F
<1> QED
  BY <1>1, <1>2, <1>3, <1>4, <1>5 DEF S

\* A cursor before another, or at it.
Behind(c, f) ==
    \/ c.index < f.index
    \/ c.index = f.index /\ (c.stage = f.stage \/ c.stage = "observation" \/ f.stage = "transition")

\* A view further on shows no less.
LEMMA FurtherShowsMore ==
  ASSUME NEW events \in Seq(EventType), NEW c, NEW f,
         c.index \in 1 .. Decisions(events), f.index \in 1 .. Decisions(events), Behind(c, f)
  PROVE  Max(Shown(events, c)) <= Max(Shown(events, f))
<1>1. /\ Shown(events, c) \in SUBSET (0 .. Len(events)) /\ Shown(events, c) # {}
      /\ Shown(events, f) \in SUBSET (0 .. Len(events)) /\ Shown(events, f) # {}
      /\ Len(events) \in Nat /\ Decisions(events) \in Nat
  BY ShownBounded
<1>2. CASE c.index = f.index
  <2>1. c.stage = f.stage \/ c.stage = "observation" \/ f.stage = "transition"
    BY <1>1, <1>2 DEF Behind
  <2>2. Shown(events, c) \subseteq Shown(events, f)
    BY <1>2, <2>1 DEF Shown, Board, Acts, Onward, Final, Outcome
  <2> QED
    BY <1>1, <2>2, MaxMore
<1>3. CASE c.index # f.index
  <2>1. c.index < f.index /\ c.index < Decisions(events) /\ c.index + 1 \in 1 .. Decisions(events)
    BY <1>1, <1>3 DEF Behind
  <2>2. PICK b, n, m : /\ b = BoardAt(events, c.index) /\ n = BoardAt(events, c.index + 1)
                       /\ m = BoardAt(events, f.index)
    OBVIOUS
  <2>3. b < n /\ n <= m /\ {b, n, m} \subseteq 1 .. Len(events)
    <3>1. c.index < c.index + 1
      BY <2>1
    <3>2. b < n
      BY <2>1, <2>2, <3>1, BoardsInOrder
    <3>3. n <= m
      BY <2>1, <2>2, BoardsInOrder
    <3> QED
      BY <2>1, <2>2, <3>2, <3>3, BoardAtIs
  <2>4. \A x \in Shown(events, c) : x <= n
    <3>1. \A x \in ActionEvents(events, c.index) : x <= n
      BY <1>1, <2>1, <2>2, <2>3 DEF ActionEvents, SegmentEnd
    <3>2. Final(events, c) = {}
      BY <1>1, <2>1 DEF Final, Outcome
    <3> QED
      BY <2>2, <2>3, <3>1, <3>2 DEF Shown, Board, Acts, Onward
  <2>5. Max(Shown(events, c)) \in Shown(events, c) /\ Max(Shown(events, c)) \in Nat
    BY <1>1, MaxIs
  <2>6. m \in Shown(events, f)
    BY <2>2 DEF Shown, Board
  <2>7. m <= Max(Shown(events, f)) /\ Max(Shown(events, f)) \in Nat
    BY <1>1, <2>6, MaxIs
  <2> QED
    BY <2>3, <2>4, <2>5, <2>7
<1> QED
  BY <1>2, <1>3

\* A view of a journal that has grown shows no less.
LEMMA LaterShowsMore ==
  ASSUME NEW events \in Seq(EventType), NEW e \in EventType, NEW more, more = Append(events, e),
         ~Ended(events), NEW c, c.index \in 1 .. Decisions(events)
  PROVE  /\ c.index \in 1 .. Decisions(more)
         /\ Max(Shown(events, c)) <= Max(Shown(more, c))
<1>1. /\ more \in Seq(EventType) /\ Len(more) = Len(events) + 1
      /\ Decisions(more) = Decisions(events) + (IF e.type = "observation" THEN 1 ELSE 0)
      /\ \A n \in 1 .. Decisions(events) : BoardAt(more, n) = BoardAt(events, n)
      /\ e.type = "observation" => BoardAt(more, Decisions(more)) = Len(more)
  BY BoardsAppended
<1>2. Len(events) \in Nat /\ Decisions(events) \in Nat
  BY CountType
<1>3. c.index \in 1 .. Decisions(more)
  BY <1>1, <1>2
<1>4. Acts(events, c) \subseteq Acts(more, c)
  <2>1. ActionEvents(events, c.index) \subseteq ActionEvents(more, c.index)
    <3>1. BoardAt(more, c.index) = BoardAt(events, c.index)
      BY <1>1
    <3>2. PICK s, t : s = SegmentEnd(events, c.index) /\ t = SegmentEnd(more, c.index)
      OBVIOUS
    <3>3. s \in Int /\ t \in Int /\ s <= t /\ s <= Len(events)
      <4>1. CASE c.index < Decisions(events)
        <5>1. c.index + 1 \in 1 .. Decisions(events) /\ c.index < Decisions(more)
          BY <1>1, <1>2, <4>1
        <5>2. BoardAt(events, c.index + 1) \in 1 .. Len(events)
              /\ BoardAt(more, c.index + 1) = BoardAt(events, c.index + 1)
          BY <1>1, <5>1, BoardAtIs
        <5> QED
          BY <1>2, <3>2, <4>1, <5>1, <5>2 DEF SegmentEnd
      <4>2. CASE c.index = Decisions(events) /\ e.type = "observation"
        <5>1. s = Len(events) /\ c.index < Decisions(more) /\ c.index + 1 = Decisions(more)
          BY <1>1, <1>2, <3>2, <4>2 DEF SegmentEnd
        <5>2. t = Len(more) - 1
          BY <1>1, <3>2, <4>2, <5>1 DEF SegmentEnd
        <5> QED
          BY <1>1, <1>2, <5>1, <5>2
      <4>3. CASE c.index = Decisions(events) /\ e.type # "observation"
        <5>1. s = Len(events) /\ t = Len(more)
          BY <1>1, <1>2, <3>2, <4>3 DEF SegmentEnd
        <5> QED
          BY <1>1, <1>2, <5>1
      <4> QED
        BY <1>2, <4>1, <4>2, <4>3
    <3>4. \A i \in 1 .. Len(events) : more[i] = events[i]
      BY Appended
    <3>5. BoardAt(events, c.index) \in 1 .. Len(events)
      BY BoardAtIs
    <3> QED
      BY <1>2, <3>1, <3>2, <3>3, <3>4, <3>5 DEF ActionEvents
  <2> QED
    BY <2>1 DEF Acts
<1>5. Onward(events, c) \subseteq Onward(more, c)
  <2>1. CASE c.index < Decisions(events)
    <3>1. c.index + 1 \in 1 .. Decisions(events) /\ c.index < Decisions(more)
      BY <1>1, <1>2, <2>1
    <3> QED
      BY <1>1, <2>1, <3>1 DEF Onward
  <2>2. CASE ~(c.index < Decisions(events))
    BY <2>2 DEF Onward
  <2> QED
    BY <2>1, <2>2
<1>6. Board(events, c) = Board(more, c) /\ Final(events, c) = {}
  BY <1>1 DEF Board, Final, Outcome
<1>7. Shown(events, c) \subseteq Shown(more, c)
  BY <1>4, <1>5, <1>6 DEF Shown
<1>8. /\ Shown(more, c) \in SUBSET (0 .. Len(more)) /\ Shown(events, c) # {} /\ Len(more) \in Nat
  BY <1>1, <1>3, ShownBounded
<1> QED
  BY <1>3, <1>7, <1>8, MaxMore

-----------------------------------------------------------------------------
(***************************************************************************)
(* The invariant of the reviews.                                           *)
(***************************************************************************)
Modes == {"prospective", "retrospective"}
Exposure == [max : Nat, outcome : BOOLEAN, prior : BOOLEAN]
Note == [mode : Modes \cup {"mixed"}, shown : Nat, before : Nat, knew : BOOLEAN]
Job ==
    {Idle}
    \cup [pc : {"reveal"}, kind : {"view", "note"}, token : Tokens \cup {None}, mode : Modes,
          cursor : Cursors, before : Nat, knew : BOOLEAN]
    \cup [pc : {"label"}, mode : Modes, claimed : Nat, shown : Nat, before : Nat, knew : BOOLEAN]
    \cup [pc : {"append"}, note : Note]

TypeOK ==
    /\ ledger \in Exposure
    /\ sessions \in [Tokens -> SessionRecords \cup {None}]
    /\ exploring \in BOOLEAN
    /\ job \in [Threads -> Job]
    /\ notes \subseteq Note
    /\ polled \in Nat \cup {None} /\ listed \in BOOLEAN \cup {None}
    /\ seen \in Nat /\ knew \in BOOLEAN

\* The ledger has what was told: the outcome, and how far, unless it has the
\* outcome.
Covered(far, told, exposure) ==
    (told => exposure.outcome) /\ (far <= exposure.max \/ exposure.outcome)

Honest(note) == note.mode = "prospective" => note.before <= note.shown /\ ~note.knew

\* A cursor that is not at the frontier shows a decision to its end.
Follows(c, f) == c = f \/ (c.index < f.index /\ c.stage = "transition")

\* A session: its cursor follows its frontier, which is recorded; it has shown
\* nothing beyond that, and nothing that is not in the exposure ledger.
SessionOK(s, events, exposure) ==
    /\ Follows(s.cursor, s.frontier)
    /\ s.frontier.index = 1 \/ s.frontier.index <= Decisions(events)
    /\ s.seen <= exposure.max
    /\ s.seen # 0 => /\ s.frontier.index <= Decisions(events)
                     /\ s.seen <= Max(Shown(events, s.frontier))

\* A request: a view is of a session, and not beyond its frontier; a note
\* remembers what the ledger has had since it was asked for.
JobOK(j, all, exposure) ==
    /\ j.pc = "reveal" =>
         /\ Covered(j.before, j.knew, exposure)
         /\ j.kind = "view" =>
              /\ j.token \in Tokens /\ all[j.token] # None
              /\ Behind(j.cursor, all[j.token].frontier)
    /\ j.pc = "label" => Covered(j.before, j.knew, exposure) /\ j.claimed <= j.shown
    /\ j.pc = "append" => Honest(j.note)

\* What the server remembers to have exposed is exposed.
Remembered ==
    /\ exploring => ledger.outcome
    /\ listed = TRUE => ledger.outcome
    /\ polled # None =>
         /\ polled <= Len(log)
         /\ Covered(polled, Ended(log) /\ polled = Len(log), ledger)

SessionsOK == \A t \in Tokens : sessions[t] # None => SessionOK(sessions[t], log, ledger)
JobsOK == \A r \in Threads : JobOK(job[r], sessions, ledger)

IInv ==
    /\ JournalInv /\ TypeOK
    /\ Covered(seen, knew, ledger) /\ Remembered
    /\ SessionsOK /\ JobsOK
    /\ \A n \in notes : Honest(n)

\* A rank: decisions count three, their stages one.
LEMMA RankIs ==
  /\ \A n : Rank(At(n, "observation")) = 3 * n + 1
  /\ \A n : Rank(At(n, "action")) = 3 * n + 2
  /\ \A n : Rank(At(n, "transition")) = 3 * n + 3
<1>1. /\ (CHOOSE k \in 1..3 : Stages[k] = "observation") = 1
      /\ (CHOOSE k \in 1..3 : Stages[k] = "action") = 2
      /\ (CHOOSE k \in 1..3 : Stages[k] = "transition") = 3
  <2>1. Stages[1] = "observation" /\ Stages[2] = "action" /\ Stages[3] = "transition"
    BY DEF Stages
  <2>2. \A k \in 1..3 : k = 1 \/ k = 2 \/ k = 3
    OBVIOUS
  <2> QED
    BY <2>1, <2>2
<1> QED
  BY <1>1 DEF Rank, At

\* A cursor is one of three at its decision.
LEMMA CursorIs ==
  ASSUME NEW c \in Cursors
  PROVE  /\ c.index \in Nat \ {0} /\ c.stage \in {"observation", "action", "transition"}
         /\ c = At(c.index, c.stage)
  BY DEF Cursors, At

\* A cursor that follows its frontier is not beyond it.
LEMMA FollowingRank ==
  ASSUME NEW c \in Cursors, NEW f \in Cursors, Follows(c, f)
  PROVE  Rank(c) <= Rank(f)
<1>1. PICK m \in Nat, n \in Nat : m = c.index /\ n = f.index
  BY CursorIs
<1>2. \/ Rank(f) = 3 * n + 1 \/ Rank(f) = 3 * n + 2 \/ Rank(f) = 3 * n + 3
  BY <1>1, CursorIs, RankIs
<1>3. c # f => m < n /\ Rank(c) = 3 * m + 3
  BY <1>1, CursorIs, RankIs DEF Follows
<1> QED
  BY <1>2, <1>3

\* What is proved of every state is what the run checks.
LEMMA InvariantSuffices ==
  ASSUME IInv
  PROVE  LabelsAreHonest /\ FrontierHolds /\ LedgerBalances
<1>1. LabelsAreHonest
  BY DEF IInv, Honest, LabelsAreHonest
<1>2. FrontierHolds
  <2> SUFFICES ASSUME NEW t \in Tokens, sessions[t] # None
               PROVE  /\ sessions[t].seen <= ledger.max
                      /\ sessions[t].mode = "prospective" /\ sessions[t].seen # 0 =>
                           /\ Rank(sessions[t].cursor) <= Rank(sessions[t].frontier)
                           /\ sessions[t].seen <= Reach(sessions[t].frontier)
    BY DEF FrontierHolds
  <2>1. /\ sessions[t] \in SessionRecords /\ SessionOK(sessions[t], log, ledger)
        /\ sessions[t].cursor \in Cursors /\ sessions[t].frontier \in Cursors
    BY DEF IInv, TypeOK, SessionsOK, SessionRecords
  <2>2. Rank(sessions[t].cursor) <= Rank(sessions[t].frontier)
    BY <2>1, FollowingRank DEF SessionOK
  <2>3. Reach(sessions[t].frontier) = Max(Shown(log, sessions[t].frontier))
    BY ViewIs DEF Reach
  <2> QED
    BY <2>1, <2>2, <2>3 DEF SessionOK
<1>3. LedgerBalances
  BY JournalBalances DEF IInv
<1> QED
  BY <1>1, <1>2, <1>3

-----------------------------------------------------------------------------
(***************************************************************************)
(* What the steps have in common.                                          *)
(***************************************************************************)

\* The exposure ledger grows.
Grows(exposure, more) ==
    /\ more \in Exposure
    /\ exposure.max <= more.max
    /\ exposure.outcome => more.outcome

\* None is no session, and nothing that the views remember.
LEMMA NoneIs ==
  /\ None \notin Tokens /\ None \notin Nat /\ None \notin BOOLEAN /\ None \notin SessionRecords
  BY NoneAssumption

\* A request at rest.
LEMMA IdleOK ==
  ASSUME NEW all, NEW exposure
  PROVE  Idle \in Job /\ JobOK(Idle, all, exposure) /\ Idle.pc = "idle"
  BY DEF Idle, Job, JobOK

\* What was covered stays covered.
LEMMA CoveredGrows ==
  ASSUME NEW far \in Nat, NEW told, NEW exposure \in Exposure, NEW more,
         Grows(exposure, more), Covered(far, told, exposure)
  PROVE  Covered(far, told, more)
  BY DEF Covered, Grows, Exposure

\* An exposure.
LEMMA Exposed ==
  ASSUME TypeOK, NEW last \in Nat, NEW outcome \in BOOLEAN, NEW prior \in BOOLEAN,
         Expose(last, outcome, prior)
  PROVE  /\ Grows(ledger, ledger') /\ last <= ledger'.max
         /\ outcome => ledger'.outcome
<1>1. ledger.max \in Nat /\ ledger.outcome \in BOOLEAN /\ ledger.prior \in BOOLEAN
  BY DEF TypeOK, Exposure
<1>2. PICK m : m = Max({ledger.max, last})
  OBVIOUS
<1>3. m \in Nat /\ ledger.max <= m /\ last <= m
  BY <1>1, <1>2, MaxPair
<1>4. ledger' = [max |-> m, outcome |-> ledger.outcome \/ outcome, prior |-> ledger.prior \/ prior]
  BY <1>2 DEF Expose
<1> QED
  BY <1>1, <1>3, <1>4 DEF Grows, Exposure

\* An answer that the ledger covers.
LEMMA AnswerIsCovered ==
  ASSUME IInv, Grows(ledger, ledger'), NEW last \in Nat, NEW outcome \in BOOLEAN,
         Covered(last, outcome, ledger'), Answer(last, outcome)
  PROVE  seen' \in Nat /\ knew' \in BOOLEAN /\ Covered(seen', knew', ledger')
<1>1. seen \in Nat /\ knew \in BOOLEAN /\ Covered(seen, knew, ledger) /\ ledger \in Exposure
  BY DEF IInv, TypeOK
<1>2. Covered(seen, knew, ledger')
  BY <1>1, CoveredGrows
<1>3. seen' = IF seen <= last THEN last ELSE seen
  BY <1>1, MaxPair DEF Answer
<1>4. knew' = (knew \/ outcome)
  BY DEF Answer
<1> QED
  BY <1>1, <1>2, <1>3, <1>4 DEF Covered

\* A request and a session are no worse off with a ledger that has more.
LEMMA JobsGrow ==
  ASSUME IInv, NEW more, Grows(ledger, more)
  PROVE  /\ \A r \in Threads : JobOK(job[r], sessions, more)
         /\ \A t \in Tokens : sessions[t] # None => SessionOK(sessions[t], log, more)
         /\ Covered(seen, knew, more)
         /\ exploring => more.outcome
         /\ listed = TRUE => more.outcome
         /\ polled # None => /\ polled <= Len(log)
                             /\ Covered(polled, Ended(log) /\ polled = Len(log), more)
<1>1. ledger \in Exposure /\ more \in Exposure /\ seen \in Nat
  BY DEF IInv, TypeOK, Grows
<1>2. ASSUME NEW r \in Threads PROVE JobOK(job[r], sessions, more)
  <2>1. job[r] \in Job /\ JobOK(job[r], sessions, ledger)
    BY DEF IInv, TypeOK, JobsOK
  <2>2. job[r].pc \in {"reveal", "label"} => job[r].before \in Nat
    BY <2>1 DEF Job, Idle
  <2> QED
    BY <1>1, <2>1, <2>2, CoveredGrows DEF JobOK
<1>3. ASSUME NEW t \in Tokens, sessions[t] # None PROVE SessionOK(sessions[t], log, more)
  <2>1. sessions[t].seen \in Nat /\ SessionOK(sessions[t], log, ledger)
    BY <1>3 DEF IInv, TypeOK, SessionsOK, SessionRecords
  <2> QED
    BY <1>1, <2>1 DEF SessionOK, Grows, Exposure
<1>4. Covered(seen, knew, more)
  BY <1>1, CoveredGrows DEF IInv
<1>5. polled # None => /\ polled <= Len(log)
                       /\ Covered(polled, Ended(log) /\ polled = Len(log), more)
  <2>1. polled # None => polled \in Nat
    BY DEF IInv, TypeOK
  <2> QED
    BY <1>1, <2>1, CoveredGrows DEF IInv, Remembered
<1> QED
  BY <1>2, <1>3, <1>4, <1>5 DEF IInv, Remembered, Grows

\* The journal is read as it is.
LEMMA ReadsLog ==
  ASSUME IInv
  PROVE  /\ Snapshot = log /\ log \in Seq(EventType) /\ Len(log) \in Nat /\ Decisions(log) \in Nat
         /\ Shaped(log)
  BY SnapshotIsLog, CountType DEF IInv, JournalInv, Shaped

\* A step that only exposes and answers.
LEMMA ExposureStep ==
  ASSUME IInv, Grows(ledger, ledger'), UNCHANGED <<journalVars, sessions, notes>>,
         job' = job \/ job' = [r \in Threads |-> Idle],
         seen' \in Nat /\ knew' \in BOOLEAN /\ Covered(seen', knew', ledger'),
         exploring' \in BOOLEAN /\ (exploring' => exploring \/ ledger'.outcome),
         polled' \in Nat \cup {None}, listed' \in BOOLEAN \cup {None},
         polled' = polled \/ polled' = None
           \/ (polled' = Len(log) /\ Covered(Len(log), Ended(log), ledger')),
         listed' = listed \/ (listed' = TRUE => ledger'.outcome)
  PROVE  IInv'
<1>1. /\ \A r \in Threads : JobOK(job[r], sessions, ledger')
      /\ \A t \in Tokens : sessions[t] # None => SessionOK(sessions[t], log, ledger')
      /\ exploring => ledger'.outcome
      /\ listed = TRUE => ledger'.outcome
      /\ polled # None => /\ polled <= Len(log)
                          /\ Covered(polled, Ended(log) /\ polled = Len(log), ledger')
  BY JobsGrow
<1>2. /\ log' = log /\ ending' = ending /\ sessions' = sessions /\ notes' = notes /\ Len(log) \in Nat
  BY ReadsLog DEF journalVars
<1>3. JournalInv'
  BY <1>2 DEF IInv, JournalInv, Endings, Incomplete
<1>4. TypeOK'
  BY <1>2, IdleOK DEF IInv, TypeOK, Grows
<1>5. SessionsOK' /\ (\A n \in notes : Honest(n))'
  BY <1>1, <1>2 DEF IInv, SessionsOK
<1>6. JobsOK'
  BY <1>1, <1>2, IdleOK DEF JobsOK
<1>7. Remembered'
  BY <1>1, <1>2, NoneIs DEF Remembered, Covered
<1> QED
  BY <1>3, <1>4, <1>5, <1>6, <1>7 DEF IInv

\* A step of one request that leaves the sessions alone.
LEMMA JobStep ==
  ASSUME IInv, Grows(ledger, ledger'), NEW r \in Threads, NEW j,
         job' = [job EXCEPT ![r] = j], j \in Job, JobOK(j, sessions, ledger'),
         UNCHANGED <<journalVars, sessions, exploring, polled, listed, seen, knew>>,
         notes' = notes \/ (\E n \in Note : Honest(n) /\ notes' = notes \cup {n})
  PROVE  IInv'
<1>1. /\ \A q \in Threads : JobOK(job[q], sessions, ledger')
      /\ \A t \in Tokens : sessions[t] # None => SessionOK(sessions[t], log, ledger')
      /\ Covered(seen, knew, ledger')
      /\ exploring => ledger'.outcome
      /\ listed = TRUE => ledger'.outcome
      /\ polled # None => /\ polled <= Len(log)
                          /\ Covered(polled, Ended(log) /\ polled = Len(log), ledger')
  BY JobsGrow
<1>2. /\ log' = log /\ ending' = ending /\ sessions' = sessions /\ exploring' = exploring
      /\ polled' = polled /\ listed' = listed /\ seen' = seen /\ knew' = knew
  BY DEF journalVars
<1>3. JournalInv'
  BY <1>2 DEF IInv, JournalInv, Endings, Incomplete
<1>4. job \in [Threads -> Job] /\ job' \in [Threads -> Job]
  BY DEF IInv, TypeOK
<1>5. TypeOK'
  BY <1>2, <1>4 DEF IInv, TypeOK, Grows
<1>6. JobsOK'
  BY <1>1, <1>2, <1>4 DEF JobsOK
<1>7. (\A n \in notes : Honest(n))'
  BY DEF IInv
<1>8. SessionsOK' /\ Remembered' /\ Covered(seen, knew, ledger)'
  BY <1>1, <1>2 DEF SessionsOK, Remembered
<1> QED
  BY <1>3, <1>5, <1>6, <1>7, <1>8 DEF IInv

\* A step of one request and one session.
LEMMA SessionStep ==
  ASSUME IInv, Grows(ledger, ledger'), NEW r \in Threads, NEW j, NEW t \in Tokens, NEW s,
         job' = [job EXCEPT ![r] = j], j \in Job, JobOK(j, sessions', ledger'),
         sessions' = [sessions EXCEPT ![t] = s], s \in SessionRecords, SessionOK(s, log, ledger'),
         sessions[t] # None =>
           \A c \in Cursors : Behind(c, sessions[t].frontier) => Behind(c, s.frontier),
         seen' \in Nat /\ knew' \in BOOLEAN /\ Covered(seen', knew', ledger'),
         UNCHANGED <<journalVars, exploring, polled, listed, notes>>
  PROVE  IInv'
<1>1. /\ \A q \in Threads : JobOK(job[q], sessions, ledger')
      /\ \A u \in Tokens : sessions[u] # None => SessionOK(sessions[u], log, ledger')
      /\ exploring => ledger'.outcome
      /\ listed = TRUE => ledger'.outcome
      /\ polled # None => /\ polled <= Len(log)
                          /\ Covered(polled, Ended(log) /\ polled = Len(log), ledger')
  BY JobsGrow
<1>2. /\ log' = log /\ ending' = ending /\ exploring' = exploring /\ notes' = notes
      /\ polled' = polled /\ listed' = listed
  BY DEF journalVars
<1>3. JournalInv'
  BY <1>2 DEF IInv, JournalInv, Endings, Incomplete
<1>4. /\ job \in [Threads -> Job] /\ job' \in [Threads -> Job]
      /\ sessions \in [Tokens -> SessionRecords \cup {None}]
      /\ sessions' \in [Tokens -> SessionRecords \cup {None}]
  BY DEF IInv, TypeOK
<1>5. TypeOK'
  BY <1>2, <1>4 DEF IInv, TypeOK, Grows
<1>6. sessions'[t] = s /\ s # None /\ \A u \in Tokens : u # t => sessions'[u] = sessions[u]
  BY <1>4, NoneIs
<1>7. JobsOK'
  <2> SUFFICES ASSUME NEW q \in Threads PROVE JobOK(job'[q], sessions', ledger')
    BY DEF JobsOK
  <2>1. CASE q = r
    BY <1>4, <2>1
  <2>2. CASE q # r
    <3>1. job'[q] = job[q] /\ job[q] \in Job
      BY <1>4, <2>2
    <3>2. job[q].pc = "reveal" => job[q].cursor \in Cursors
      BY <3>1 DEF Job, Idle
    <3>3. JobOK(job[q], sessions, ledger')
      BY <1>1
    <3>4. job[q].pc = "reveal" /\ job[q].kind = "view" =>
            /\ job[q].token \in Tokens /\ sessions'[job[q].token] # None
            /\ Behind(job[q].cursor, sessions'[job[q].token].frontier)
      <4> SUFFICES ASSUME job[q].pc = "reveal", job[q].kind = "view"
                   PROVE  /\ job[q].token \in Tokens /\ sessions'[job[q].token] # None
                          /\ Behind(job[q].cursor, sessions'[job[q].token].frontier)
        OBVIOUS
      <4>1. /\ job[q].token \in Tokens /\ sessions[job[q].token] # None
            /\ Behind(job[q].cursor, sessions[job[q].token].frontier)
        BY <3>3 DEF JobOK
      <4>2. CASE job[q].token = t
        BY <1>6, <3>2, <4>1, <4>2
      <4>3. CASE job[q].token # t
        BY <1>6, <4>1, <4>3
      <4> QED
        BY <4>2, <4>3
    <3> QED
      BY <3>1, <3>3, <3>4 DEF JobOK
  <2> QED
    BY <2>1, <2>2
<1>8. SessionsOK'
  BY <1>1, <1>2, <1>6 DEF SessionsOK
<1>9. Remembered' /\ (\A n \in notes : Honest(n))' /\ Covered(seen, knew, ledger)'
  BY <1>1, <1>2 DEF Remembered, IInv
<1> QED
  BY <1>3, <1>5, <1>7, <1>8, <1>9 DEF IInv

\* Cursors are ordered.
LEMMA BehindTrans ==
  ASSUME NEW a \in Cursors, NEW b \in Cursors, NEW c \in Cursors, Behind(a, b), Behind(b, c)
  PROVE  Behind(a, c)
<1>1. /\ a.index \in Nat /\ b.index \in Nat /\ c.index \in Nat
      /\ {a.stage, b.stage, c.stage} \subseteq {"observation", "action", "transition"}
  BY CursorIs
<1> QED
  BY <1>1 DEF Behind

-----------------------------------------------------------------------------
(***************************************************************************)
(* One lemma per action.                                                   *)
(***************************************************************************)

\* The run goes on.
LEMMA JournalKeeps ==
  ASSUME IInv, WriteJournal, UNCHANGED reviewVars
  PROVE  IInv'
<1>1. JournalInv'
  BY JournalStep DEF IInv
<1>2. /\ ledger' = ledger /\ sessions' = sessions /\ exploring' = exploring /\ job' = job
      /\ notes' = notes /\ polled' = polled /\ listed' = listed /\ seen' = seen /\ knew' = knew
  BY DEF reviewVars
<1>3. PICK e : MayFollow(log, e) /\ log' = Append(log, e)
  BY Writes DEF IInv
<1>4. log \in Seq(EventType) /\ e \in EventType /\ ~Ended(log) /\ Len(log) \in Nat /\ Decisions(log) \in Nat
  BY <1>3, ReadsLog, Writes DEF IInv, MayFollow
<1>5. /\ Len(log') = Len(log) + 1
      /\ Decisions(log') \in {Decisions(log), Decisions(log) + 1}
  <2>1. PICK more : more = log'
    OBVIOUS
  <2>2. /\ Len(more) = Len(log) + 1
        /\ Decisions(more) = Decisions(log) + (IF e.type = "observation" THEN 1 ELSE 0)
    BY <1>3, <1>4, <2>1, BoardsAppended
  <2> QED
    BY <1>4, <2>1, <2>2
<1>6. SessionsOK'
  <2> SUFFICES ASSUME NEW t \in Tokens, sessions[t] # None
               PROVE  SessionOK(sessions[t], log', ledger)
    BY <1>2 DEF SessionsOK
  <2>1. PICK s : s = sessions[t]
    OBVIOUS
  <2>2. s \in SessionRecords /\ SessionOK(s, log, ledger)
    BY <2>1 DEF IInv, TypeOK, SessionsOK
  <2>3. s.frontier \in Cursors /\ s.frontier.index \in Nat \ {0} /\ s.seen \in Nat
    BY <2>2, CursorIs DEF SessionRecords
  <2>4. ASSUME s.seen # 0
        PROVE  s.frontier.index <= Decisions(log') /\ s.seen <= Max(Shown(log', s.frontier))
    <3>1. s.frontier.index \in 1 .. Decisions(log) /\ s.seen <= Max(Shown(log, s.frontier))
      BY <1>4, <2>2, <2>3, <2>4 DEF SessionOK
    <3>2. Max(Shown(log, s.frontier)) <= Max(Shown(log', s.frontier))
      BY <1>3, <1>4, <3>1, LaterShowsMore
    <3>3. Max(Shown(log, s.frontier)) \in Nat
      <4>1. /\ Shown(log, s.frontier) \in SUBSET (0 .. Len(log)) /\ Shown(log, s.frontier) # {}
        BY <1>4, <3>1, ShownBounded
      <4> QED
        BY <1>4, <4>1, MaxIs
    <3>4. s.frontier.index \in 1 .. Decisions(log') /\ log' \in Seq(EventType)
      BY <1>3, <1>4, <3>1, LaterShowsMore, BoardsAppended
    <3>5. Max(Shown(log', s.frontier)) \in Nat
      <4>1. /\ Shown(log', s.frontier) \in SUBSET (0 .. Len(log')) /\ Shown(log', s.frontier) # {}
            /\ Len(log') \in Nat
        BY <3>4, ShownBounded
      <4> QED
        BY <4>1, MaxIs
    <3> QED
      BY <2>3, <3>1, <3>2, <3>3, <3>4, <3>5
  <2> QED
    BY <1>4, <1>5, <2>1, <2>2, <2>3, <2>4 DEF SessionOK
<1>7. Remembered'
  <2>1. polled # None => polled \in Nat
    BY DEF IInv, TypeOK
  <2> QED
    BY <1>2, <1>4, <1>5, <2>1 DEF IInv, Remembered, Covered
<1> QED
  BY <1>1, <1>2, <1>6, <1>7 DEF IInv, TypeOK, JobsOK

\* A cursor within its frontier is at it or behind it.
LEMMA FollowsBehind ==
  ASSUME NEW c \in Cursors, NEW f \in Cursors, Follows(c, f)
  PROVE  Behind(c, f)
  BY DEF Follows, Behind

\* A request that waits to build the view of a session.
LEMMA WaitingView ==
  ASSUME NEW t \in Tokens, NEW mode \in Modes, NEW c \in Cursors, NEW all, NEW exposure \in Exposure,
         all[t] # None, Behind(c, all[t].frontier), NEW j,
         j = [pc |-> "reveal", kind |-> "view", token |-> t, mode |-> mode, cursor |-> c,
              before |-> 0, knew |-> FALSE]
  PROVE  j \in Job /\ JobOK(j, all, exposure)
<1>1. Covered(0, FALSE, exposure)
  BY DEF Covered, Exposure
<1> QED
  BY <1>1 DEF Job, JobOK

\* The session that was moved, and the ledger that was not.
LEMMA MoveStep ==
  ASSUME IInv, NEW r \in Threads, NEW t \in Tokens, NEW cursor \in Cursors, NEW frontier \in Cursors,
         sessions[t] # None, Move(r, t, cursor, frontier), UNCHANGED journalVars,
         Follows(cursor, frontier), Behind(sessions[t].frontier, frontier),
         frontier.index = sessions[t].frontier.index \/ frontier.index <= Decisions(log)
  PROVE  IInv'
<1>1. PICK old : old = sessions[t]
  OBVIOUS
<1>2. old \in SessionRecords /\ SessionOK(old, log, ledger)
  BY <1>1 DEF IInv, TypeOK, SessionsOK
<1>3. PICK s : s = [old EXCEPT !.cursor = cursor, !.frontier = frontier]
  OBVIOUS
<1>4. /\ s \in SessionRecords /\ s.cursor = cursor /\ s.frontier = frontier
      /\ s.seen = old.seen /\ s.mode = old.mode /\ old.seen \in Nat /\ old.frontier \in Cursors
      /\ old.mode \in Modes
  BY <1>2, <1>3 DEF SessionRecords, Modes
<1>5. sessions' = [sessions EXCEPT ![t] = s]
  <2>1. sessions' = [sessions EXCEPT ![t].cursor = cursor, ![t].frontier = frontier]
    BY DEF Move
  <2> QED
    BY <1>1, <1>3, <2>1 DEF IInv, TypeOK
<1>6. PICK j : j = [pc |-> "reveal", kind |-> "view", token |-> t, mode |-> old.mode, cursor |-> cursor,
                    before |-> 0, knew |-> FALSE]
  OBVIOUS
<1>7. job' = [job EXCEPT ![r] = j]
  BY <1>1, <1>6 DEF Move, Serve
<1>8. /\ ledger' = ledger /\ exploring' = exploring /\ notes' = notes /\ polled' = polled
      /\ listed' = listed /\ seen' = seen /\ knew' = knew
      /\ ledger \in Exposure /\ Grows(ledger, ledger')
  BY DEF Move, IInv, TypeOK, Grows, Exposure
<1>9. log \in Seq(EventType) /\ Len(log) \in Nat /\ Decisions(log) \in Nat
  BY ReadsLog
<1>10. SessionOK(s, log, ledger')
  <2>1. frontier.index = 1 \/ frontier.index <= Decisions(log)
    BY <1>2, <1>1 DEF SessionOK
  <2>2. ASSUME old.seen # 0
        PROVE  frontier.index <= Decisions(log) /\ old.seen <= Max(Shown(log, frontier))
    <3>1. /\ old.frontier.index \in 1 .. Decisions(log) /\ frontier.index \in 1 .. Decisions(log)
          /\ old.seen <= Max(Shown(log, old.frontier))
      BY <1>1, <1>2, <1>4, <1>9, <2>2, CursorIs DEF SessionOK
    <3>2. Max(Shown(log, old.frontier)) <= Max(Shown(log, frontier))
      BY <1>1, <1>9, <3>1, FurtherShowsMore
    <3>3. /\ Shown(log, old.frontier) \in SUBSET (0 .. Len(log)) /\ Shown(log, old.frontier) # {}
          /\ Shown(log, frontier) \in SUBSET (0 .. Len(log)) /\ Shown(log, frontier) # {}
      BY <1>9, <3>1, ShownBounded
    <3>4. Max(Shown(log, old.frontier)) \in Nat /\ Max(Shown(log, frontier)) \in Nat
      BY <1>9, <3>3, MaxIs
    <3> QED
      BY <1>4, <3>1, <3>2, <3>4
  <2> QED
    BY <1>2, <1>4, <1>8, <2>1, <2>2 DEF SessionOK
<1>11. sessions'[t] = s /\ s # None
  BY <1>4, <1>5, NoneIs DEF IInv, TypeOK
<1>12. j \in Job /\ JobOK(j, sessions', ledger')
  <2>1. Behind(cursor, s.frontier)
    BY <1>4, FollowsBehind
  <2> QED
    BY <1>4, <1>6, <1>8, <1>11, <2>1, WaitingView
<1>13. \A c \in Cursors : Behind(c, sessions[t].frontier) => Behind(c, s.frontier)
  BY <1>1, <1>4, BehindTrans
<1>14. seen' \in Nat /\ knew' \in BOOLEAN /\ Covered(seen', knew', ledger')
  BY <1>8 DEF IInv, TypeOK
<1> QED
  BY <1>4, <1>5, <1>7, <1>8, <1>10, <1>12, <1>13, <1>14, SessionStep

\* What a session's frontier and cursor are.
LEMMA SessionFacts ==
  ASSUME IInv, NEW t \in Tokens, sessions[t] # None
  PROVE  /\ sessions[t].cursor \in Cursors /\ sessions[t].frontier \in Cursors
         /\ sessions[t].mode \in Modes /\ sessions[t].seen \in Nat
         /\ Follows(sessions[t].cursor, sessions[t].frontier)
         /\ Behind(sessions[t].frontier, sessions[t].frontier)
  BY DEF IInv, TypeOK, SessionsOK, SessionOK, SessionRecords, Modes, Behind

\* A decision and a stage are a cursor.
LEMMA AtIs ==
  ASSUME NEW n \in Nat \ {0}, NEW stage \in {"observation", "action", "transition"}
  PROVE  At(n, stage) \in Cursors /\ At(n, stage).index = n /\ At(n, stage).stage = stage
  BY DEF At, Cursors

LEMMA OpenReviewKeeps ==
  ASSUME IInv, NEW r \in Threads, NEW t \in Tokens, NEW mode \in Modes, NEW prior \in BOOLEAN,
         OpenReview(r, t, mode, prior), UNCHANGED journalVars
  PROVE  IInv'
<1>1. PICK c : c = At(1, "observation")
  OBVIOUS
<1>2. c \in Cursors /\ c.index = 1
  BY <1>1, AtIs
<1>3. PICK s : s = Session(mode, c, c, 0)
  OBVIOUS
<1>4. s \in SessionRecords /\ s.frontier = c /\ s.cursor = c /\ s.seen = 0
  BY <1>2, <1>3 DEF Session, SessionRecords, Modes
<1>5. log \in Seq(EventType) /\ Len(log) \in Nat /\ Decisions(log) \in Nat
  BY ReadsLog
<1>6. Grows(ledger, ledger') /\ ledger' \in Exposure /\ ledger'.max \in Nat
  <2>1. PICK last, outcome : /\ last = (IF mode = "retrospective" THEN Len(log) ELSE 0)
                             /\ outcome = (mode = "retrospective")
    OBVIOUS
  <2>2. Expose(last, outcome, prior) /\ last \in Nat /\ outcome \in BOOLEAN
    BY <1>5, <2>1 DEF OpenReview
  <2>3. Grows(ledger, ledger')
    BY <2>2, Exposed DEF IInv
  <2> QED
    BY <2>3 DEF Grows, Exposure
<1>7. SessionOK(s, log, ledger')
  BY <1>2, <1>4, <1>6 DEF SessionOK, Follows
<1>8. PICK j : j = [pc |-> "reveal", kind |-> "view", token |-> t, mode |-> mode, cursor |-> c,
                    before |-> 0, knew |-> FALSE]
  OBVIOUS
<1>9. /\ job' = [job EXCEPT ![r] = j] /\ sessions' = [sessions EXCEPT ![t] = s]
      /\ UNCHANGED <<exploring, polled, listed, notes, seen, knew>> /\ sessions[t] = None
  BY <1>1, <1>3, <1>8 DEF OpenReview, Serve
<1>10. sessions'[t] = s /\ s # None
  BY <1>4, <1>9, NoneIs DEF IInv, TypeOK
<1>11. j \in Job /\ JobOK(j, sessions', ledger')
  <2>1. Behind(c, s.frontier)
    BY <1>4 DEF Behind
  <2> QED
    BY <1>2, <1>6, <1>8, <1>10, <2>1, WaitingView
<1>12. seen' \in Nat /\ knew' \in BOOLEAN /\ Covered(seen', knew', ledger')
  <2>1. Covered(seen, knew, ledger')
    BY <1>6, JobsGrow
  <2> QED
    BY <1>9, <2>1 DEF IInv, TypeOK
<1> QED
  BY <1>4, <1>6, <1>7, <1>9, <1>11, <1>12, SessionStep

LEMMA ShowAgainKeeps ==
  ASSUME IInv, NEW r \in Threads, NEW t \in Tokens, ShowAgain(r, t), UNCHANGED journalVars
  PROVE  IInv'
  BY SessionFacts, MoveStep DEF ShowAgain, Open

LEMMA AdvanceKeeps ==
  ASSUME IInv, NEW r \in Threads, NEW t \in Tokens, Advance(r, t), UNCHANGED journalVars
  PROVE  IInv'
<1>1. sessions[t] # None
  BY DEF Advance, Open
<1>2. PICK c, f : c = sessions[t].cursor /\ f = sessions[t].frontier
  OBVIOUS
<1>3. /\ c \in Cursors /\ f \in Cursors /\ Follows(c, f) /\ Behind(f, f)
      /\ c.index \in Nat \ {0} /\ f.index \in Nat \ {0}
      /\ {c.stage, f.stage} \subseteq {"observation", "action", "transition"}
  BY <1>1, <1>2, SessionFacts, CursorIs
<1>4. CASE \E stage : /\ c.index < f.index
                      /\ stage = IF c.index + 1 = f.index THEN f.stage ELSE "transition"
                      /\ Move(r, t, At(c.index + 1, stage), f)
  <2>1. PICK stage : /\ c.index < f.index
                     /\ stage = IF c.index + 1 = f.index THEN f.stage ELSE "transition"
                     /\ Move(r, t, At(c.index + 1, stage), f)
    BY <1>4
  <2>2. PICK next : next = At(c.index + 1, stage)
    OBVIOUS
  <2>3. next \in Cursors /\ next.index = c.index + 1 /\ next.stage = stage
    BY <1>3, <2>1, <2>2, AtIs
  <2>4. Follows(next, f)
    <3>1. CASE c.index + 1 = f.index
      <4>1. f = At(f.index, f.stage)
        BY <1>3, CursorIs
      <4> QED
        BY <2>1, <2>2, <3>1, <4>1 DEF Follows
    <3>2. CASE c.index + 1 # f.index
      BY <1>3, <2>1, <2>3, <3>2 DEF Follows
    <3> QED
      BY <3>1, <3>2
  <2> QED
    BY <1>1, <1>2, <1>3, <2>1, <2>2, <2>3, <2>4, MoveStep
<1>5. ASSUME NEW k \in 1..2, c.index >= f.index, c.stage = Stages[k],
             Move(r, t, At(c.index, Stages[k + 1]), At(c.index, Stages[k + 1]))
      PROVE  IInv'
  <2>1. c = f
    BY <1>3, <1>5 DEF Follows
  <2>2. PICK next : next = At(c.index, Stages[k + 1])
    OBVIOUS
  <2>3. \/ c.stage = "observation" /\ Stages[k + 1] = "action"
        \/ c.stage = "action" /\ Stages[k + 1] = "transition"
    BY <1>5 DEF Stages
  <2>4. next \in Cursors /\ next.index = c.index /\ next.stage = Stages[k + 1]
    BY <1>3, <2>2, <2>3, AtIs
  <2>5. Follows(next, next) /\ Behind(f, next)
    BY <2>1, <2>3, <2>4 DEF Follows, Behind
  <2> QED
    BY <1>1, <1>2, <1>5, <2>1, <2>2, <2>4, <2>5, MoveStep
<1>6. CASE /\ c.index >= f.index /\ c.index < Decisions(Snapshot)
           /\ Move(r, t, At(c.index + 1, "observation"), At(c.index + 1, "observation"))
  <2>1. c = f /\ Snapshot = log /\ Decisions(log) \in Nat
    BY <1>3, <1>6, ReadsLog DEF Follows
  <2>2. PICK next : next = At(c.index + 1, "observation")
    OBVIOUS
  <2>3. next \in Cursors /\ next.index = c.index + 1
    BY <1>3, <2>2, AtIs
  <2>4. Follows(next, next) /\ Behind(f, next) /\ next.index <= Decisions(log)
    BY <1>3, <1>6, <2>1, <2>3 DEF Follows, Behind
  <2> QED
    BY <1>1, <1>2, <1>6, <2>2, <2>3, <2>4, MoveStep
<1> QED
  BY <1>2, <1>4, <1>5, <1>6 DEF Advance

LEMMA RevisitKeeps ==
  ASSUME IInv, NEW r \in Threads, NEW t \in Tokens, Revisit(r, t), UNCHANGED journalVars
  PROVE  IInv'
<1>1. sessions[t] # None
  BY DEF Revisit, Open
<1>2. PICK f : f = sessions[t].frontier
  OBVIOUS
<1>3. /\ f \in Cursors /\ Behind(f, f) /\ f.index \in Nat \ {0}
      /\ f.stage \in {"observation", "action", "transition"} /\ f = At(f.index, f.stage)
  BY <1>1, <1>2, SessionFacts, CursorIs
<1>4. PICK n, stage : /\ n \in 1..f.index
                      /\ stage = IF n = f.index THEN f.stage ELSE "transition"
                      /\ Move(r, t, At(n, stage), f)
  BY <1>2 DEF Revisit, Revealed
<1>5. PICK next : next = At(n, stage)
  OBVIOUS
<1>6. n \in Nat \ {0} /\ n <= f.index /\ stage \in {"observation", "action", "transition"}
  BY <1>3, <1>4
<1>7. next \in Cursors /\ next.index = n /\ next.stage = stage
  BY <1>5, <1>6, AtIs
<1>8. Follows(next, f)
  <2>1. CASE n = f.index
    BY <1>3, <1>4, <1>5, <2>1 DEF Follows
  <2>2. CASE n # f.index
    BY <1>3, <1>4, <1>6, <1>7, <2>2 DEF Follows
  <2> QED
    BY <2>1, <2>2
<1>9. Move(r, t, next, f) /\ f.index = sessions[t].frontier.index /\ Behind(sessions[t].frontier, f)
  BY <1>2, <1>3, <1>4, <1>5
<1> QED
  BY <1>1, <1>3, <1>7, <1>8, <1>9, MoveStep

LEMMA SeekKeeps ==
  ASSUME IInv, NEW r \in Threads, NEW t \in Tokens, Seek(r, t), UNCHANGED journalVars
  PROVE  IInv'
<1>1. sessions[t] # None /\ Snapshot = log /\ Decisions(log) \in Nat
  BY ReadsLog DEF Seek, Open
<1>2. PICK f : f = sessions[t].frontier
  OBVIOUS
<1>3. f \in Cursors /\ Behind(f, f) /\ f.index \in Nat \ {0}
  BY <1>1, <1>2, SessionFacts, CursorIs
<1>4. PICK n, c, g : /\ n \in 1..Decisions(log) /\ c = At(n, "transition")
                     /\ g = IF n >= f.index THEN c ELSE f
                     /\ Move(r, t, c, g)
  BY <1>1, <1>2 DEF Seek
<1>5. n \in Nat \ {0} /\ n <= Decisions(log)
  BY <1>1, <1>4
<1>6. c \in Cursors /\ c.index = n /\ c.stage = "transition"
  BY <1>4, <1>5, AtIs
<1>7. /\ g \in Cursors /\ Follows(c, g) /\ Behind(f, g)
      /\ g.index = f.index \/ g.index <= Decisions(log)
  <2>1. CASE n >= f.index
    <3>1. g = c
      BY <1>4, <2>1
    <3> QED
      BY <1>3, <1>5, <1>6, <2>1, <3>1 DEF Follows, Behind
  <2>2. CASE ~(n >= f.index)
    <3>1. g = f
      BY <1>4, <2>2
    <3> QED
      BY <1>3, <1>5, <1>6, <2>2, <3>1 DEF Follows, Behind
  <2> QED
    BY <2>1, <2>2
<1>8. Move(r, t, c, g)
  BY <1>4
<1> QED
  BY <1>1, <1>2, <1>6, <1>7, <1>8, MoveStep

\* A view of the journal that a session is shown.
LEMMA SessionViewKeeps ==
  ASSUME IInv, NEW r \in Threads, Reveal(r), job[r].kind = "view", UNCHANGED journalVars
  PROVE  IInv'
<1>1. PICK c, t, v : c = job[r].cursor /\ t = job[r].token /\ v = View(Snapshot, c, t # None)
  OBVIOUS
<1>2. Snapshot = log /\ log \in Seq(EventType) /\ Len(log) \in Nat /\ Decisions(log) \in Nat
  BY ReadsLog
<1>3. /\ c.index <= Decisions(log) /\ Expose(v.exposed, v.outcome, FALSE) /\ Answer(v.shown, v.outcome)
      /\ sessions' = [sessions EXCEPT ![t].seen = Max({@, v.shown})]
      /\ job' = [job EXCEPT ![r] = Idle]
      /\ UNCHANGED <<exploring, notes, polled, listed>>
  BY <1>1, <1>2 DEF Reveal
<1>4. /\ c \in Cursors /\ t \in Tokens /\ sessions[t] # None /\ Behind(c, sessions[t].frontier)
  <2>1. job[r] \in Job /\ JobOK(job[r], sessions, ledger) /\ job[r].pc = "reveal"
    BY DEF IInv, TypeOK, JobsOK, Reveal
  <2> QED
    BY <1>1, <2>1 DEF Job, JobOK, Idle
<1>5. PICK old : old = sessions[t]
  OBVIOUS
<1>6. /\ old \in SessionRecords /\ SessionOK(old, log, ledger) /\ old.seen \in Nat
      /\ old.frontier \in Cursors /\ old.cursor \in Cursors /\ ledger \in Exposure
  BY <1>4, <1>5 DEF IInv, TypeOK, SessionsOK, SessionRecords
<1>7. c.index \in 1 .. Decisions(log) /\ old.frontier.index \in 1 .. Decisions(log)
  <2>1. c.index \in Nat \ {0} /\ old.frontier.index \in Nat \ {0}
    BY <1>4, <1>6, CursorIs
  <2>2. c.index <= Decisions(log)
    BY <1>3
  <2>3. old.frontier.index <= Decisions(log)
    BY <1>2, <1>6, <2>1, <2>2 DEF SessionOK
  <2> QED
    BY <1>2, <2>1, <2>2, <2>3
<1>8. /\ v.shown \in Nat /\ v.exposed = v.shown /\ v.outcome \in BOOLEAN
      /\ v.shown = Max(Shown(log, c))
  <2>1. t # None
    BY <1>4, NoneIs
  <2>2. v = View(log, c, TRUE)
    BY <1>1, <1>2, <2>1
  <2> QED
    BY <1>2, <1>7, <2>2, ViewFacts
<1>9. Grows(ledger, ledger') /\ v.shown <= ledger'.max /\ (v.outcome => ledger'.outcome)
  BY <1>3, <1>8, Exposed DEF IInv
<1>10. ledger' \in Exposure /\ ledger'.max \in Nat /\ ledger.max <= ledger'.max /\ ledger.max \in Nat
  BY <1>6, <1>9 DEF Grows, Exposure
<1>11. PICK far : far = Max({old.seen, v.shown})
  OBVIOUS
<1>12. far = IF old.seen <= v.shown THEN v.shown ELSE old.seen
  BY <1>6, <1>8, <1>11, MaxPair
<1>13. PICK s : s = [old EXCEPT !.seen = far]
  OBVIOUS
<1>14. sessions' = [sessions EXCEPT ![t] = s]
  BY <1>3, <1>5, <1>11, <1>13
<1>15. /\ s \in SessionRecords /\ s.seen = far /\ s.frontier = old.frontier /\ s.cursor = old.cursor
  BY <1>6, <1>8, <1>12, <1>13 DEF SessionRecords
<1>16. SessionOK(s, log, ledger')
  <2>1. Max(Shown(log, c)) <= Max(Shown(log, old.frontier))
    BY <1>2, <1>4, <1>5, <1>7, FurtherShowsMore
  <2>2. far <= ledger'.max
    BY <1>6, <1>8, <1>9, <1>10, <1>12 DEF SessionOK
  <2>3. far <= Max(Shown(log, old.frontier))
    <3>1. CASE old.seen <= v.shown
      BY <1>8, <1>12, <2>1, <3>1
    <3>2. CASE ~(old.seen <= v.shown)
      <4>1. old.seen # 0
        BY <1>6, <1>8, <3>2
      <4> QED
        BY <1>6, <1>12, <3>2, <4>1 DEF SessionOK
    <3> QED
      BY <3>1, <3>2
  <2>4. s.frontier.index <= Decisions(log) /\ Follows(s.cursor, s.frontier)
    BY <1>6, <1>7, <1>15 DEF SessionOK
  <2> QED
    BY <1>15, <2>2, <2>3, <2>4 DEF SessionOK
<1>17. seen' \in Nat /\ knew' \in BOOLEAN /\ Covered(seen', knew', ledger')
  <2>1. Covered(v.shown, v.outcome, ledger')
    BY <1>9 DEF Covered
  <2> QED
    BY <1>3, <1>8, <1>9, <2>1, AnswerIsCovered
<1>18. Idle \in Job /\ JobOK(Idle, sessions', ledger')
  BY IdleOK
<1> QED
  BY <1>3, <1>4, <1>5, <1>9, <1>14, <1>15, <1>16, <1>17, <1>18, SessionStep

\* A view that is built for an annotation, and answers nothing yet.
LEMMA NoteViewKeeps ==
  ASSUME IInv, NEW r \in Threads, Reveal(r), job[r].kind # "view", UNCHANGED journalVars
  PROVE  IInv'
<1>1. PICK c, t, v : c = job[r].cursor /\ t = job[r].token /\ v = View(Snapshot, c, t # None)
  OBVIOUS
<1>2. Snapshot = log /\ log \in Seq(EventType) /\ Decisions(log) \in Nat
  BY ReadsLog
<1>3. PICK old : old = job[r]
  OBVIOUS
<1>4. PICK j : j = [pc |-> "label", mode |-> old.mode, claimed |-> v.claimed, shown |-> v.shown,
                    before |-> old.before, knew |-> old.knew]
  OBVIOUS
<1>5. /\ c.index <= Decisions(log) /\ Expose(v.exposed, v.outcome, FALSE)
      /\ UNCHANGED <<sessions, exploring, notes, polled, listed, seen, knew>>
  BY <1>1, <1>2 DEF Reveal
<1>6. job' = [job EXCEPT ![r] = j]
  <2>1. job' = [job EXCEPT ![r] =
                  [pc |-> "label", mode |-> @.mode, claimed |-> v.claimed,
                   shown |-> v.shown, before |-> @.before, knew |-> @.knew]]
    BY <1>1 DEF Reveal
  <2> QED
    BY <1>3, <1>4, <2>1
<1>7. /\ old \in Job /\ old.pc = "reveal" /\ JobOK(old, sessions, ledger)
  BY <1>3 DEF IInv, TypeOK, JobsOK, Reveal
<1>8. /\ c \in Cursors /\ old.mode \in Modes /\ old.before \in Nat /\ old.knew \in BOOLEAN
      /\ Covered(old.before, old.knew, ledger)
  BY <1>1, <1>3, <1>7 DEF Job, JobOK, Idle
<1>9. c.index \in 1 .. Decisions(log)
  BY <1>2, <1>5, <1>8, CursorIs
<1>10. /\ v.shown \in Nat /\ v.claimed \in Nat /\ v.exposed \in Nat /\ v.outcome \in BOOLEAN
       /\ v.claimed <= v.shown
  <2>1. PICK staged \in BOOLEAN : v = View(log, c, staged)
    BY <1>1, <1>2
  <2> QED
    BY <1>2, <1>9, <2>1, ViewFacts
<1>11. Grows(ledger, ledger')
  BY <1>5, <1>10, Exposed DEF IInv
<1>12. Covered(old.before, old.knew, ledger')
  BY <1>8, <1>11, CoveredGrows DEF IInv, TypeOK
<1>13. j \in Job /\ JobOK(j, sessions, ledger')
  BY <1>4, <1>8, <1>10, <1>12 DEF Job, JobOK
<1> QED
  BY <1>5, <1>6, <1>11, <1>13, JobStep

\* The label is read off a ledger that has all that was told before.
LEMMA LabelKeeps ==
  ASSUME IInv, NEW r \in Threads, Label(r), UNCHANGED journalVars
  PROVE  IInv'
<1>1. PICK old : old = job[r]
  OBVIOUS
<1>2. PICK n : n = [mode |-> ReviewMode(old.mode, old.claimed), shown |-> old.shown,
                    before |-> old.before, knew |-> old.knew]
  OBVIOUS
<1>3. PICK j : j = [pc |-> "append", note |-> n]
  OBVIOUS
<1>4. job' = [job EXCEPT ![r] = j] /\ old.pc = "label"
      /\ UNCHANGED <<ledger, sessions, exploring, notes, polled, listed, seen, knew>>
  BY <1>1, <1>2, <1>3 DEF Label
<1>5. old \in Job /\ JobOK(old, sessions, ledger) /\ ledger \in Exposure
  BY <1>1 DEF IInv, TypeOK, JobsOK
<1>6. /\ old.mode \in Modes /\ old.claimed \in Nat /\ old.shown \in Nat /\ old.before \in Nat
      /\ old.knew \in BOOLEAN /\ Covered(old.before, old.knew, ledger) /\ old.claimed <= old.shown
  BY <1>4, <1>5 DEF Job, JobOK, Idle
<1>7. ledger.max \in Nat /\ ledger.outcome \in BOOLEAN
  BY <1>5 DEF Exposure
<1>8. n \in Note
  <2>1. n.mode \in Modes \cup {"mixed"}
    BY <1>2, <1>6 DEF ReviewMode, Modes
  <2> QED
    BY <1>2, <1>6, <2>1 DEF Note
<1>9. Honest(n)
  <2> SUFFICES ASSUME n.mode = "prospective" PROVE n.before <= n.shown /\ ~n.knew
    BY DEF Honest
  <2>1. ~ledger.outcome /\ ~(ledger.max > old.claimed)
    BY <1>2 DEF ReviewMode
  <2> QED
    BY <1>2, <1>6, <1>7, <2>1 DEF Covered
<1>10. j \in Job /\ JobOK(j, sessions, ledger')
  BY <1>3, <1>8, <1>9 DEF Job, JobOK
<1>11. Grows(ledger, ledger')
  BY <1>4, <1>5, <1>7 DEF Grows
<1> QED
  BY <1>4, <1>10, <1>11, JobStep

LEMMA AppendNoteKeeps ==
  ASSUME IInv, NEW r \in Threads, AppendNote(r), UNCHANGED journalVars
  PROVE  IInv'
<1>1. PICK n : n = job[r].note
  OBVIOUS
<1>2. job[r] \in Job /\ JobOK(job[r], sessions, ledger) /\ job[r].pc = "append" /\ ledger \in Exposure
  BY DEF IInv, TypeOK, JobsOK, AppendNote
<1>3. n \in Note /\ Honest(n)
  BY <1>1, <1>2 DEF Job, JobOK, Idle
<1>4. Grows(ledger, ledger')
  BY <1>2 DEF AppendNote, Grows, Exposure
<1>5. notes' = notes \/ notes' = notes \cup {n}
  BY <1>1 DEF AppendNote
<1> QED
  BY <1>3, <1>4, <1>5, IdleOK, JobStep DEF AppendNote

LEMMA NotAvailableKeeps ==
  ASSUME IInv, NEW r \in Threads, NotAvailable(r), UNCHANGED journalVars
  PROVE  IInv'
<1>1. Grows(ledger, ledger')
  BY DEF IInv, TypeOK, NotAvailable, Grows, Exposure
<1> QED
  BY <1>1, IdleOK, JobStep DEF NotAvailable

LEMMA AnnotateKeeps ==
  ASSUME IInv, NEW r \in Threads, Annotate(r), UNCHANGED journalVars
  PROVE  IInv'
<1>1. PICK token, mode, c : /\ token \in Tokens \cup {None} /\ mode \in Modes /\ c \in Cursors
                            /\ Serve(r, "note", token, mode, c)
  <2>1. Decisions(log) \in Nat
    BY ReadsLog
  <2>2. ASSUME NEW n \in 1 .. Decisions(log) PROVE At(n, "transition") \in Cursors
    BY <2>1, <2>2, AtIs
  <2>3. \A t \in Tokens : sessions[t] # None => sessions[t].cursor \in Cursors
    BY SessionFacts
  <2> QED
    BY <2>2, <2>3 DEF Annotate, Modes
<1>2. PICK j : j = [pc |-> "reveal", kind |-> "note", token |-> token, mode |-> mode, cursor |-> c,
                    before |-> seen, knew |-> knew]
  OBVIOUS
<1>3. ledger \in Exposure /\ seen \in Nat /\ knew \in BOOLEAN /\ Covered(seen, knew, ledger)
  BY DEF IInv, TypeOK
<1>4. job' = [job EXCEPT ![r] = j]
  BY <1>1, <1>2, <1>3 DEF Serve
<1>5. j \in Job /\ JobOK(j, sessions, ledger)
  BY <1>1, <1>2, <1>3 DEF Job, JobOK
<1>6. Grows(ledger, ledger') /\ ledger' = ledger
  BY <1>3 DEF Annotate, Grows, Exposure
<1> QED
  BY <1>4, <1>5, <1>6, JobStep DEF Annotate

\* Whoever explores a run has been told its outcome, by the ledger's account.
LEMMA OpenExplorerKeeps ==
  ASSUME IInv, OpenExplorer, UNCHANGED journalVars
  PROVE  IInv'
<1>1. Snapshot = log /\ Len(log) \in Nat
  BY ReadsLog
<1>2. Expose(Len(log), TRUE, FALSE) /\ exploring' = TRUE
      /\ UNCHANGED <<sessions, job, notes, polled, listed, seen, knew>>
  BY <1>1 DEF OpenExplorer
<1>3. Grows(ledger, ledger') /\ ledger'.outcome
  BY <1>1, <1>2, Exposed DEF IInv
<1>4. Covered(seen', knew', ledger') /\ seen' \in Nat /\ knew' \in BOOLEAN
  BY <1>2, <1>3, JobsGrow DEF IInv, TypeOK
<1>5. polled' \in Nat \cup {None} /\ listed' \in BOOLEAN \cup {None}
  BY <1>2 DEF IInv, TypeOK
<1> QED
  BY <1>2, <1>3, <1>4, <1>5, ExposureStep

\* An explorer's view answers what its exposure does not name, the actions of
\* the last decision; but the ledger has the outcome since it was opened.
LEMMA ExploreKeeps ==
  ASSUME IInv, Explore, UNCHANGED journalVars
  PROVE  IInv'
<1>1. Snapshot = log /\ log \in Seq(EventType) /\ Decisions(log) \in Nat
  BY ReadsLog
<1>2. PICK n, c, v : /\ n \in 1..Decisions(log) /\ c = At(n, "transition")
                     /\ v = View(log, c, FALSE)
                     /\ Expose(v.exposed, v.outcome, FALSE) /\ Answer(v.shown, v.outcome)
  BY <1>1 DEF Explore
<1>3. exploring /\ UNCHANGED <<sessions, exploring, job, notes, polled, listed>>
  BY DEF Explore
<1>4. c.index \in 1 .. Decisions(log)
  BY <1>2 DEF At
<1>5. v.shown \in Nat /\ v.exposed \in Nat /\ v.outcome \in BOOLEAN
  BY <1>1, <1>2, <1>4, ViewFacts
<1>6. Grows(ledger, ledger') /\ (v.outcome => ledger'.outcome)
  BY <1>2, <1>5, Exposed DEF IInv
<1>7. ledger'.outcome
  BY <1>3, <1>6, JobsGrow
<1>8. seen' \in Nat /\ knew' \in BOOLEAN /\ Covered(seen', knew', ledger')
  BY <1>2, <1>5, <1>6, <1>7, AnswerIsCovered DEF Covered
<1>9. polled' \in Nat \cup {None} /\ listed' \in BOOLEAN \cup {None} /\ exploring' \in BOOLEAN
  BY <1>3 DEF IInv, TypeOK
<1> QED
  BY <1>3, <1>6, <1>7, <1>8, <1>9, ExposureStep

\* An answer of all that was exposed.
LEMMA ToldStep ==
  ASSUME IInv, NEW last \in Nat, NEW outcome \in BOOLEAN, Expose(last, outcome, FALSE),
         Answer(last, outcome) \/ UNCHANGED <<seen, knew>>,
         UNCHANGED <<journalVars, sessions, exploring, job, notes, polled, listed>>
  PROVE  IInv'
<1>1. Grows(ledger, ledger') /\ last <= ledger'.max /\ (outcome => ledger'.outcome)
  BY Exposed DEF IInv
<1>2. seen' \in Nat /\ knew' \in BOOLEAN /\ Covered(seen', knew', ledger')
  <2>1. CASE Answer(last, outcome)
    BY <1>1, <2>1, AnswerIsCovered DEF Covered
  <2>2. CASE UNCHANGED <<seen, knew>>
    BY <1>1, <2>2, JobsGrow DEF IInv, TypeOK
  <2> QED
    BY <2>1, <2>2
<1>3. polled' \in Nat \cup {None} /\ listed' \in BOOLEAN \cup {None} /\ exploring' \in BOOLEAN
  BY DEF IInv, TypeOK
<1> QED
  BY <1>1, <1>2, <1>3, ExposureStep

LEMMA ShowLedgerKeeps ==
  ASSUME IInv, ShowLedger, UNCHANGED journalVars
  PROVE  IInv'
<1>1. Snapshot = log /\ Len(log) \in Nat
  BY ReadsLog
<1>2. Ended(log) \in BOOLEAN
  BY DEF Ended
<1>3. PICK told : told = Ended(log)
  OBVIOUS
<1>4. /\ Expose(Len(log), told, FALSE)
      /\ Answer(Len(log), told) \/ UNCHANGED <<seen, knew>>
      /\ UNCHANGED <<sessions, exploring, job, notes, polled, listed>>
  BY <1>1, <1>3 DEF ShowLedger
<1> QED
  BY <1>1, <1>2, <1>3, <1>4, ToldStep

LEMMA ShowTraceKeeps ==
  ASSUME IInv, ShowTrace, UNCHANGED journalVars
  PROVE  IInv'
<1>1. log \in Seq(EventType) /\ Len(log) \in Nat /\ Decisions(log) \in Nat
  BY ReadsLog
<1>2. PICK n, last, told : /\ n \in 1..Decisions(log)
                           /\ last = IF n < Decisions(log) THEN BoardAt(log, n + 1) ELSE Len(log)
                           /\ told = (n = Decisions(log) /\ Ended(log))
                           /\ Expose(last, told, FALSE) /\ Answer(last, told)
  BY DEF ShowTrace
<1>3. last \in Nat
  <2>1. CASE n < Decisions(log)
    <3>1. n + 1 \in 1 .. Decisions(log)
      BY <1>1, <1>2, <2>1
    <3>2. BoardAt(log, n + 1) \in 1 .. Len(log)
      BY <1>1, <3>1, BoardAtIs
    <3> QED
      BY <1>1, <1>2, <2>1, <3>2
  <2>2. CASE ~(n < Decisions(log))
    BY <1>1, <1>2, <2>2
  <2> QED
    BY <2>1, <2>2
<1>4. told \in BOOLEAN
  BY <1>2
<1>5. UNCHANGED <<sessions, exploring, job, notes, polled, listed>>
  BY DEF ShowTrace
<1> QED
  BY <1>2, <1>3, <1>4, <1>5, ToldStep

LEMMA CompareBranchKeeps ==
  ASSUME IInv, CompareBranch, UNCHANGED journalVars
  PROVE  IInv'
<1>1. Len(log) \in Nat
  BY ReadsLog
<1>2. PICK told : told = Ended(log)
  OBVIOUS
<1>3. told \in BOOLEAN
  BY <1>2 DEF Ended
<1>4. /\ Expose(Len(log), TRUE, FALSE) /\ Answer(Len(log), told)
      /\ UNCHANGED <<sessions, exploring, job, notes, polled, listed>>
  BY <1>2 DEF CompareBranch
<1>5. Grows(ledger, ledger') /\ Len(log) <= ledger'.max /\ ledger'.outcome
  BY <1>1, <1>4, Exposed DEF IInv
<1>6. seen' \in Nat /\ knew' \in BOOLEAN /\ Covered(seen', knew', ledger')
  BY <1>1, <1>3, <1>4, <1>5, AnswerIsCovered DEF Covered
<1>7. polled' \in Nat \cup {None} /\ listed' \in BOOLEAN \cup {None} /\ exploring' \in BOOLEAN
  BY <1>4 DEF IInv, TypeOK
<1> QED
  BY <1>4, <1>5, <1>6, <1>7, ExposureStep

\* A view that was polled before was exposed then.
LEMMA PollStatusKeeps ==
  ASSUME IInv, PollStatus, UNCHANGED journalVars
  PROVE  IInv'
<1>1. PICK last : last = Len(log)
  OBVIOUS
<1>2. PICK told : told = Ended(log)
  OBVIOUS
<1>3. last \in Nat /\ told \in BOOLEAN
  BY <1>1, <1>2, ReadsLog DEF Ended
<1>4. /\ polled' = last /\ Answer(last, told)
      /\ UNCHANGED <<sessions, exploring, job, notes, listed>>
      /\ IF polled = last THEN ledger' = ledger ELSE Expose(last, told, FALSE)
  BY <1>1, <1>2 DEF PollStatus, Polled
<1>5. Grows(ledger, ledger') /\ Covered(last, told, ledger')
  <2>1. CASE polled = last
    <3>1. ledger' = ledger
      BY <1>4, <2>1
    <3>2. Grows(ledger, ledger')
      BY <3>1 DEF IInv, TypeOK, Grows, Exposure
    <3>3. polled # None
      BY <1>3, <2>1, NoneIs
    <3>4. Covered(polled, Ended(log) /\ polled = Len(log), ledger)
      BY <3>3 DEF IInv, Remembered
    <3> QED
      BY <1>1, <1>2, <2>1, <3>1, <3>2, <3>4 DEF Covered
  <2>2. CASE polled # last
    BY <1>3, <1>4, <2>2, Exposed DEF Covered, IInv
  <2> QED
    BY <2>1, <2>2
<1>6. seen' \in Nat /\ knew' \in BOOLEAN /\ Covered(seen', knew', ledger')
  BY <1>3, <1>4, <1>5, AnswerIsCovered
<1>7. polled' \in Nat \cup {None} /\ listed' \in BOOLEAN \cup {None} /\ exploring' \in BOOLEAN
  BY <1>3, <1>4 DEF IInv, TypeOK
<1>8. polled' = Len(log) /\ Covered(Len(log), Ended(log), ledger')
  BY <1>1, <1>2, <1>4, <1>5
<1> QED
  BY <1>4, <1>5, <1>6, <1>7, <1>8, ExposureStep

LEMMA ListRunsKeeps ==
  ASSUME IInv, ListRuns, UNCHANGED journalVars
  PROVE  IInv'
<1>1. PICK ended \in BOOLEAN : /\ IF listed = ended THEN ledger' = ledger ELSE Expose(0, ended, FALSE)
                               /\ listed' = ended /\ Answer(0, ended)
                               /\ UNCHANGED <<sessions, exploring, job, notes, polled>>
  BY DEF ListRuns
<1>2. Grows(ledger, ledger') /\ (ended => ledger'.outcome)
  <2>1. CASE listed = ended
    <3>1. Grows(ledger, ledger')
      BY <1>1, <2>1 DEF IInv, TypeOK, Grows, Exposure
    <3> QED
      BY <2>1, <3>1, JobsGrow
  <2>2. CASE listed # ended
    BY <1>1, <2>2, Exposed DEF IInv
  <2> QED
    BY <2>1, <2>2
<1>3. ledger'.max \in Nat
  BY <1>2 DEF Grows, Exposure
<1>4. Covered(0, ended, ledger')
  BY <1>2, <1>3 DEF Covered
<1>5. seen' \in Nat /\ knew' \in BOOLEAN /\ Covered(seen', knew', ledger')
  BY <1>1, <1>2, <1>4, AnswerIsCovered
<1>6. polled' \in Nat \cup {None} /\ listed' \in BOOLEAN \cup {None} /\ exploring' \in BOOLEAN
  BY <1>1 DEF IInv, TypeOK
<1> QED
  BY <1>1, <1>2, <1>5, <1>6, ExposureStep

\* What a server forgets, files keep.
LEMMA RestartKeeps ==
  ASSUME IInv, Restart, UNCHANGED journalVars
  PROVE  IInv'
<1>1. Grows(ledger, ledger') /\ ledger' = ledger
  BY DEF Restart, IInv, TypeOK, Grows, Exposure
<1>2. seen' \in Nat /\ knew' \in BOOLEAN /\ Covered(seen', knew', ledger')
  BY <1>1 DEF Restart, IInv, TypeOK
<1>3. /\ polled' = None /\ listed' = None /\ exploring' = exploring /\ exploring \in BOOLEAN
      /\ job' = [r \in Threads |-> Idle] /\ UNCHANGED <<sessions, notes>>
  BY DEF Restart, IInv, TypeOK
<1>4. listed' # TRUE
  BY <1>3, NoneIs
<1> QED
  BY <1>1, <1>2, <1>3, <1>4, ExposureStep

-----------------------------------------------------------------------------
(***************************************************************************)
(* Every state.                                                            *)
(***************************************************************************)
LEMMA InitHolds == Init => IInv
<1> SUFFICES ASSUME Init PROVE IInv
  OBVIOUS
<1>1. log = <<>> /\ log \in Seq(EventType) /\ DOMAIN log = {} /\ Len(log) = 0
  BY DEF Init, JournalInit
<1>2. JournalInv
  BY <1>1 DEF JournalInv, Shaped, Chained, Answered, Boarded, Numbered, Intents, Positions,
              Endings, Ended
<1>3. TypeOK
  BY IdleOK DEF Init, TypeOK, Exposure
<1>4. Covered(seen, knew, ledger)
  BY DEF Init, Covered
<1>5. Remembered
  BY NoneIs DEF Init, Remembered
<1>6. SessionsOK /\ JobsOK
  BY IdleOK DEF Init, SessionsOK, JobsOK
<1>7. \A n \in notes : Honest(n)
  BY DEF Init
<1> QED
  BY <1>2, <1>3, <1>4, <1>5, <1>6, <1>7 DEF IInv

\* Nothing but the counter of requests.
LEMMA StutterKeeps ==
  ASSUME IInv, UNCHANGED <<journalVars, reviewVars>>
  PROVE  IInv'
<1>1. Grows(ledger, ledger')
  BY DEF reviewVars, IInv, TypeOK, Grows, Exposure
<1>2. seen' \in Nat /\ knew' \in BOOLEAN /\ Covered(seen', knew', ledger')
  BY DEF reviewVars, IInv, TypeOK
<1>3. exploring' \in BOOLEAN /\ polled' \in Nat \cup {None} /\ listed' \in BOOLEAN \cup {None}
  BY DEF reviewVars, IInv, TypeOK
<1> QED
  BY <1>1, <1>2, <1>3, ExposureStep DEF reviewVars

LEMMA NextKeeps == IInv /\ [Next]_vars => IInv'
<1> SUFFICES ASSUME IInv, [Next]_vars PROVE IInv'
  OBVIOUS
<1>1. CASE WriteJournal /\ UNCHANGED <<reviewVars, asked>>
  BY <1>1, JournalKeeps
<1>2. CASE Ask /\ UNCHANGED journalVars
  <2>1. ASSUME NEW r \in Threads, NEW t \in Tokens,
               \/ \E prior \in BOOLEAN : OpenReview(r, t, "prospective", prior)
               \/ OpenReview(r, t, "retrospective", FALSE)
        PROVE  IInv'
    BY <1>2, <2>1, OpenReviewKeeps DEF Modes
  <2>2. ASSUME NEW r \in Threads, NEW t \in Tokens,
               ShowAgain(r, t) \/ Advance(r, t) \/ Revisit(r, t) \/ Seek(r, t)
        PROVE  IInv'
    BY <1>2, <2>2, ShowAgainKeeps, AdvanceKeeps, RevisitKeeps, SeekKeeps
  <2>3. CASE \E r \in Threads : Annotate(r)
    BY <1>2, <2>3, AnnotateKeeps
  <2>4. CASE OpenExplorer \/ Explore \/ ShowLedger \/ ShowTrace
    BY <1>2, <2>4, OpenExplorerKeeps, ExploreKeeps, ShowLedgerKeeps, ShowTraceKeeps
  <2>5. CASE PollStatus \/ ListRuns \/ CompareBranch \/ Restart
    BY <1>2, <2>5, PollStatusKeeps, ListRunsKeeps, CompareBranchKeeps, RestartKeeps
  <2> QED
    BY <1>2, <2>1, <2>2, <2>3, <2>4, <2>5 DEF Ask
<1>3. CASE Work /\ UNCHANGED <<journalVars, asked>>
  BY <1>3, SessionViewKeeps, NoteViewKeeps, NotAvailableKeeps, LabelKeeps, AppendNoteKeeps DEF Work
<1>4. CASE UNCHANGED vars
  BY <1>4, StutterKeeps DEF vars
<1> QED
  BY <1>1, <1>2, <1>3, <1>4 DEF Next

\* The inductive invariant of the reviews: the journal's shape, and what of
\* it the exposure ledger, the sessions, the requests that are being served
\* and the views' memories have (review/service.py, workbench/service.py).
THEOREM ReviewInvariant == Spec => []IInv
<1>1. Init => IInv
  BY InitHolds
<1>2. IInv /\ [Next]_vars => IInv'
  BY NextKeeps
<1> QED
  BY <1>1, <1>2, PTL DEF Spec

\* An annotation is only labelled prospective if nothing beyond what its view
\* shows, and not the outcome, had been answered before it was asked for,
\* whatever the requests that are served at the same time, a run that goes on,
\* and restarts (annotate, _build_view, expose).
THEOREM HonestLabels == Spec => []LabelsAreHonest
<1>1. IInv => LabelsAreHonest
  BY InvariantSuffices
<1> QED
  BY <1>1, ReviewInvariant, PTL

\* A session has shown nothing that is not in the exposure ledger and, while
\* it is prospective, nothing beyond its frontier, which its cursor never
\* passes (revisit, advance, expose).
THEOREM FrontierIsKept == Spec => []FrontierHolds
<1>1. IInv => FrontierHolds
  BY InvariantSuffices
<1> QED
  BY <1>1, ReviewInvariant, PTL

\* The decision ledger opens, and accounts for every intent, of a journal of
\* any length, whatever branch it continues and whoever ended it, but for the
\* two ends at which it says that it cannot (build_summary,
\* action_accounting).
THEOREM LedgerBalanced == Spec => []LedgerBalances
<1>1. IInv => LedgerBalances
  BY InvariantSuffices
<1> QED
  BY <1>1, ReviewInvariant, PTL
=============================================================================
