-------------------------- MODULE DecisionTurnProofs --------------------------
(***************************************************************************)
(* Proofs about DecisionTurn, for any limits and any operations of any     *)
(* actor: what is played was said whole by the actor that signs it, what   *)
(* is billed and shown is what is true, and the memory of it is honest.    *)
(***************************************************************************)
EXTENDS DecisionTurn, TLAPS

Inv == TypeOK /\ IInv

-----------------------------------------------------------------------------
(***************************************************************************)
(* The stream.                                                             *)

\* A stream that begins, or none, is well typed.
LEMMA FreshStreams == NoStream \in Stream /\ Opened \in Stream
<1>1. <<>> \in Seq(Block)
  OBVIOUS
<1>2. NoStream \in Stream
  BY <1>1 DEF NoStream, Stream
<1>3. Opened = [NoStream EXCEPT !.at = "open"]
  BY DEF Opened
<1> QED BY <1>2, <1>3 DEF Stream

\* A frame that is accepted leaves a well-typed stream whose count is only
\* final when the output was counted last.
LEMMA EventKeepsStream ==
  ASSUME stream \in Stream, CountsFinal, Receiving, Event, UNCHANGED wire
  PROVE  stream' \in Stream /\ CountsFinal'
<1>t. /\ stream.blocks \in Seq(Block) /\ Tool \in Block /\ Thought \in Block
  BY DEF Stream, Block, Tool, Thought
<1>s. /\ stream.final \in BOOLEAN /\ stream.count \in {"absent", "partial", "final"}
  BY DEF Stream
<1>1. CASE MessageStart
  <2>1. ~stream.begun /\ stream' = [stream EXCEPT !.begun = TRUE, !.count = "partial"]
    BY <1>1 DEF MessageStart
  <2>2. stream' \in Stream
    BY <2>1 DEF Stream
  <2> QED BY <2>1, <2>2 DEF Receiving, Stream, CountsFinal
<1>2. CASE BlockStart
  <2>1. PICK block \in {Tool, Thought} :
          stream' = [stream EXCEPT !.blocks = Append(@, block)]
    BY <1>2 DEF BlockStart
  <2>2. Append(stream.blocks, block) \in Seq(Block)
    BY <1>t
  <2> QED BY <2>1, <2>2 DEF Stream, CountsFinal
<1>3. CASE BlockDelta
  <2>1. PICK i \in OpenBlocks, whole \in BOOLEAN :
          stream' = [stream EXCEPT !.blocks[i].whole = whole]
    BY <1>3 DEF BlockDelta
  <2>2. i \in DOMAIN stream.blocks /\ stream.blocks[i] \in Block
    BY <1>t DEF OpenBlocks
  <2>3. [stream.blocks[i] EXCEPT !.whole = whole] \in Block
    BY <2>2 DEF Block
  <2>4. [stream.blocks EXCEPT ![i].whole = whole] \in Seq(Block)
    BY <1>t, <2>2, <2>3
  <2> QED BY <2>1, <2>4 DEF Stream, CountsFinal
<1>4. CASE BlockStop
  <2>1. PICK i \in OpenBlocks : stream' = [stream EXCEPT !.blocks[i].open = FALSE]
    BY <1>4 DEF BlockStop
  <2>2. i \in DOMAIN stream.blocks /\ stream.blocks[i] \in Block
    BY <1>t DEF OpenBlocks
  <2>3. [stream.blocks[i] EXCEPT !.open = FALSE] \in Block
    BY <2>2 DEF Block
  <2>4. [stream.blocks EXCEPT ![i].open = FALSE] \in Seq(Block)
    BY <1>t, <2>2, <2>3
  <2> QED BY <2>1, <2>4 DEF Stream, CountsFinal
<1>5. CASE wire = "anthropic" /\ MessageDelta
  <2>0. /\ stream.begun
        /\ (IF stream.reason = "none" THEN StopReasons \cup {"none"} ELSE {stream.reason})
              \subseteq StopReasons \cup {"none"}
    BY <1>5 DEF MessageDelta, Stream, StopReasons
  <2>1. PICK reason \in StopReasons \cup {"none"}, usage \in {"none", "other", "output"} :
          stream' = [stream EXCEPT
              !.closed = TRUE, !.reason = reason,
              !.count = IF usage = "output" THEN "final" ELSE @,
              !.final = IF usage = "none" THEN @ ELSE usage = "output"]
    BY <1>5, <2>0 DEF MessageDelta
  <2>2. (usage = "output") \in BOOLEAN
    OBVIOUS
  <2>3. CASE usage = "none"
    <3>1. stream' = [stream EXCEPT !.closed = TRUE, !.reason = reason]
      BY <2>1, <2>3 DEF Stream
    <3> QED BY <1>5, <2>0, <3>1 DEF Stream, CountsFinal, StopReasons
  <2>4. CASE usage = "other"
    <3>1. stream' = [stream EXCEPT !.closed = TRUE, !.reason = reason, !.final = FALSE]
      BY <2>1, <2>4 DEF Stream
    <3> QED BY <1>5, <2>0, <3>1 DEF Stream, CountsFinal, StopReasons
  <2>5. CASE usage = "output"
    <3>1. stream' = [stream EXCEPT !.closed = TRUE, !.reason = reason,
                                   !.count = "final", !.final = TRUE]
      BY <2>1, <2>5 DEF Stream
    <3> QED BY <1>5, <2>0, <3>1 DEF Stream, CountsFinal, StopReasons
  <2> QED BY <2>3, <2>4, <2>5
<1>6. CASE MessageStop
  BY <1>6, <1>s DEF MessageStop, Stream, CountsFinal
<1>7. CASE Created
  BY <1>7 DEF Created, Stream, CountsFinal
<1>8. CASE ItemDone
  <2>1. PICK complete \in BOOLEAN, whole \in BOOLEAN :
          stream' = [stream EXCEPT !.blocks =
                        Append(@, [Tool EXCEPT !.open = ~complete, !.whole = whole])]
    BY <1>8 DEF ItemDone
  <2>2. [Tool EXCEPT !.open = ~complete, !.whole = whole] \in Block
    BY DEF Tool, Block
  <2>3. Append(stream.blocks, [Tool EXCEPT !.open = ~complete, !.whole = whole]) \in Seq(Block)
    BY <1>t, <2>2
  <2> QED BY <2>1, <2>3 DEF Stream, CountsFinal
<1>9. CASE wire = "openai" /\ Terminal
  <2>1. PICK reason \in {"tool_use", "refusal", "max_tokens"}, count \in {"absent", "final"} :
          stream' = [stream EXCEPT !.at = "done", !.reason = reason, !.count = count]
    BY <1>9 DEF Terminal
  <2>2. stream' \in Stream
    BY <2>1 DEF Stream
  <2> QED BY <1>9, <2>1, <2>2 DEF Stream, CountsFinal
<1> QED BY <1>1, <1>2, <1>3, <1>4, <1>5, <1>6, <1>7, <1>8, <1>9 DEF Event

-----------------------------------------------------------------------------
(***************************************************************************)
(* Memory, turns and operations.                                           *)

USE DecisionAssumption, StreamAssumption

\* What is done to a memory gives a memory.
LEMMA MemoryOps ==
  ASSUME NEW m \in Memory
  PROVE  /\ Unlinked(m) \in Memory
         /\ \A edit \in Edits : NoteSaved(m, edit) \in Memory /\ Proposed(m, edit) \in Memory
         /\ \A fits \in BOOLEAN : HelperKept(m, fits) \in Memory
<1>1. Unlinked(m) \in Memory
  BY DEF Memory, Unlinked, Edits
<1>2. ASSUME NEW edit \in Edits PROVE NoteSaved(m, edit) \in Memory /\ Proposed(m, edit) \in Memory
  BY DEF Memory, NoteSaved, Proposed, Edits, Texts
<1>3. ASSUME NEW fits \in BOOLEAN PROVE HelperKept(m, fits) \in Memory
  <2> DEFINE u == Unlinked(m)
  <2>1. HelperKept(m, fits) = [u EXCEPT !.kept = @ + 1]
          \/ HelperKept(m, fits) = [u EXCEPT !.dropped = @ + 1]
    BY DEF HelperKept
  <2>2. u \in Memory
    BY <1>1
  <2> HIDE DEF u
  <2>3. u.kept + 1 \in Nat /\ u.dropped + 1 \in Nat
    <3>1. u.kept \in Nat /\ u.dropped \in Nat
      BY <2>2 DEF Memory
    <3> QED BY <3>1
  <2>4. \A n \in Nat : [u EXCEPT !.kept = n] \in Memory /\ [u EXCEPT !.dropped = n] \in Memory
    BY <2>2 DEF Memory
  <2> QED BY <2>1, <2>3, <2>4
<1> QED BY <1>1, <1>2, <1>3

\* A frame is one that stands for no decision or is about one.
LEMMA FrameTypes == NoFrame \in Frame /\ FreshMemory \in Memory
<1>1. NoFrame \in Frame
  BY DEF NoFrame, Frame, Edits
<1>2. <<>> \in Seq(Frame)
  OBVIOUS
<1> QED BY <1>1, <1>2 DEF FreshMemory, Memory, Edits, Texts

\* The memory of a committed action, with the frame that waits.
LEMMA CommittedMemory ==
  ASSUME memory \in Memory, acts \in Seq(Act)
  PROVE  /\ Committed(memory) \in Memory
         /\ Committed(memory).pending =
              [decision |-> Decision, note |-> Receipt(memory), kept |-> memory.kept,
               dropped |-> memory.dropped]
         /\ Committed(memory).frames = memory.frames
         /\ Committed(memory).omitted = memory.omitted
         /\ Committed(memory).kept = 0 /\ Committed(memory).dropped = 0
<1>1. Receipt(memory) \in Edits /\ Decision \in Nat
  BY DEF Receipt, Memory, Edits, Decision
<1>2. [decision |-> Decision, note |-> Receipt(memory), kept |-> memory.kept,
       dropped |-> memory.dropped] \in Frame
  BY <1>1 DEF Memory, Frame
<1>3. Unlinked(memory) \in Memory
  BY MemoryOps
<1> QED BY <1>2, <1>3 DEF Committed, Unlinked, Memory

\* The end of a sequence, behind its first n elements.
LEMMA SuffixFacts ==
  ASSUME NEW S, NEW q \in Seq(S), NEW n \in Nat, n <= Len(q),
         NEW left, left = SubSeq(q, n + 1, Len(q))
  PROVE  /\ left \in Seq(S) /\ Len(left) = Len(q) - n
         /\ \A i \in DOMAIN left : i + n \in DOMAIN q /\ left[i] = q[i + n]
<1>1. Len(q) \in Nat /\ n + 1 \in 1 .. Len(q) + 1
  OBVIOUS
<1>2. Len(left) = Len(q) - n /\ DOMAIN left = 1 .. Len(q) - n /\ DOMAIN q = 1 .. Len(q)
  BY <1>1
<1>3. \A i \in 1 .. Len(q) - n : left[i] = q[i + (n + 1) - 1]
  BY <1>1
<1>4. \A i \in 1 .. Len(q) - n : i + n \in 1 .. Len(q) /\ i + n = i + (n + 1) - 1
  BY <1>1
<1>5. left \in Seq(S)
  BY <1>1
<1>6. \A i \in DOMAIN left : i + n \in DOMAIN q /\ left[i] = q[i + n]
  BY <1>2, <1>3, <1>4
<1> QED
  BY <1>2, <1>5, <1>6

LEMMA PrunedSum ==
  ASSUME NEW len \in Nat, NEW omitted \in Nat, NEW n \in Nat, NEW left, left = len + 1 - n
  PROVE  omitted + n \in Nat /\ left + (omitted + n) = len + omitted + 1
OBVIOUS

\* What an observation does to the memory: the frame that waits joins the
\* others, and the oldest make room.
LEMMA ObservedMemory ==
  ASSUME NEW m \in Memory, NEW n \in Pruned(m)
  PROVE  /\ Observed(m, n) \in Memory
         /\ Observed(m, n).pending = NoFrame
         /\ Observed(m, n).kept = m.kept /\ Observed(m, n).dropped = m.dropped
         /\ Len(Observed(m, n).frames) + Observed(m, n).omitted =
              Len(m.frames) + m.omitted + (IF m.pending = NoFrame THEN 0 ELSE 1)
         /\ \A i \in DOMAIN Observed(m, n).frames :
              Observed(m, n).frames[i] \in {m.pending} \cup {m.frames[j] : j \in DOMAIN m.frames}
<1>1. /\ m.frames \in Seq(Frame) /\ m.pending \in Frame /\ m.omitted \in Nat
      /\ Len(m.frames) \in Nat
  BY DEF Memory
<1>2. Unlinked(m) \in Memory /\ \A f \in {"pending", "frames", "omitted", "kept", "dropped"} :
        Unlinked(m)[f] = m[f]
  BY MemoryOps DEF Unlinked, Memory
<1>3. CASE m.pending = NoFrame
  <2>1. Observed(m, n) = Unlinked(m)
    BY <1>3 DEF Observed
  <2>2. Len(m.frames) + m.omitted = Len(m.frames) + m.omitted + 0
    BY <1>1
  <2> QED
    BY <1>1, <1>2, <1>3, <2>1, <2>2
<1>4. CASE m.pending # NoFrame
  <2> DEFINE frames == Append(m.frames, m.pending)
             left == SubSeq(frames, n + 1, Len(frames))
             gone == m.omitted + n
  <2>1. n \in Nat /\ n <= Len(m.frames) + 1
    BY <1>1 DEF Pruned
  <2>2. frames \in Seq(Frame) /\ Len(frames) = Len(m.frames) + 1 /\ n <= Len(frames)
    BY <1>1, <2>1
  <2>3. \A i \in DOMAIN frames :
          frames[i] \in {m.pending} \cup {m.frames[j] : j \in DOMAIN m.frames}
    BY <1>1, SMTT(30)
  <2>4. Observed(m, n) = [Unlinked(m) EXCEPT !.pending = NoFrame, !.frames = left, !.omitted = gone]
    BY <1>2, <1>4 DEF Observed
  <2>5. left = SubSeq(frames, n + 1, Len(frames)) /\ gone = m.omitted + n
    OBVIOUS
  <2> HIDE DEF frames, left, gone
  <2>6. /\ left \in Seq(Frame) /\ Len(left) = Len(frames) - n
        /\ \A i \in DOMAIN left : i + n \in DOMAIN frames /\ left[i] = frames[i + n]
    <3> DEFINE Suffix(q, r) ==
                 /\ r \in Seq(Frame) /\ Len(r) = Len(q) - n
                 /\ \A i \in DOMAIN r : i + n \in DOMAIN q /\ r[i] = q[i + n]
    <3>1. ASSUME NEW q \in Seq(Frame), n <= Len(q), NEW r, r = SubSeq(q, n + 1, Len(q))
          PROVE  Suffix(q, r)
      BY <2>1, <3>1, SuffixFacts, SMTT(30)
    <3> HIDE DEF Suffix
    <3>2. Suffix(frames, left)
      BY <2>2, <2>5, <3>1
    <3> QED
      BY <3>2 DEF Suffix
  <2>7. Len(left) = Len(m.frames) + 1 - n
    BY <1>1, <2>1, <2>2, <2>6
  <2>8. gone \in Nat /\ Len(left) + gone = Len(m.frames) + m.omitted + 1
    <3>1. \A o, len \in Nat : \A l, g :
            l = len + 1 - n /\ g = o + n => g \in Nat /\ l + g = len + o + 1
      BY <2>1, PrunedSum
    <3>2. m.omitted \in Nat /\ Len(m.frames) \in Nat
      BY <1>1
    <3>3. \A l, g : l = Len(m.frames) + 1 - n /\ g = m.omitted + n
                     => g \in Nat /\ l + g = Len(m.frames) + m.omitted + 1
      BY <3>1, <3>2, Zenon
    <3> QED
      BY <2>5, <2>7, <3>3, Zenon
  <2>9. /\ Observed(m, n).pending = NoFrame
        /\ Observed(m, n).frames = left /\ Observed(m, n).omitted = gone
        /\ Observed(m, n).kept = m.kept /\ Observed(m, n).dropped = m.dropped
    BY <1>2, <2>4 DEF Memory
  <2>10. Observed(m, n) \in Memory
    BY <1>2, <2>4, <2>6, <2>8, FrameTypes DEF Memory
  <2> QED
    BY <1>4, <2>3, <2>6, <2>8, <2>9, <2>10
<1> QED
  BY <1>3, <1>4

\* The status of an actor is within the allowances.
LEMMA StatusTypes ==
  ASSUME TypeOK, NEW helpers \in 0 .. MaxHelpers
  PROVE  /\ Status(helpers) \in ShownStatus
         /\ Status(helpers).helpers = MaxHelpers - helpers
         /\ Status(helpers).text = memory.text
<1>1. Len(rows) \in 0 .. MaxCalls /\ memory.text \in Texts
  BY DEF TypeOK, Memory
<1>2. MaxHelpers - helpers \in 0 .. MaxHelpers /\ MaxCalls - Len(rows) \in 0 .. MaxCalls
  BY <1>1
<1> QED BY <1>1, <1>2 DEF Status, ShownStatus

\* A decision begins with nothing exchanged.
LEMMA NewTurns ==
  ASSUME TypeOK
  PROVE  NewTurn \in Turn /\ NewTurn.exchanges = <<>> /\ NewTurn.shown = NewTurn.sent
<1>1. 0 \in 0 .. MaxHelpers /\ <<>> \in Seq(OwnExchange)
  OBVIOUS
<1>2. Status(0) \in ShownStatus
  BY <1>1, StatusTypes
<1> QED BY <1>1, <1>2 DEF NewTurn, Turn, Actors

\* Who acts is one of the three.
LEMMA ActorTypes ==
  ASSUME TypeOK
  PROVE  Actor \in {"model", "human", "override"}
BY DEF TypeOK, Actor

\* A context adds up to the status of now, and a new actor gets no exchange
\* of another.
LEMMA DeliveredTurn ==
  ASSUME TypeOK, turn.shown = turn.sent, OwnExchanges,
         NEW t, t = Delivered(ActorTurn(turn))
  PROVE  /\ t \in Turn
         /\ t.actor = Actor /\ t.reads = turn.reads /\ t.helpers = turn.helpers
         /\ t.shown = t.sent /\ t.sent = Status(turn.helpers)
         /\ t.sealed = Len(t.exchanges)
         /\ t.exchanges = <<>> \/ (t.exchanges = turn.exchanges /\ turn.actor = Actor)
<1> DEFINE a == ActorTurn(turn)
           now == Status(turn.helpers)
<1>1. turn \in Turn /\ turn.helpers \in 0 .. MaxHelpers /\ Actor \in Actors
  BY ActorTypes DEF TypeOK, Turn, Actors
<1>2. now \in ShownStatus
  BY <1>1, StatusTypes
<1>3. /\ a \in Turn /\ a.actor = Actor /\ a.reads = turn.reads /\ a.helpers = turn.helpers
      /\ a.shown = a.sent
      /\ a.exchanges = <<>> \/ (a.exchanges = turn.exchanges /\ turn.actor = Actor)
      /\ a.exchanges = <<>> => a.sealed = 0
  <2>1. CASE turn.actor \in {"nobody", Actor}
    <3>1. a = [turn EXCEPT !.actor = Actor]
      BY <2>1 DEF ActorTurn
    <3> QED BY <1>1, <2>1, <3>1 DEF Turn, OwnExchanges
  <2>2. CASE turn.actor \notin {"nobody", Actor}
    <3>1. a = [turn EXCEPT !.actor = Actor, !.exchanges = <<>>, !.sealed = 0]
      BY <2>2 DEF ActorTurn
    <3>2. <<>> \in Seq(OwnExchange)
      OBVIOUS
    <3> DEFINE none == <<>>
    <3> HIDE DEF none
    <3>3. a = [turn EXCEPT !.actor = Actor, !.exchanges = none, !.sealed = 0]
      BY <3>1 DEF none
    <3>4. none \in Seq(OwnExchange)
      BY <3>2 DEF none
    <3>5. a \in Turn
      <4>1. [turn EXCEPT !.actor = Actor] \in Turn
        BY <1>1 DEF Turn
      <4>2. \A u \in Turn : [u EXCEPT !.exchanges = none, !.sealed = 0] \in Turn
        BY <3>4 DEF Turn
      <4>3. a = [[turn EXCEPT !.actor = Actor] EXCEPT !.exchanges = none, !.sealed = 0]
        BY <1>1, <3>3 DEF Turn
      <4> QED BY <4>1, <4>2, <4>3
    <3>6. /\ a.actor = Actor /\ a.reads = turn.reads /\ a.helpers = turn.helpers
          /\ a.shown = a.sent /\ a.exchanges = none /\ a.sealed = 0
      BY <1>1, <3>3 DEF Turn
    <3> QED BY <3>5, <3>6 DEF none
  <2> QED BY <2>1, <2>2
<1>4. a.helpers = turn.helpers /\ t = Delivered(a)
  BY <1>3
<1> HIDE DEF a
<1>5. CASE a.sealed = 0 /\ a.exchanges = <<>>
  <2>1. t = [a EXCEPT !.sent = now, !.shown = now]
    BY <1>4, <1>5 DEF Delivered
  <2> HIDE DEF now
  <2>2. Len(a.exchanges) = 0
    BY <1>5
  <2>3. t \in Turn
    BY <1>2, <1>3, <2>1 DEF Turn
  <2>4. /\ t.shown = now /\ t.sent = now /\ t.sealed = a.sealed /\ t.exchanges = a.exchanges
        /\ t.actor = a.actor /\ t.reads = a.reads /\ t.helpers = a.helpers
    BY <1>3, <2>1 DEF Turn
  <2> QED BY <1>3, <1>5, <2>2, <2>3, <2>4 DEF now
<1>6. CASE ~(a.sealed = 0 /\ a.exchanges = <<>>)
  <2> DEFINE shown == [f \in DOMAIN now |-> IF f \in Changed(a.sent, now) THEN now[f]
                                                                         ELSE a.shown[f]]
  <2>1. t = [a EXCEPT !.sealed = Len(a.exchanges), !.sent = now, !.shown = shown]
    BY <1>4, <1>6 DEF Delivered
  <2>2. shown = now
    <3>1. \A f \in DOMAIN now : shown[f] = now[f]
      BY <1>3 DEF Changed
    <3>2. now = [f \in DOMAIN now |-> now[f]]
      BY <1>2 DEF ShownStatus
    <3> QED BY <3>1, <3>2
  <2> HIDE DEF now, shown
  <2>3. Len(a.exchanges) \in Nat
    BY <1>3 DEF Turn
  <2>4. t \in Turn
    BY <1>2, <1>3, <2>1, <2>2, <2>3 DEF Turn
  <2>5. /\ t.shown = now /\ t.sent = now
        /\ t.sealed = Len(a.exchanges) /\ t.exchanges = a.exchanges
        /\ t.actor = a.actor /\ t.reads = a.reads /\ t.helpers = a.helpers
    BY <1>3, <2>1, <2>2 DEF Turn
  <2> QED BY <1>3, <2>4, <2>5 DEF now
<1> QED BY <1>5, <1>6

\* An exchange is of the actor that is asked, and of the last answer.
LEMMA ExchangedTurn ==
  ASSUME TypeOK, NEW u \in Turn, NEW t, t = Exchange(u)
  PROVE  /\ t \in Turn
         /\ t.actor = u.actor /\ t.began = u.began /\ t.reads = u.reads
         /\ t.signed = u.signed /\ t.shown = u.shown /\ t.sent = u.sent
         /\ t.helpers = u.helpers /\ t.exchanges # <<>>
         /\ \A i \in DOMAIN t.exchanges :
              \/ i \in DOMAIN u.exchanges /\ t.exchanges[i] = u.exchanges[i]
              \/ /\ t.exchanges[i].by = u.actor
                 /\ \/ t.exchanges[i].turn = 0
                    \/ /\ u.actor = "model" /\ t.exchanges[i].turn = held
                       /\ t.exchanges[i].answer = Len(rows)
<1> DEFINE e == IF u.actor = "model" THEN [by |-> "model", answer |-> Len(rows), turn |-> held]
                                     ELSE [by |-> u.actor, answer |-> 0, turn |-> 0]
<1>1. e \in OwnExchange
  BY DEF TypeOK, OwnExchange, Turn
<1>2. /\ e.by = u.actor
      /\ e.turn = 0 \/ (u.actor = "model" /\ e.turn = held /\ e.answer = Len(rows))
  OBVIOUS
<1>3. t = [u EXCEPT !.exchanges = Append(@, e)]
  BY DEF Exchange
<1> HIDE DEF e
<1>4. u.exchanges \in Seq(OwnExchange)
  BY DEF Turn
<1>5. /\ Append(u.exchanges, e) \in Seq(OwnExchange) /\ Append(u.exchanges, e) # <<>>
      /\ \A i \in DOMAIN Append(u.exchanges, e) :
            \/ i \in DOMAIN u.exchanges /\ Append(u.exchanges, e)[i] = u.exchanges[i]
            \/ Append(u.exchanges, e)[i] = e
  <2>1. /\ Append(u.exchanges, e) \in Seq(OwnExchange)
        /\ Len(Append(u.exchanges, e)) = Len(u.exchanges) + 1
    BY <1>1, <1>4
  <2>2. DOMAIN u.exchanges = 1 .. Len(u.exchanges) /\ Len(u.exchanges) \in Nat
    BY <1>4
  <2>3. DOMAIN Append(u.exchanges, e) = 1 .. Len(u.exchanges) + 1
    BY <2>1
  <2>4. ASSUME NEW i \in DOMAIN Append(u.exchanges, e)
        PROVE  \/ i \in DOMAIN u.exchanges /\ Append(u.exchanges, e)[i] = u.exchanges[i]
               \/ Append(u.exchanges, e)[i] = e
    BY <1>1, <1>4, <2>2, <2>3
  <2>5. Append(u.exchanges, e) # <<>>
    BY <2>1, <2>2
  <2> QED BY <2>1, <2>4, <2>5
<1>6. t \in Turn /\ t.exchanges = Append(u.exchanges, e)
  BY <1>3, <1>5 DEF Turn
<1>7. /\ t.actor = u.actor /\ t.began = u.began /\ t.reads = u.reads
      /\ t.signed = u.signed /\ t.shown = u.shown /\ t.sent = u.sent
      /\ t.helpers = u.helpers
  BY <1>3 DEF Turn
<1> QED BY <1>2, <1>5, <1>6, <1>7

\* An operation in hand is one of those a client can send.
LEMMA OperationTypes ==
  /\ Nothing \in Op /\ Nothing.kind = "none"
  /\ \A kind \in Kinds :
       /\ [Nothing EXCEPT !.kind = kind] \in Op
       /\ \A by \in Actors : [Nothing EXCEPT !.kind = kind, !.by = by] \in Op
  /\ \A obs \in Nat \ {0}, actor \in Actors :
       \A op \in Operation(obs, actor) : op \in Op /\ op.by = actor
<1>1. Nothing \in Op /\ Nothing.kind = "none"
  BY DEF Nothing, Op, Kinds, Edits, Actors
<1>2. ASSUME NEW kind \in Kinds
      PROVE  /\ [Nothing EXCEPT !.kind = kind] \in Op
             /\ \A by \in Actors : [Nothing EXCEPT !.kind = kind, !.by = by] \in Op
  BY <1>1 DEF Op
<1>3. ASSUME NEW obs \in Nat \ {0}, NEW actor \in Actors, NEW op \in Operation(obs, actor)
      PROVE  op \in Op /\ op.by = actor
  <2>1. CASE \E o \in {obs, obs - 1} \ {0}, l \in BOOLEAN, e \in {"keep", "set", "refused"} :
                op = [kind |-> "act", obs |-> o, legal |-> l, edit |-> e, by |-> actor]
    BY <2>1 DEF Op, Kinds, Edits
  <2>2. CASE \E k \in {"read", "abort", "malformed"} :
                op = [Nothing EXCEPT !.kind = k, !.by = actor]
    BY <1>1, <2>2 DEF Op, Kinds
  <2>3. CASE \E e \in {"set", "delete", "refused"} :
                op = [Nothing EXCEPT !.kind = "note", !.edit = e, !.by = actor]
    BY <1>1, <2>3 DEF Op, Kinds, Edits
  <2> QED BY <2>1, <2>2, <2>3 DEF Operation
<1> QED BY <1>1, <1>2, <1>3

\* The fields of the decision in progress.
LEMMA TurnFields ==
  ASSUME TypeOK
  PROVE  /\ turn \in Turn /\ turn.helpers \in 0 .. MaxHelpers
         /\ turn.reads \in Nat /\ turn.invalid \in Nat
         /\ turn.attempt \in Nat /\ turn.began \in Nat
BY DEF TypeOK, Turn

\* It stays one when a number of it changes.
LEMMA TurnEdits ==
  ASSUME TypeOK
  PROVE  /\ \A n \in Nat : /\ [turn EXCEPT !.began = n] \in Turn
                           /\ [turn EXCEPT !.invalid = n] \in Turn
                           /\ \A k \in Nat : [turn EXCEPT !.attempt = k, !.began = n] \in Turn
         /\ \A n \in 0 .. MaxHelpers, k \in Nat :
              /\ [turn EXCEPT !.helpers = n] \in Turn
              /\ [turn EXCEPT !.helpers = n, !.reads = k] \in Turn
BY DEF TypeOK, Turn

-----------------------------------------------------------------------------
(***************************************************************************)
(* Type correctness.                                                       *)

\* The run begins well typed.
LEMMA InitType == Init => TypeOK
<1> SUFFICES ASSUME Init PROVE TypeOK
  OBVIOUS
<1>1. rows = <<>> /\ acts = <<>> /\ rows \in Seq(LedgerRow) /\ acts \in Seq(Act)
  BY DEF Init
<1>2. MaxCalls - Len(rows) \in 0 .. MaxCalls /\ Len(rows) <= MaxCalls
  BY <1>1
<1>3. NewTurn \in Turn
  <2>1. Status(0) \in ShownStatus
    BY <1>2, FrameTypes DEF Init, Status, ShownStatus, Memory
  <2>2. 0 \in 0 .. MaxHelpers /\ <<>> \in Seq(OwnExchange)
    OBVIOUS
  <2> QED BY <2>1, <2>2 DEF NewTurn, Turn, Actors
<1>4. policy \in [kind : {"model", "human", "override"}, left : Nat]
  BY DEF Init
<1> QED
  BY <1>1, <1>2, <1>3, <1>4, FreshStreams, FrameTypes, OperationTypes DEF Init, TypeOK

\* The run that ends is well typed.
LEMMA EndType ==
  ASSUME TypeOK, NEW why \in Kinds, End(why)
  PROVE  TypeOK'
<1>1. raw' \in Op
  BY OperationTypes DEF End
<1>2. turn' \in Turn /\ stream' \in Stream /\ held' \in Nat
  BY FreshStreams, NewTurns DEF End
<1> QED BY <1>1, <1>2 DEF End, TypeOK

\* A provider that fails leaves the next attempt, or ends the run.
LEMMA FailureType ==
  ASSUME TypeOK, NEW retryable, NEW began \in {0, 1}, ProviderFails(retryable, began)
  PROVE  TypeOK'
<1>1. CASE /\ turn' = [turn EXCEPT !.attempt = @ + 1, !.began = @ + began]
           /\ stream' = NoStream
           /\ UNCHANGED <<wire, raw, asking>>
  <2>1. turn' \in Turn
    <3>1. turn.attempt + 1 \in Nat /\ turn.began + began \in Nat
      BY TurnFields
    <3> QED BY <1>1, <3>1, TurnEdits
  <2> QED BY <1>1, <2>1, FreshStreams DEF TypeOK, asking
<1>2. CASE \E why \in {"stopped", "provider_failed"} : End(why)
  BY <1>2, EndType DEF Kinds
<1> QED BY <1>1, <1>2 DEF ProviderFails

\* Every step of the runner, the desk and the provider keeps the types.
LEMMA TypeStep ==
  ASSUME TypeOK, IInv, Next
  PROVE  TypeOK'
<1>d. Decision \in Nat \ {0} /\ Actor \in Actors
  BY ActorTypes DEF TypeOK, Decision, Actors
<1>1. CASE Observe
  <2>1. CASE \E why \in {"stopped", "action_limit"} : End(why)
    BY <2>1, EndType DEF Kinds
  <2>2. CASE /\ turn' = NewTurn /\ \E n \in Pruned(memory) : memory' = Observed(memory, n)
             /\ UNCHANGED <<wire, stream, policy, raw, held, rows, desk, acts, stop>>
    BY <2>2, NewTurns, ObservedMemory DEF TypeOK
  <2> QED BY <1>1, <2>1, <2>2 DEF Observe
<1>2. CASE StartTurn
  <2>1. CASE \E why \in {"stopped", "context_limit"} : End(why)
    BY <2>1, EndType DEF Kinds
  <2>2. CASE ~\E why \in {"stopped", "context_limit"} : End(why)
    <3> DEFINE t == Delivered(ActorTurn(turn))
    <3>1. /\ turn' = [t EXCEPT !.signed = Actor, !.attempt = 1, !.began = 0]
          /\ held' = IF turn.actor \in {"nobody", Actor} THEN held ELSE 0
          /\ desk' = IF Actor = "human" THEN [desk EXCEPT !.shown = Decision] ELSE desk
          /\ raw' = Nothing /\ stream' = NoStream
          /\ UNCHANGED <<wire, policy, rows, memory, acts, stop>>
      BY <1>2, <2>2 DEF StartTurn
    <3>2. t \in Turn
      BY DeliveredTurn DEF IInv, ShownIsSent
    <3> HIDE DEF t
    <3>3. turn' \in Turn
      BY <1>d, <3>1, <3>2 DEF Turn
    <3>4. held' \in Nat
      BY <3>1 DEF TypeOK
    <3>5. desk' \in [shown : Nat, queue : Op, carried : Op]
      BY <1>d, <3>1 DEF TypeOK
    <3> QED BY <3>1, <3>3, <3>4, <3>5, FreshStreams, OperationTypes DEF TypeOK
  <2> QED BY <2>1, <2>2
<1>3. CASE TakeOverride
  <2>1. PICK legal \in BOOLEAN :
          raw' = [Nothing EXCEPT !.kind = "act", !.obs = Decision, !.legal = legal,
                                 !.by = "override"]
    BY <1>3 DEF TakeOverride
  <2>2. raw' \in Op
    <3>1. raw' = [kind |-> "act", obs |-> Decision, legal |-> legal, edit |-> "keep",
                  by |-> "override"]
      BY <2>1 DEF Nothing
    <3> QED BY <1>d, <3>1 DEF Op, Kinds, Edits, Actors
  <2>3. memory' \in Memory
    BY <1>3, MemoryOps DEF TakeOverride, Edits, TypeOK
  <2>4. policy' \in [kind : {"model", "human", "override"}, left : Nat]
    <3>1. policy.left \in Nat /\ policy.left > 0
      BY <1>3 DEF TakeOverride, Actor, TypeOK
    <3>2. policy.left - 1 \in Nat
      BY <3>1
    <3>3. policy' = [policy EXCEPT !.left = @ - 1]
      BY <1>3 DEF TakeOverride
    <3> QED BY <3>2, <3>3 DEF TypeOK
  <2> QED BY <1>3, <2>2, <2>3, <2>4 DEF TakeOverride, TypeOK
<1>4. CASE TakeHuman
  <2>1. CASE End("stopped")
    BY <2>1, EndType DEF Kinds
  <2>2. CASE ~End("stopped")
    <3>1. /\ raw' = desk.queue
          /\ desk' = [desk EXCEPT !.queue = Nothing, !.shown = 0]
          /\ memory' = Proposed(memory, desk.queue.edit)
          /\ UNCHANGED <<wire, stream, policy, turn, held, rows, acts, stop>>
      BY <1>4, <2>2 DEF TakeHuman
    <3>2. desk.queue \in Op /\ desk.queue.edit \in Edits
      BY DEF TypeOK, Op
    <3>3. memory' \in Memory
      BY <3>1, <3>2, MemoryOps DEF TypeOK
    <3>4. desk' \in [shown : Nat, queue : Op, carried : Op]
      BY <3>1, OperationTypes DEF TypeOK
    <3> QED BY <3>1, <3>2, <3>3, <3>4 DEF TypeOK
  <2> QED BY <2>1, <2>2
<1>5. CASE HumanComposes
  <2>1. PICK op \in Operation(desk.shown, "human") : desk' = [desk EXCEPT !.carried = op]
    BY <1>5 DEF HumanComposes
  <2>2. op \in Op
    BY <1>5, OperationTypes DEF HumanComposes, TypeOK, Actors
  <2>3. desk' \in [shown : Nat, queue : Op, carried : Op]
    BY <2>1, <2>2 DEF TypeOK
  <2> QED BY <1>5, <2>3 DEF HumanComposes, TypeOK
<1>6. CASE HumanQueues
  <2>1. desk' \in [shown : Nat, queue : Op, carried : Op]
    BY <1>6, OperationTypes DEF HumanQueues, TypeOK
  <2> QED BY <1>6, <2>1 DEF HumanQueues, TypeOK
<1>7. CASE OperatorStops
  BY <1>7 DEF OperatorStops, TypeOK
<1>8. CASE CountInput
  <2>1. CASE \E why \in {"stopped", "call_limit", "input_refused"} : End(why)
    BY <2>1, EndType DEF Kinds
  <2>2. CASE UNCHANGED <<wire, stream, turn, raw, asking>>
    BY <2>2 DEF TypeOK, asking
  <2> QED BY <1>8, <2>1, <2>2 DEF CountInput
<1>9. CASE ReserveAttempt
  <2>1. CASE \E why \in {"stopped", "call_limit"} : End(why)
    BY <2>1, EndType DEF Kinds
  <2>2. CASE /\ Len(rows) < MaxCalls
             /\ rows' = Append(rows, [settled |-> FALSE, cost |-> Reserve])
             /\ UNCHANGED <<wire, stream, policy, turn, raw, held, memory, desk, acts, stop>>
    <3>1. rows' \in Seq(LedgerRow) /\ Len(rows') <= MaxCalls
      BY <2>2 DEF TypeOK, LedgerRow
    <3> QED BY <2>2, <3>1 DEF TypeOK
  <2> QED BY <1>9, <2>1, <2>2 DEF ReserveAttempt
<1>10. CASE Post
  <2>1. CASE \E retryable \in BOOLEAN, began \in {0, 1} : ProviderFails(retryable, began)
    BY <2>1, FailureType
  <2>2. CASE /\ stream' = Opened /\ turn' = [turn EXCEPT !.began = @ + 1]
             /\ UNCHANGED <<wire, raw, asking>>
    <3>1. turn' \in Turn
      <4>1. turn.began + 1 \in Nat
        BY TurnFields
      <4> QED BY <2>2, <4>1, TurnEdits
    <3> QED BY <2>2, <3>1, FreshStreams DEF TypeOK, asking
  <2>3. CASE \E failure \in {"unsent", "transient", "permanent", "lost"} :
               ProviderFails(Retryable(failure), IF failure = "lost" THEN 1 ELSE 0)
    <3>1. PICK failure \in {"unsent", "transient", "permanent", "lost"} :
             ProviderFails(Retryable(failure), IF failure = "lost" THEN 1 ELSE 0)
      BY <2>3
    <3>2. Retryable(failure) \in BOOLEAN /\ (IF failure = "lost" THEN 1 ELSE 0) \in {0, 1}
      BY DEF Retryable
    <3> QED BY <2>1, <3>1, <3>2
  <2> QED BY <1>10, <2>1, <2>2, <2>3 DEF Post
<1>11. CASE Receive
  <2>1. stream' \in Stream
    BY <1>11, EventKeepsStream DEF Receive, TypeOK, IInv
  <2> QED BY <1>11, <2>1 DEF Receive, TypeOK, asking
<1>12. CASE StreamFails
  BY <1>12, FailureType DEF StreamFails
<1>13. CASE Settle
  <2>1. CASE End("provider_failed")
    BY <2>1, EndType DEF Kinds
  <2>2. CASE ~End("provider_failed")
    <3> DEFINE row == [settled |-> TRUE, cost |-> UsageCost]
    <3>1. /\ rows' = [rows EXCEPT ![Len(rows)] = row]
          /\ UNCHANGED <<wire, stream, policy, turn, raw, held, memory, desk, acts, stop>>
      BY <1>13, <2>2 DEF Settle
    <3>2. row \in LedgerRow
      BY DEF LedgerRow, UsageCost
    <3> HIDE DEF row
    <3>3. rows' \in Seq(LedgerRow) /\ Len(rows') = Len(rows)
      <4>1. rows \in Seq(LedgerRow)
        BY DEF TypeOK
      <4>2. CASE Len(rows) \in DOMAIN rows
        BY <3>1, <3>2, <4>1, <4>2
      <4>3. CASE Len(rows) \notin DOMAIN rows
        <5>1. rows' = rows
          BY <3>1, <4>1, <4>3
        <5> QED BY <4>1, <5>1
      <4> QED BY <4>2, <4>3
    <3> QED BY <3>1, <3>3 DEF TypeOK
  <2> QED BY <2>1, <2>2
<1>14. CASE ReadAnswer
  <2>1. held' \in Nat
    BY <1>14 DEF ReadAnswer, TurnHeld, TypeOK
  <2>2. CASE /\ \E op \in Operation(Decision, "model") :
                  raw' = op /\ memory' = Proposed(memory, op.edit)
             /\ UNCHANGED stream
    <3>1. PICK op \in Operation(Decision, "model") :
            raw' = op /\ memory' = Proposed(memory, op.edit)
      BY <2>2
    <3>2. op \in Op
      BY <1>d, OperationTypes DEF Actors
    <3>3. memory' \in Memory
      BY <3>1, <3>2, MemoryOps DEF TypeOK, Op
    <3> QED BY <1>14, <2>1, <2>2, <3>1, <3>2, <3>3 DEF ReadAnswer, TypeOK
  <2>3. CASE /\ raw' = [Nothing EXCEPT !.kind = "unread", !.by = "model"]
             /\ stream' = NoStream /\ UNCHANGED memory
    <3>1. raw' \in Op
      BY <2>3, OperationTypes DEF Kinds, Actors
    <3> QED BY <1>14, <2>1, <2>3, <3>1, FreshStreams DEF ReadAnswer, TypeOK
  <2> QED BY <1>14, <2>2, <2>3 DEF ReadAnswer
<1>15. CASE ReadHelper
  <2> DEFINE u == [turn EXCEPT !.helpers = @ + 1, !.reads = @ + 1]
  <2>1. u \in Turn
    <3>1. turn.helpers + 1 \in 0 .. MaxHelpers /\ turn.reads + 1 \in Nat
      BY <1>15, TurnFields DEF ReadHelper, HelperAllowed
    <3> QED BY <3>1, TurnEdits
  <2>2. turn' \in Turn
    BY <1>15, <2>1, ExchangedTurn DEF ReadHelper
  <2>3. memory' \in Memory
    BY <1>15, MemoryOps DEF ReadHelper, TypeOK
  <2> QED BY <1>15, <2>2, <2>3 DEF ReadHelper, Judging, TypeOK
<1>16. CASE NoteHelper
  <2> DEFINE u == [turn EXCEPT !.helpers = @ + 1]
  <2>1. u \in Turn
    <3>1. turn.helpers + 1 \in 0 .. MaxHelpers
      BY <1>16, TurnFields DEF NoteHelper, HelperAllowed
    <3> QED BY <3>1, TurnEdits
  <2>2. turn' \in Turn
    BY <1>16, <2>1, ExchangedTurn DEF NoteHelper
  <2>3. memory' \in Memory
    BY <1>16, MemoryOps DEF NoteHelper, TypeOK, Op
  <2> QED BY <1>16, <2>2, <2>3 DEF NoteHelper, Judging, TypeOK
<1>17. CASE Aborts
  BY <1>17, EndType DEF Aborts, Kinds
<1>18. CASE Accepts
  <2>1. memory' \in Memory
    BY <1>18, MemoryOps DEF Accepts, TypeOK, Op
  <2> QED BY <1>18, <2>1 DEF Accepts, Judging, TypeOK
<1>19. CASE Rejects
  <2>1. CASE End("protocol_failure")
    BY <2>1, EndType DEF Kinds
  <2>2. CASE ~End("protocol_failure")
    <3> DEFINE u == [turn EXCEPT !.invalid = Rejections]
    <3>1. u \in Turn
      <4>1. turn.invalid + 1 \in Nat
        BY TurnFields
      <4> QED BY <4>1, TurnEdits DEF Rejections
    <3>2. turn' \in Turn
      BY <1>19, <2>2, <3>1, ExchangedTurn DEF Rejects
    <3>3. memory' \in Memory
      BY <1>19, <2>2, MemoryOps DEF Rejects, TypeOK
    <3> QED BY <1>19, <2>2, <3>2, <3>3 DEF Rejects, Judging, TypeOK
  <2> QED BY <2>1, <2>2
<1>20. CASE NativeCommits
  <2> DEFINE act == [by |-> raw.by, signed |-> Signature, obs |-> raw.obs,
                     edit |-> raw.edit, reads |-> turn.reads]
  <2>1. act \in Act
    BY DEF TypeOK, Op, Turn, Act, Signature
  <2>2. acts' = Append(acts, act)
    BY <1>20 DEF NativeCommits
  <2> HIDE DEF act
  <2>3. acts' \in Seq(Act)
    BY <2>1, <2>2 DEF TypeOK
  <2>4. memory' \in Memory
    BY <1>20, CommittedMemory DEF NativeCommits, TypeOK
  <2>5. policy' \in [kind : {"model", "human", "override"}, left : Nat]
    <3>1. policy.left > 0 => policy.left - 1 \in Nat
      BY DEF TypeOK
    <3> QED BY <1>20, <3>1 DEF NativeCommits, TypeOK
  <2> QED
    BY <1>20, <2>3, <2>4, <2>5, NewTurns, FreshStreams, OperationTypes
    DEF NativeCommits, TypeOK
<1>21. CASE NativeFails
  BY <1>21, EndType DEF NativeFails, Kinds
<1> QED
  BY <1>1, <1>2, <1>3, <1>4, <1>5, <1>6, <1>7, <1>8, <1>9, <1>10, <1>11, <1>12, <1>13, <1>14,
     <1>15, <1>16, <1>17, <1>18, <1>19, <1>20, <1>21 DEF Next

-----------------------------------------------------------------------------
(***************************************************************************)
(* What a memory tells, kept aside from what it shows.                     *)

SameStory(m, r) == r.pending = m.pending /\ r.frames = m.frames /\ r.omitted = m.omitted
SameHelpers(m, r) == r.kept = m.kept /\ r.dropped = m.dropped

\* Notes and links leave the story alone; a helper is kept or counted.
LEMMA MemoryEffects ==
  ASSUME NEW m \in Memory
  PROVE  /\ SameStory(m, Unlinked(m)) /\ SameHelpers(m, Unlinked(m))
         /\ Unlinked(m).saved = "keep" /\ Unlinked(m).text = m.text
         /\ \A edit \in Edits :
              /\ SameStory(m, NoteSaved(m, edit)) /\ SameHelpers(m, NoteSaved(m, edit))
              /\ NoteSaved(m, edit).saved = edit
              /\ NoteSaved(m, edit).proposal = m.proposal
         /\ \A edit \in Edits :
              /\ SameStory(m, Proposed(m, edit)) /\ SameHelpers(m, Proposed(m, edit))
              /\ Proposed(m, edit).saved = "keep" /\ Proposed(m, edit).proposal = edit
         /\ \A fits \in BOOLEAN :
              /\ SameStory(m, HelperKept(m, fits))
              /\ HelperKept(m, fits).kept + HelperKept(m, fits).dropped = m.kept + m.dropped + 1
              /\ HelperKept(m, fits).saved = "keep"
<1> USE DEF SameStory, SameHelpers
<1>1. /\ SameStory(m, Unlinked(m)) /\ SameHelpers(m, Unlinked(m))
      /\ Unlinked(m).saved = "keep" /\ Unlinked(m).text = m.text
  BY DEF Memory, Unlinked
<1>2. ASSUME NEW edit \in Edits
      PROVE  /\ SameStory(m, NoteSaved(m, edit)) /\ SameHelpers(m, NoteSaved(m, edit))
             /\ NoteSaved(m, edit).saved = edit /\ NoteSaved(m, edit).proposal = m.proposal
  BY DEF Memory, NoteSaved
<1>3. ASSUME NEW edit \in Edits
      PROVE  /\ SameStory(m, Proposed(m, edit)) /\ SameHelpers(m, Proposed(m, edit))
             /\ Proposed(m, edit).saved = "keep" /\ Proposed(m, edit).proposal = edit
  BY DEF Memory, Proposed
<1>4. ASSUME NEW fits \in BOOLEAN
      PROVE  /\ SameStory(m, HelperKept(m, fits))
             /\ HelperKept(m, fits).kept + HelperKept(m, fits).dropped = m.kept + m.dropped + 1
             /\ HelperKept(m, fits).saved = "keep"
  <2> DEFINE u == Unlinked(m)
  <2>1. /\ u \in Memory /\ u.kept = m.kept /\ u.dropped = m.dropped /\ u.saved = "keep"
        /\ u.pending = m.pending /\ u.frames = m.frames /\ u.omitted = m.omitted
        /\ m.kept \in Nat /\ m.dropped \in Nat
    BY <1>1, MemoryOps DEF Memory
  <2>2. HelperKept(m, fits) = [u EXCEPT !.kept = @ + 1]
          \/ HelperKept(m, fits) = [u EXCEPT !.dropped = @ + 1]
    BY DEF HelperKept
  <2> HIDE DEF u
  <2>3. CASE HelperKept(m, fits) = [u EXCEPT !.kept = @ + 1]
    BY <2>1, <2>3, SMTT(30) DEF Memory
  <2>4. CASE HelperKept(m, fits) = [u EXCEPT !.dropped = @ + 1]
    BY <2>1, <2>4, SMTT(30) DEF Memory
  <2> QED BY <2>2, <2>3, <2>4
<1> QED BY <1>1, <1>2, <1>3, <1>4

\* A step that adds no frame and commits nothing leaves the story true.
LEMMA StoryRests ==
  ASSUME FramesOfActs, MemoryIsHonest, SameStory(memory, memory'), UNCHANGED acts
  PROVE  FramesOfActs' /\ MemoryIsHonest'
BY DEF FramesOfActs, MemoryIsHonest, SameStory

\* An observation moves the frame that waits to the others: the same story.
LEMMA StoryMoves ==
  ASSUME TypeOK, FramesOfActs, MemoryIsHonest, UNCHANGED acts,
         NEW n \in Pruned(memory), memory' = Observed(memory, n)
  PROVE  FramesOfActs' /\ MemoryIsHonest'
<1> DEFINE told == {memory.pending} \cup {memory.frames[i] : i \in DOMAIN memory.frames}
<1>1. /\ memory'.pending = NoFrame
      /\ Len(memory'.frames) + memory'.omitted =
           Len(memory.frames) + memory.omitted + (IF memory.pending = NoFrame THEN 0 ELSE 1)
      /\ \A i \in DOMAIN memory'.frames : memory'.frames[i] \in told
  BY ObservedMemory DEF TypeOK
<1>2. \A f \in told : f # NoFrame =>
        /\ f.decision \in DOMAIN acts
        /\ f.note = acts[f.decision].edit /\ f.kept + f.dropped = acts[f.decision].reads
  BY DEF FramesOfActs, MemoryIsHonest
<1> DEFINE telling == {memory'.pending} \cup {memory'.frames[i] : i \in DOMAIN memory'.frames}
<1>3. \A f \in telling : f = NoFrame \/ f \in told
  BY <1>1
<1> HIDE DEF told, telling
<1>4. \A f \in telling : f # NoFrame =>
        /\ f.decision \in DOMAIN acts'
        /\ f.note = acts'[f.decision].edit /\ f.kept + f.dropped = acts'[f.decision].reads
  BY <1>2, <1>3
<1>5. FramesOfActs'
  BY <1>4 DEF FramesOfActs, telling
<1>6. Len(memory'.frames) + memory'.omitted + (IF memory'.pending = NoFrame THEN 0 ELSE 1)
        = Len(acts')
  <2> DEFINE all == Len(memory.frames) + memory.omitted
                      + (IF memory.pending = NoFrame THEN 0 ELSE 1)
  <2>1. all = Len(acts) /\ Len(acts) \in Nat
    BY DEF MemoryIsHonest, TypeOK
  <2>2. Len(memory'.frames) + memory'.omitted = Len(acts)
    BY <1>1, <2>1
  <2> QED BY <1>1, <2>1, <2>2
<1>7. \A f \in telling : f # NoFrame =>
        f.note = acts'[f.decision].edit /\ f.kept + f.dropped = acts'[f.decision].reads
  BY <1>4
<1> QED BY <1>5, <1>6, <1>7 DEF MemoryIsHonest, telling

\* A committed action is told by the frame that waits.
LEMMA StoryGrows ==
  ASSUME TypeOK, FramesOfActs, MemoryIsHonest, memory.pending = NoFrame,
         NEW act \in Act, acts' = Append(acts, act), memory' = Committed(memory),
         memory.saved = act.edit, memory.proposal = act.edit,
         memory.kept + memory.dropped = act.reads
  PROVE  FramesOfActs' /\ MemoryIsHonest'
<1> DEFINE frame == [decision |-> Decision, note |-> Receipt(memory), kept |-> memory.kept,
                     dropped |-> memory.dropped]
           told == {memory.frames[i] : i \in DOMAIN memory.frames}
<1>1. /\ memory'.pending = frame /\ memory'.frames = memory.frames
      /\ memory'.omitted = memory.omitted
  BY CommittedMemory DEF TypeOK
<1>2. /\ Decision = Len(acts) + 1 /\ Len(acts) \in Nat
      /\ DOMAIN acts = 1 .. Len(acts) /\ DOMAIN acts' = 1 .. Len(acts) + 1
      /\ Len(acts') = Len(acts) + 1
      /\ acts'[Decision] = act /\ \A d \in DOMAIN acts : acts'[d] = acts[d]
  BY DEF Decision, TypeOK
<1>3. /\ frame.decision = Decision /\ frame.note = act.edit
      /\ frame.kept + frame.dropped = act.reads
  BY DEF Receipt
<1>4. frame # NoFrame
  <2>1. NoFrame.decision = 0
    BY DEF NoFrame
  <2> QED BY <1>2, <1>3, <2>1
<1>5. \A f \in told : f # NoFrame =>
        /\ f.decision \in DOMAIN acts
        /\ f.note = acts[f.decision].edit /\ f.kept + f.dropped = acts[f.decision].reads
  BY DEF FramesOfActs, MemoryIsHonest
<1> HIDE DEF frame
<1>6. \A f \in {frame} \cup told : f # NoFrame =>
        /\ f.decision \in DOMAIN acts'
        /\ f.note = acts'[f.decision].edit /\ f.kept + f.dropped = acts'[f.decision].reads
  <2>1. frame.decision \in DOMAIN acts'
    BY <1>2, <1>3
  <2> HIDE DEF told
  <2>2. ASSUME NEW f \in told, f # NoFrame
        PROVE  /\ f.decision \in DOMAIN acts'
               /\ f.note = acts'[f.decision].edit
               /\ f.kept + f.dropped = acts'[f.decision].reads
    <3>1. f.decision \in DOMAIN acts
      BY <1>5, <2>2
    <3>2. f.decision \in DOMAIN acts' /\ acts'[f.decision] = acts[f.decision]
      BY <1>2, <3>1
    <3> QED BY <1>5, <2>2, <3>2
  <2> QED BY <1>2, <1>3, <2>1, <2>2
<1>7. {memory'.pending} \cup {memory'.frames[i] : i \in DOMAIN memory'.frames} = {frame} \cup told
  BY <1>1
<1>8. Len(memory'.frames) + memory'.omitted + (IF memory'.pending = NoFrame THEN 0 ELSE 1)
        = Len(acts')
  <2>1. Len(memory.frames) + memory.omitted = Len(acts)
    <3>1. Len(memory.frames) \in Nat /\ memory.omitted \in Nat
      BY DEF TypeOK, Memory
    <3> QED BY <3>1 DEF MemoryIsHonest
  <2> QED BY <1>1, <1>2, <1>4, <2>1
<1> HIDE DEF told
<1>9. FramesOfActs'
  BY <1>6, <1>7 DEF FramesOfActs
<1> QED BY <1>6, <1>7, <1>8, <1>9 DEF MemoryIsHonest

-----------------------------------------------------------------------------
(***************************************************************************)
(* The invariant, action by action.                                        *)

Ends == \E why \in Kinds : End(why)

\* The run ends: nothing is in hand any more.
LEMMA EndKeeps ==
  ASSUME TypeOK, IInv, Ends
  PROVE  IInv'
<1> PICK why \in Kinds : End(why)
  BY DEF Ends
<1>1. /\ CountsFinal' /\ AnswerInHand' /\ SettledAtTheBill'
  BY DEF End, IInv, CountsFinal, AnswerInHand, SettledAtTheBill, NoStream
<1>2. /\ turn'.began = 0 /\ turn'.exchanges = <<>> /\ turn'.sealed = 0
      /\ turn'.shown = turn'.sent
  BY DEF End, NewTurn
<1>3. NotYetAccepted' /\ OneActor' /\ OwnExchanges' /\ ShownIsSent'
  BY <1>2 DEF End, IInv, NotYetAccepted, Asking, OneActor, OwnExchanges, ShownIsSent
<1>4. /\ ActionInHand' /\ ActsAreTheirActors' /\ PendingBetween' /\ HelpersCounted'
  BY DEF End, IInv, ActionInHand, ActsAreTheirActors, PendingBetween, HelpersCounted
<1>5. FramesOfActs' /\ MemoryIsHonest'
  BY DEF End, IInv, FramesOfActs, MemoryIsHonest
<1> QED BY <1>1, <1>3, <1>4, <1>5 DEF IInv

\* A new observation opens a decision with nothing exchanged, and the memory
\* keeps the frame that waited.
LEMMA ObserveKeeps ==
  ASSUME TypeOK, IInv, Observe, ~Ends
  PROVE  IInv'
<1> USE DEF IInv
<1>0. /\ place = "between" /\ place' = "turning"
      /\ turn' = NewTurn /\ \E n \in Pruned(memory) : memory' = Observed(memory, n)
      /\ UNCHANGED <<wire, stream, policy, raw, held, rows, desk, acts, stop>>
  BY DEF Observe, Ends, Kinds
<1>1. /\ turn'.began = 0 /\ turn'.exchanges = <<>> /\ turn'.sealed = 0 /\ turn'.reads = 0
      /\ turn'.shown = turn'.sent
  BY <1>0 DEF NewTurn
<1>2. CountsFinal' /\ AnswerInHand' /\ SettledAtTheBill'
  BY <1>0 DEF CountsFinal, AnswerInHand, SettledAtTheBill
<1>3. NotYetAccepted' /\ OneActor' /\ OwnExchanges' /\ ShownIsSent'
  BY <1>0, <1>1 DEF NotYetAccepted, Asking, OneActor, OwnExchanges, ShownIsSent
<1>4. ActionInHand' /\ ActsAreTheirActors'
  BY <1>0 DEF ActionInHand, ActsAreTheirActors
<1>5. PendingBetween' /\ HelpersCounted'
  BY <1>0, <1>1, ObservedMemory DEF PendingBetween, HelpersCounted, TypeOK
<1>6. FramesOfActs' /\ MemoryIsHonest'
  BY <1>0, StoryMoves
<1> QED BY <1>2, <1>3, <1>4, <1>5, <1>6

\* The actor is noted, and shown its own exchanges and the status of now.
LEMMA StartTurnKeeps ==
  ASSUME TypeOK, IInv, StartTurn, ~Ends
  PROVE  IInv'
<1> USE DEF IInv
<1> DEFINE t == Delivered(ActorTurn(turn))
<1>0. /\ place = "turning"
      /\ turn' = [t EXCEPT !.signed = Actor, !.attempt = 1, !.began = 0]
      /\ held' = IF turn.actor \in {"nobody", Actor} THEN held ELSE 0
      /\ place' = IF Actor = "model" THEN "counting" ELSE "waiting"
      /\ desk' = IF Actor = "human" THEN [desk EXCEPT !.shown = Decision] ELSE desk
      /\ raw' = Nothing /\ stream' = NoStream
      /\ UNCHANGED <<wire, policy, rows, memory, acts, stop>>
  BY DEF StartTurn, Ends, Kinds
<1>1. /\ t \in Turn
      /\ t.actor = Actor /\ t.reads = turn.reads /\ t.helpers = turn.helpers
      /\ t.shown = t.sent /\ t.sent = Status(turn.helpers)
      /\ t.sealed = Len(t.exchanges)
      /\ t.exchanges = <<>> \/ (t.exchanges = turn.exchanges /\ turn.actor = Actor)
  BY DeliveredTurn DEF ShownIsSent
<1> HIDE DEF t
<1>2. /\ turn'.actor = Actor /\ turn'.signed = Actor /\ turn'.began = 0
      /\ turn'.reads = turn.reads /\ turn'.helpers = turn.helpers
      /\ turn'.exchanges = t.exchanges /\ turn'.sealed = t.sealed
      /\ turn'.shown = t.shown /\ turn'.sent = t.sent
  BY <1>0, <1>1 DEF Turn
<1>3. Actor' = Actor /\ Actor \in {"model", "human", "override"}
  BY <1>0, ActorTypes DEF Actor
<1>4. CountsFinal' /\ AnswerInHand' /\ SettledAtTheBill'
  BY <1>0 DEF CountsFinal, NoStream, AnswerInHand, SettledAtTheBill
<1>5. NotYetAccepted'
  BY <1>2 DEF NotYetAccepted
<1>6. OneActor'
  <2>1. desk'.queue = desk.queue /\ desk'.carried = desk.carried
    BY <1>0 DEF TypeOK
  <2> QED BY <1>0, <1>2, <1>3, <2>1 DEF OneActor, Asking
<1>7. OwnExchanges'
  <2>1. \A i \in DOMAIN t.exchanges :
          t.exchanges[i].by = Actor /\ t.exchanges[i].turn \in {0, t.exchanges[i].answer}
    BY <1>1 DEF OwnExchanges
  <2>2. t.exchanges = <<>> => t.sealed = 0
    BY <1>1
  <2> QED BY <1>0, <1>2, <1>3, <2>1, <2>2 DEF OwnExchanges
<1>8. ShownIsSent'
  <2>1. /\ turn'.sent.helpers = MaxHelpers - turn'.helpers
        /\ turn'.sent.text = memory'.text
    BY <1>0, <1>1, <1>2, StatusTypes, TurnFields
  <2> QED BY <1>1, <1>2, <2>1 DEF ShownIsSent
<1>9. ActionInHand' /\ ActsAreTheirActors' /\ PendingBetween' /\ HelpersCounted'
  BY <1>0, <1>2 DEF ActionInHand, ActsAreTheirActors, PendingBetween, HelpersCounted
<1>10. FramesOfActs' /\ MemoryIsHonest'
  BY <1>0 DEF FramesOfActs, MemoryIsHonest
<1> QED BY <1>4, <1>5, <1>6, <1>7, <1>8, <1>9, <1>10

\* An override's operation is the override's.
LEMMA TakeOverrideKeeps ==
  ASSUME TypeOK, IInv, TakeOverride
  PROVE  IInv'
<1> USE DEF IInv
<1>0. /\ place = "waiting" /\ Actor = "override" /\ place' = "judging"
      /\ memory' = Proposed(memory, "keep")
      /\ UNCHANGED <<wire, stream, turn, held, rows, desk, acts, stop>>
  BY DEF TakeOverride
<1>1. raw'.kind = "act" /\ raw'.edit = "keep" /\ raw'.by = "override"
  BY DEF TakeOverride, Nothing
<1>2. /\ SameStory(memory, memory') /\ SameHelpers(memory, memory')
      /\ memory'.saved = "keep" /\ memory'.proposal = "keep"
  BY <1>0, MemoryEffects DEF TypeOK, Edits
<1>3. turn.actor = "override" /\ turn.signed = "override"
  BY <1>0 DEF OneActor
<1>4. CountsFinal' /\ AnswerInHand' /\ SettledAtTheBill'
  BY <1>0, <1>1 DEF CountsFinal, AnswerInHand, SettledAtTheBill
<1>5. NotYetAccepted' /\ OneActor' /\ OwnExchanges' /\ ShownIsSent'
  BY <1>0, <1>1, <1>3 DEF NotYetAccepted, OneActor, OwnExchanges, ShownIsSent, Asking
<1>6. ActionInHand' /\ ActsAreTheirActors'
  BY <1>0, <1>1, <1>2 DEF ActionInHand, ActsAreTheirActors
<1>7. PendingBetween' /\ HelpersCounted'
  BY <1>0, <1>2 DEF PendingBetween, HelpersCounted, SameStory, SameHelpers
<1>8. FramesOfActs' /\ MemoryIsHonest'
  BY <1>0, <1>2, StoryRests
<1> QED BY <1>4, <1>5, <1>6, <1>7, <1>8

\* What leaves the desk's queue is the human's.
LEMMA TakeHumanKeeps ==
  ASSUME TypeOK, IInv, TakeHuman, ~Ends
  PROVE  IInv'
<1> USE DEF IInv
<1>0. /\ place = "waiting" /\ Actor = "human" /\ place' = "judging"
      /\ desk.queue # Nothing /\ raw' = desk.queue
      /\ desk' = [desk EXCEPT !.queue = Nothing, !.shown = 0]
      /\ memory' = Proposed(memory, desk.queue.edit)
      /\ UNCHANGED <<wire, stream, policy, turn, held, rows, acts, stop>>
  BY DEF TakeHuman, Ends, Kinds
<1>1. /\ raw'.by = "human" /\ desk.queue.edit \in Edits
      /\ desk'.queue = Nothing /\ desk'.carried = desk.carried
  BY <1>0 DEF OneActor, TypeOK, Op
<1>2. /\ SameStory(memory, memory') /\ SameHelpers(memory, memory')
      /\ memory'.saved = "keep" /\ memory'.proposal = raw'.edit
  BY <1>0, <1>1, MemoryEffects, SMTT(30) DEF TypeOK
<1>3. turn.actor = "human" /\ turn.signed = "human"
  BY <1>0 DEF OneActor
<1>4. CountsFinal' /\ AnswerInHand' /\ SettledAtTheBill'
  BY <1>0, <1>1 DEF CountsFinal, AnswerInHand, SettledAtTheBill
<1>5. NotYetAccepted' /\ OneActor' /\ OwnExchanges' /\ ShownIsSent'
  BY <1>0, <1>1, <1>3 DEF NotYetAccepted, OneActor, OwnExchanges, ShownIsSent, Asking
<1>6. ActionInHand' /\ ActsAreTheirActors'
  BY <1>0, <1>2 DEF ActionInHand, ActsAreTheirActors
<1>7. PendingBetween' /\ HelpersCounted'
  BY <1>0, <1>2 DEF PendingBetween, HelpersCounted, SameStory, SameHelpers
<1>8. FramesOfActs' /\ MemoryIsHonest'
  BY <1>0, <1>2, StoryRests
<1> QED BY <1>4, <1>5, <1>6, <1>7, <1>8

\* The desk and the operator touch nothing of the decision.
LEMMA AsideKeeps ==
  ASSUME TypeOK, IInv, HumanComposes \/ HumanQueues \/ OperatorStops
  PROVE  IInv'
<1> USE DEF IInv
<1>0. UNCHANGED <<wire, stream, policy, place, turn, raw, held, rows, memory, acts>>
  BY DEF HumanComposes, HumanQueues, OperatorStops
<1>1. CountsFinal' /\ AnswerInHand' /\ SettledAtTheBill'
  BY <1>0 DEF CountsFinal, AnswerInHand, WholeCall, ToolCalls, SettledAtTheBill
<1>2. OneActor'
  <2>1. \A op \in {desk'.queue, desk'.carried} : op # Nothing => op.by = "human"
    <3>1. CASE HumanComposes
      <4>1. PICK op \in Operation(desk.shown, "human") : desk' = [desk EXCEPT !.carried = op]
        BY <3>1 DEF HumanComposes
      <4>2. op.by = "human"
        BY <3>1, OperationTypes DEF HumanComposes, TypeOK, Actors
      <4> QED BY <4>1, <4>2 DEF OneActor, TypeOK
    <3>2. CASE HumanQueues
      BY <3>2 DEF HumanQueues, OneActor, TypeOK
    <3>3. CASE OperatorStops
      BY <3>3 DEF OperatorStops, OneActor
    <3> QED BY <3>1, <3>2, <3>3
  <2> QED BY <1>0, <2>1 DEF OneActor, Asking, Actor
<1>3. NotYetAccepted' /\ OwnExchanges' /\ ShownIsSent'
  BY <1>0 DEF NotYetAccepted, OwnExchanges, ShownIsSent, Asking
<1>4. ActionInHand' /\ ActsAreTheirActors' /\ PendingBetween' /\ HelpersCounted'
  BY <1>0 DEF ActionInHand, Decision, ActsAreTheirActors, PendingBetween, HelpersCounted
<1>5. FramesOfActs' /\ MemoryIsHonest'
  BY <1>0 DEF FramesOfActs, MemoryIsHonest
<1> QED BY <1>1, <1>2, <1>3, <1>4, <1>5

Requesting == Asking \cup {"receiving", "answered"}

\* Along a request the operation, the memory and the actions rest, and who is
\* asked with them.
RequestGoesOn ==
  /\ place \in Requesting /\ place' \in Requesting
  /\ turn'.actor = turn.actor /\ turn'.signed = turn.signed
  /\ turn'.exchanges = turn.exchanges /\ turn'.sealed = turn.sealed
  /\ turn'.reads = turn.reads /\ turn'.helpers = turn.helpers
  /\ turn'.shown = turn.shown /\ turn'.sent = turn.sent
  /\ place' \in Asking => place \in Asking
  /\ UNCHANGED <<wire, policy, raw, held, memory, desk, acts, stop>>

\* A request that goes on keeps all but what is said of its row and stream.
LEMMA RequestKeeps ==
  ASSUME TypeOK, IInv, RequestGoesOn
  PROVE  /\ AnswerInHand' /\ OneActor' /\ OwnExchanges' /\ ShownIsSent'
         /\ ActionInHand' /\ ActsAreTheirActors' /\ PendingBetween' /\ HelpersCounted'
         /\ FramesOfActs' /\ MemoryIsHonest'
<1> USE DEF IInv, RequestGoesOn, Requesting, Asking
<1>1. AnswerInHand' /\ ActionInHand' /\ ActsAreTheirActors' /\ PendingBetween' /\ HelpersCounted'
  BY DEF AnswerInHand, ActionInHand, ActsAreTheirActors, PendingBetween, HelpersCounted
<1>2. OneActor'
  BY DEF OneActor, Actor
<1>3. OwnExchanges' /\ ShownIsSent'
  BY DEF OwnExchanges, ShownIsSent
<1>4. FramesOfActs' /\ MemoryIsHonest'
  BY DEF FramesOfActs, MemoryIsHonest
<1> QED BY <1>1, <1>2, <1>3, <1>4

\* The free count changes nothing.
LEMMA CountInputKeeps ==
  ASSUME TypeOK, IInv, CountInput, ~Ends
  PROVE  IInv'
<1>0. place = "counting" /\ place' = "reserving" /\ UNCHANGED <<wire, stream, turn, raw, asking>>
  BY DEF CountInput, Ends, Kinds
<1>1. RequestGoesOn
  BY <1>0 DEF RequestGoesOn, Requesting, Asking, asking
<1>2. CountsFinal' /\ SettledAtTheBill' /\ NotYetAccepted'
  BY <1>0 DEF IInv, CountsFinal, SettledAtTheBill, NotYetAccepted, Asking, asking
<1> QED BY <1>1, <1>2, RequestKeeps DEF IInv

\* A row begins at its reservation.
LEMMA ReserveAttemptKeeps ==
  ASSUME TypeOK, IInv, ReserveAttempt, ~Ends
  PROVE  IInv'
<1>0. /\ place = "reserving" /\ place' = "posting"
      /\ rows' = Append(rows, [settled |-> FALSE, cost |-> Reserve])
      /\ UNCHANGED <<wire, stream, policy, turn, raw, held, memory, desk, acts, stop>>
  BY DEF ReserveAttempt, Ends, Kinds
<1>1. RequestGoesOn
  BY <1>0 DEF RequestGoesOn, Requesting, Asking
<1>2. CountsFinal' /\ NotYetAccepted'
  BY <1>0 DEF IInv, CountsFinal, NotYetAccepted, Asking
<1>3. SettledAtTheBill'
  <2> DEFINE row == [settled |-> FALSE, cost |-> Reserve]
  <2>1. \A i \in DOMAIN rows' : (i \in DOMAIN rows /\ rows'[i] = rows[i]) \/ rows'[i] = row
    BY <1>0, SMTT(30) DEF TypeOK
  <2>2. ~row.settled /\ row.cost = Reserve
    OBVIOUS
  <2> HIDE DEF row
  <2> QED BY <2>1, <2>2 DEF IInv, SettledAtTheBill
<1> QED BY <1>1, <1>2, <1>3, RequestKeeps DEF IInv

\* Only a request that cannot have been accepted is tried again, so that the
\* attempt that is accepted is the last.
LEMMA FailureKeeps ==
  ASSUME TypeOK, IInv, ~Ends, NEW retryable \in BOOLEAN, NEW began \in {0, 1},
         ProviderFails(retryable, began),
         retryable => place = "posting" /\ began = 0
  PROVE  IInv'
<1>0. /\ place = "posting" /\ place' = "reserving" /\ began = 0
      /\ turn' = [turn EXCEPT !.attempt = @ + 1, !.began = @ + began]
      /\ stream' = NoStream /\ UNCHANGED <<wire, raw, asking>>
  BY DEF ProviderFails, Ends, Kinds
<1>1. /\ turn'.began = turn.began
      /\ turn'.actor = turn.actor /\ turn'.signed = turn.signed
      /\ turn'.exchanges = turn.exchanges /\ turn'.sealed = turn.sealed
      /\ turn'.reads = turn.reads /\ turn'.helpers = turn.helpers
      /\ turn'.shown = turn.shown /\ turn'.sent = turn.sent
  BY <1>0, TurnFields DEF Turn
<1>2. RequestGoesOn
  BY <1>0, <1>1 DEF RequestGoesOn, Requesting, Asking, asking
<1>3. CountsFinal' /\ SettledAtTheBill' /\ NotYetAccepted'
  BY <1>0, <1>1 DEF IInv, CountsFinal, NoStream, SettledAtTheBill, NotYetAccepted, Asking, asking
<1> QED BY <1>2, <1>3, RequestKeeps DEF IInv

\* A request that is answered is the one attempt that began.
LEMMA PostKeeps ==
  ASSUME TypeOK, IInv, Post, ~Ends
  PROVE  IInv'
<1>1. CASE stop /\ ProviderFails(FALSE, 0)
  BY <1>1, FailureKeeps
<1>2. CASE \E failure \in {"unsent", "transient", "permanent", "lost"} :
             ProviderFails(Retryable(failure), IF failure = "lost" THEN 1 ELSE 0)
  <2>1. PICK failure \in {"unsent", "transient", "permanent", "lost"} :
               ProviderFails(Retryable(failure), IF failure = "lost" THEN 1 ELSE 0)
    BY <1>2
  <2>2. /\ Retryable(failure) \in BOOLEAN /\ (IF failure = "lost" THEN 1 ELSE 0) \in {0, 1}
        /\ Retryable(failure) => (IF failure = "lost" THEN 1 ELSE 0) = 0
    BY DEF Retryable
  <2>3. place = "posting"
    BY DEF Post
  <2> QED BY <2>1, <2>2, <2>3, FailureKeeps
<1>3. CASE /\ stream' = Opened /\ turn' = [turn EXCEPT !.began = @ + 1]
           /\ place' = "receiving" /\ UNCHANGED <<wire, raw, asking>>
  <2>0. place = "posting"
    BY DEF Post
  <2>1. /\ turn'.began = turn.began + 1
        /\ turn'.actor = turn.actor /\ turn'.signed = turn.signed
        /\ turn'.exchanges = turn.exchanges /\ turn'.sealed = turn.sealed
        /\ turn'.reads = turn.reads /\ turn'.helpers = turn.helpers
        /\ turn'.shown = turn.shown /\ turn'.sent = turn.sent
    BY <1>3, TurnFields DEF Turn
  <2>2. RequestGoesOn
    BY <1>3, <2>0, <2>1 DEF RequestGoesOn, Requesting, Asking, asking
  <2>3. NotYetAccepted'
    BY <1>3, <2>0, <2>1 DEF IInv, NotYetAccepted, Asking
  <2>4. CountsFinal' /\ SettledAtTheBill'
    <3>1. ~stream'.final /\ stream'.at = "open"
      BY <1>3 DEF Opened, NoStream
    <3> QED BY <1>3, <3>1 DEF IInv, CountsFinal, SettledAtTheBill, asking
  <2> QED BY <2>2, <2>3, <2>4, RequestKeeps DEF IInv
<1> QED BY <1>1, <1>2, <1>3 DEF Post

\* A frame of the stream.
LEMMA ReceiveKeeps ==
  ASSUME TypeOK, IInv, Receive
  PROVE  IInv'
<1>0. /\ place = "receiving" /\ Receiving /\ Event
      /\ UNCHANGED <<wire, place, turn, raw, asking>>
  BY DEF Receive
<1>1. RequestGoesOn
  BY <1>0 DEF RequestGoesOn, Requesting, Asking, asking
<1>2. CountsFinal'
  BY <1>0, EventKeepsStream DEF TypeOK, IInv
<1>3. SettledAtTheBill' /\ NotYetAccepted'
  BY <1>0 DEF IInv, SettledAtTheBill, NotYetAccepted, Asking, asking
<1> QED BY <1>1, <1>2, <1>3, RequestKeeps DEF IInv

\* A row is settled at a final count: what the provider bills.
LEMMA SettleKeeps ==
  ASSUME TypeOK, IInv, Settle, ~Ends
  PROVE  IInv'
<1>0. /\ place = "receiving" /\ place' = "answered" /\ stream.at = "done" /\ UsageKnown
      /\ rows' = [rows EXCEPT ![Len(rows)] = [settled |-> TRUE, cost |-> UsageCost]]
      /\ UNCHANGED <<wire, stream, policy, turn, raw, held, memory, desk, acts, stop>>
  BY DEF Settle, Ends, Kinds
<1>1. RequestGoesOn
  BY <1>0 DEF RequestGoesOn, Requesting, Asking
<1>2. CountsFinal' /\ NotYetAccepted'
  BY <1>0 DEF IInv, CountsFinal, NotYetAccepted, Asking
<1>3. SettledAtTheBill'
  <2> DEFINE row == [settled |-> TRUE, cost |-> UsageCost]
  <2>1. UsageCost = Truth
    BY <1>0 DEF UsageCost, UsageKnown, IInv, CountsFinal, TypeOK, Stream
  <2>2. row.settled /\ row.cost = Truth
    BY <2>1
  <2>3. rows' = [rows EXCEPT ![Len(rows)] = row]
    BY <1>0
  <2> HIDE DEF row
  <2>4. \A i \in DOMAIN rows' : i \in DOMAIN rows /\ rows'[i] \in {rows[i], row}
    BY <2>3
  <2> QED BY <2>2, <2>4 DEF IInv, SettledAtTheBill
<1> QED BY <1>1, <1>2, <1>3, RequestKeeps DEF IInv

\* An operation is read from one whole call, and its turn is the one kept.
LEMMA ReadAnswerKeeps ==
  ASSUME TypeOK, IInv, ReadAnswer
  PROVE  IInv'
<1> USE DEF IInv
<1>0. /\ place = "answered" /\ place' = "judging" /\ held' \in {0, Len(rows)}
      /\ UNCHANGED <<wire, policy, turn, rows, desk, acts, stop>>
      /\ turn.actor = "model" /\ turn.signed = "model"
  BY DEF ReadAnswer, TurnHeld, OneActor
<1>1. CASE /\ ParseCode = "call" /\ UNCHANGED stream
           /\ \E op \in Operation(Decision, "model") :
                 raw' = op /\ memory' = Proposed(memory, op.edit)
  <2>1. PICK op \in Operation(Decision, "model") :
               raw' = op /\ memory' = Proposed(memory, op.edit)
    BY <1>1
  <2>2. op \in Op /\ op.by = "model" /\ op.edit \in Edits
    <3>1. Decision \in Nat \ {0} /\ "model" \in Actors
      BY DEF Decision, TypeOK, Actors
    <3>2. op \in Op /\ op.by = "model"
      BY <3>1, OperationTypes
    <3> QED BY <3>2 DEF Op
  <2>3. /\ SameStory(memory, memory') /\ SameHelpers(memory, memory')
        /\ memory'.saved = "keep" /\ memory'.proposal = raw'.edit
    BY <2>1, <2>2, MemoryEffects DEF TypeOK
  <2>4. WholeCall
    BY <1>1 DEF ParseCode, WholeCall
  <2>5. CountsFinal' /\ AnswerInHand' /\ SettledAtTheBill'
    BY <1>0, <1>1, <2>4
    DEF CountsFinal, AnswerInHand, WholeCall, ToolCalls, SettledAtTheBill
  <2>6. NotYetAccepted' /\ OneActor' /\ OwnExchanges' /\ ShownIsSent'
    BY <1>0, <2>1, <2>2 DEF NotYetAccepted, OneActor, OwnExchanges, ShownIsSent, Asking
  <2>7. ActionInHand' /\ ActsAreTheirActors'
    BY <1>0, <2>3 DEF ActionInHand, ActsAreTheirActors
  <2>8. PendingBetween' /\ HelpersCounted'
    BY <1>0, <2>3 DEF PendingBetween, HelpersCounted, SameStory, SameHelpers
  <2>9. FramesOfActs' /\ MemoryIsHonest'
    BY <1>0, <2>3, StoryRests
  <2> QED BY <2>5, <2>6, <2>7, <2>8, <2>9
<1>2. CASE /\ raw' = [Nothing EXCEPT !.kind = "unread", !.by = "model"]
           /\ stream' = NoStream /\ UNCHANGED memory
  <2>1. raw'.kind = "unread" /\ raw'.by = "model"
    BY <1>2 DEF Nothing
  <2>2. CountsFinal' /\ AnswerInHand' /\ SettledAtTheBill'
    BY <1>0, <1>2, <2>1 DEF CountsFinal, NoStream, AnswerInHand, SettledAtTheBill
  <2>3. NotYetAccepted' /\ OneActor' /\ OwnExchanges' /\ ShownIsSent'
    BY <1>0, <2>1 DEF NotYetAccepted, OneActor, OwnExchanges, ShownIsSent, Asking
  <2>4. ActionInHand' /\ ActsAreTheirActors' /\ PendingBetween' /\ HelpersCounted'
    BY <1>0, <1>2, <2>1 DEF ActionInHand, ActsAreTheirActors, PendingBetween, HelpersCounted
  <2>5. FramesOfActs' /\ MemoryIsHonest'
    BY <1>0, <1>2 DEF FramesOfActs, MemoryIsHonest
  <2> QED BY <2>2, <2>3, <2>4, <2>5
<1> QED BY <1>1, <1>2 DEF ReadAnswer

\* An operation that is no action becomes an exchange of the decision, shown
\* to the actor that made it.
ExchangesOn(u) ==
  /\ place = "judging" /\ place' = "turning"
  /\ u \in Turn
  /\ u.actor = turn.actor /\ u.exchanges = turn.exchanges /\ u.began = turn.began
  /\ u.shown = turn.shown /\ u.sent = turn.sent
  /\ turn' = Exchange(u)
  /\ memory'.kept + memory'.dropped = u.reads
  /\ SameStory(memory, memory')
  /\ UNCHANGED <<wire, stream, raw, held, policy, rows, desk, acts, stop>>

\* An exchange keeps the invariant.
LEMMA ExchangeKeeps ==
  ASSUME TypeOK, IInv, NEW u, ExchangesOn(u)
  PROVE  IInv'
<1> USE DEF IInv, ExchangesOn
<1>0. /\ turn'.actor = u.actor /\ turn'.began = u.began /\ turn'.reads = u.reads
      /\ turn'.shown = u.shown /\ turn'.sent = u.sent /\ turn'.exchanges # <<>>
      /\ \A i \in DOMAIN turn'.exchanges :
           \/ i \in DOMAIN u.exchanges /\ turn'.exchanges[i] = u.exchanges[i]
           \/ /\ turn'.exchanges[i].by = u.actor
              /\ \/ turn'.exchanges[i].turn = 0
                 \/ /\ u.actor = "model" /\ turn'.exchanges[i].turn = held
                    /\ turn'.exchanges[i].answer = Len(rows)
  BY ExchangedTurn
<1>1. CountsFinal' /\ AnswerInHand' /\ SettledAtTheBill'
  BY DEF CountsFinal, AnswerInHand, SettledAtTheBill
<1>2. NotYetAccepted' /\ OneActor' /\ ShownIsSent'
  BY <1>0 DEF NotYetAccepted, OneActor, ShownIsSent, Asking
<1>3. OwnExchanges'
  <2>1. turn.actor # "nobody"
    BY DEF OneActor
  <2>2. \A i \in DOMAIN turn'.exchanges :
          /\ turn'.exchanges[i].by = turn'.actor
          /\ turn'.exchanges[i].turn \in {0, turn'.exchanges[i].answer}
    BY <1>0, SMTT(30) DEF OwnExchanges
  <2> QED BY <1>0, <2>1, <2>2 DEF OwnExchanges
<1>4. ActionInHand' /\ ActsAreTheirActors'
  BY DEF ActionInHand, ActsAreTheirActors
<1>5. PendingBetween' /\ HelpersCounted'
  BY <1>0 DEF PendingBetween, HelpersCounted, SameStory
<1>6. FramesOfActs' /\ MemoryIsHonest'
  BY StoryRests
<1> QED BY <1>1, <1>2, <1>3, <1>4, <1>5, <1>6

\* A read-only helper is counted, and its result kept or counted.
LEMMA ReadHelperKeeps ==
  ASSUME TypeOK, IInv, ReadHelper
  PROVE  IInv'
<1> DEFINE u == [turn EXCEPT !.helpers = @ + 1, !.reads = @ + 1]
<1>1. u \in Turn /\ u.reads = turn.reads + 1
  <2>1. turn.helpers + 1 \in 0 .. MaxHelpers /\ turn.reads + 1 \in Nat
    BY TurnFields DEF ReadHelper, HelperAllowed
  <2> QED BY <2>1, TurnEdits, TurnFields DEF Turn
<1>2. /\ u.actor = turn.actor /\ u.exchanges = turn.exchanges /\ u.began = turn.began
      /\ u.shown = turn.shown /\ u.sent = turn.sent
  BY TurnFields DEF Turn
<1>3. /\ SameStory(memory, memory')
      /\ memory'.kept + memory'.dropped = memory.kept + memory.dropped + 1
  BY MemoryEffects, SMTT(30) DEF ReadHelper, TypeOK
<1>4. memory.kept + memory.dropped = turn.reads
  BY DEF ReadHelper, Judging, IInv, HelpersCounted
<1>5. turn' = Exchange(u)
  BY DEF ReadHelper
<1> HIDE DEF u
<1>6. ExchangesOn(u)
  BY <1>1, <1>2, <1>3, <1>4, <1>5 DEF ReadHelper, Judging, ExchangesOn
<1> QED BY <1>6, ExchangeKeeps

\* A note helper is counted as a helper, not as a result.
LEMMA NoteHelperKeeps ==
  ASSUME TypeOK, IInv, NoteHelper
  PROVE  IInv'
<1> DEFINE u == [turn EXCEPT !.helpers = @ + 1]
<1>1. u \in Turn /\ u.reads = turn.reads
  <2>1. turn.helpers + 1 \in 0 .. MaxHelpers
    BY TurnFields DEF NoteHelper, HelperAllowed
  <2> QED BY <2>1, TurnEdits, TurnFields DEF Turn
<1>2. /\ u.actor = turn.actor /\ u.exchanges = turn.exchanges /\ u.began = turn.began
      /\ u.shown = turn.shown /\ u.sent = turn.sent
  BY TurnFields DEF Turn
<1>3. SameStory(memory, memory') /\ SameHelpers(memory, memory')
  <2> DEFINE m == IF EditRefused(raw.edit) THEN memory ELSE NoteSaved(memory, raw.edit)
  <2>1. raw.edit \in Edits /\ memory \in Memory
    BY DEF TypeOK, Op
  <2>2. m \in Memory /\ SameStory(memory, m) /\ SameHelpers(memory, m)
    BY <2>1, MemoryOps, MemoryEffects DEF SameStory, SameHelpers
  <2>3. memory' = Unlinked(m)
    BY DEF NoteHelper
  <2> HIDE DEF m
  <2>4. SameStory(m, memory') /\ SameHelpers(m, memory')
    BY <2>2, <2>3, MemoryEffects
  <2> QED BY <2>2, <2>4 DEF SameStory, SameHelpers
<1>4. memory.kept + memory.dropped = turn.reads
  BY DEF NoteHelper, Judging, IInv, HelpersCounted
<1>5. turn' = Exchange(u)
  BY DEF NoteHelper
<1> HIDE DEF u
<1>6. ExchangesOn(u)
  BY <1>1, <1>2, <1>3, <1>4, <1>5 DEF NoteHelper, Judging, ExchangesOn, SameHelpers
<1> QED BY <1>6, ExchangeKeeps

\* A rejected answer is an exchange too; its edit is unlinked.
LEMMA RejectsKeeps ==
  ASSUME TypeOK, IInv, Rejects, ~Ends
  PROVE  IInv'
<1> DEFINE u == [turn EXCEPT !.invalid = Rejections]
<1>0. /\ place = "judging" /\ place' = "turning"
      /\ memory' = Unlinked(memory) /\ turn' = Exchange(u)
      /\ UNCHANGED <<wire, stream, raw, held, policy, rows, desk, acts, stop>>
  BY DEF Rejects, Judging, Ends, Kinds
<1>1. u \in Turn
  <2>1. turn.invalid + 1 \in Nat
    BY TurnFields
  <2> QED BY <2>1, TurnEdits DEF Rejections
<1>2. /\ u.actor = turn.actor /\ u.exchanges = turn.exchanges /\ u.began = turn.began
      /\ u.shown = turn.shown /\ u.sent = turn.sent /\ u.reads = turn.reads
  BY TurnFields DEF Turn
<1>3. SameStory(memory, memory') /\ SameHelpers(memory, memory')
  BY <1>0, MemoryEffects DEF TypeOK
<1>4. memory.kept + memory.dropped = turn.reads
  BY <1>0 DEF IInv, HelpersCounted
<1> HIDE DEF u
<1>5. ExchangesOn(u)
  BY <1>0, <1>1, <1>2, <1>3, <1>4 DEF ExchangesOn, SameHelpers
<1> QED BY <1>5, ExchangeKeeps

\* An accepted action is on the present observation; its edit is saved first.
LEMMA AcceptsKeeps ==
  ASSUME TypeOK, IInv, Accepts
  PROVE  IInv'
<1> USE DEF IInv
<1>0. /\ place = "judging" /\ place' = "committing" /\ raw.kind = "act" /\ raw.obs = Decision
      /\ memory' = IF raw.edit = "keep" THEN memory ELSE NoteSaved(memory, raw.edit)
      /\ UNCHANGED <<wire, stream, turn, raw, held, policy, rows, desk, acts, stop>>
  BY DEF Accepts, Judging, ActionValid
<1>1. /\ SameStory(memory, memory') /\ SameHelpers(memory, memory')
      /\ memory'.saved = raw.edit /\ memory'.proposal = raw.edit
  <2>1. memory.proposal = raw.edit /\ memory.saved = "keep"
    BY <1>0 DEF ActionInHand
  <2>2. raw.edit \in Edits /\ memory \in Memory
    BY DEF TypeOK, Op
  <2> QED BY <1>0, <2>1, <2>2, MemoryEffects DEF SameStory, SameHelpers
<1>2. CountsFinal' /\ AnswerInHand' /\ SettledAtTheBill'
  BY <1>0 DEF CountsFinal, AnswerInHand, WholeCall, ToolCalls, SettledAtTheBill
<1>3. NotYetAccepted' /\ OneActor' /\ OwnExchanges' /\ ShownIsSent'
  BY <1>0 DEF NotYetAccepted, OneActor, OwnExchanges, ShownIsSent, Asking
<1>4. ActionInHand' /\ ActsAreTheirActors'
  BY <1>0, <1>1 DEF ActionInHand, Decision, ActsAreTheirActors
<1>5. PendingBetween' /\ HelpersCounted'
  BY <1>0, <1>1 DEF PendingBetween, HelpersCounted, SameStory, SameHelpers
<1>6. FramesOfActs' /\ MemoryIsHonest'
  BY <1>0, <1>1, StoryRests
<1> QED BY <1>2, <1>3, <1>4, <1>5, <1>6

\* The commit is signed by the actor whose operation it is, and its frame
\* waits with the note and the helpers of the decision.
LEMMA NativeCommitsKeeps ==
  ASSUME TypeOK, IInv, NativeCommits
  PROVE  IInv'
<1> USE DEF IInv
<1> DEFINE act == [by |-> raw.by, signed |-> Signature, obs |-> raw.obs,
                   edit |-> raw.edit, reads |-> turn.reads]
<1>0. /\ place = "committing" /\ place' = "between"
      /\ acts' = Append(acts, act)
      /\ memory' = Committed(memory) /\ turn' = NewTurn /\ raw' = Nothing
      /\ stream' = NoStream
      /\ UNCHANGED <<wire, rows, desk, stop>>
  BY DEF NativeCommits
<1>1. /\ turn'.began = 0 /\ turn'.exchanges = <<>> /\ turn'.sealed = 0 /\ turn'.reads = 0
      /\ turn'.shown = turn'.sent
  BY <1>0 DEF NewTurn
<1>2. /\ act \in Act /\ act.obs = Decision /\ act.signed = act.by
      /\ memory.saved = act.edit /\ memory.proposal = act.edit
      /\ memory.kept + memory.dropped = act.reads /\ memory.pending = NoFrame
  <2>1. act \in Act
    BY DEF TypeOK, Op, Turn, Act, Signature
  <2> QED BY <1>0, <2>1
          DEF ActionInHand, OneActor, HelpersCounted, PendingBetween, Signature
<1> HIDE DEF act
<1>3. CountsFinal' /\ AnswerInHand' /\ SettledAtTheBill'
  BY <1>0 DEF CountsFinal, NoStream, AnswerInHand, SettledAtTheBill
<1>4. NotYetAccepted' /\ OneActor' /\ OwnExchanges' /\ ShownIsSent'
  BY <1>0, <1>1 DEF NotYetAccepted, OneActor, OwnExchanges, ShownIsSent, Asking
<1>5. ActionInHand'
  BY <1>0 DEF ActionInHand
<1>6. ActsAreTheirActors'
  <2>1. \A d \in DOMAIN acts' : (d \in DOMAIN acts /\ acts'[d] = acts[d])
                                  \/ (d = Decision /\ acts'[d] = act)
    BY <1>0, <1>2 DEF TypeOK, Decision
  <2> QED BY <1>2, <2>1 DEF ActsAreTheirActors
<1>7. PendingBetween' /\ HelpersCounted'
  BY <1>0, <1>1, CommittedMemory DEF PendingBetween, HelpersCounted, TypeOK
<1>8. FramesOfActs' /\ MemoryIsHonest'
  BY <1>0, <1>2, StoryGrows
<1> QED BY <1>3, <1>4, <1>5, <1>6, <1>7, <1>8

-----------------------------------------------------------------------------
(***************************************************************************)
(* The theorems.                                                           *)

\* A run begins with nothing in hand.
LEMMA InitInv == Init => IInv
<1> SUFFICES ASSUME Init PROVE IInv
  OBVIOUS
<1>1. /\ turn.began = 0 /\ turn.exchanges = <<>> /\ turn.sealed = 0 /\ turn.reads = 0
      /\ turn.shown = turn.sent
  BY DEF Init, NewTurn
<1>2. CountsFinal /\ AnswerInHand /\ SettledAtTheBill
  BY DEF Init, CountsFinal, NoStream, AnswerInHand, SettledAtTheBill
<1>3. NotYetAccepted /\ OneActor /\ OwnExchanges /\ ShownIsSent
  BY <1>1 DEF Init, NotYetAccepted, OneActor, OwnExchanges, ShownIsSent, Asking
<1>4. ActionInHand /\ ActsAreTheirActors /\ PendingBetween /\ HelpersCounted
  BY <1>1
  DEF Init, ActionInHand, ActsAreTheirActors, PendingBetween, HelpersCounted, FreshMemory
<1>5. FramesOfActs /\ MemoryIsHonest
  BY DEF Init, FramesOfActs, MemoryIsHonest, FreshMemory
<1> QED BY <1>2, <1>3, <1>4, <1>5 DEF IInv

\* Every step keeps the invariant.
LEMMA NextInv == TypeOK /\ IInv /\ Next => IInv'
<1> SUFFICES ASSUME TypeOK, IInv, Next PROVE IInv'
  OBVIOUS
<1>1. CASE Ends
  BY <1>1, EndKeeps
<1>2. CASE ~Ends
  <2>1. CASE Observe
    BY <1>2, <2>1, ObserveKeeps
  <2>2. CASE StartTurn
    BY <1>2, <2>2, StartTurnKeeps
  <2>3. CASE TakeOverride \/ TakeHuman
    BY <1>2, <2>3, TakeOverrideKeeps, TakeHumanKeeps
  <2>4. CASE HumanComposes \/ HumanQueues \/ OperatorStops
    BY <2>4, AsideKeeps
  <2>5. CASE CountInput \/ ReserveAttempt
    BY <1>2, <2>5, CountInputKeeps, ReserveAttemptKeeps
  <2>6. CASE Post \/ StreamFails
    BY <1>2, <2>6, PostKeeps, FailureKeeps DEF StreamFails
  <2>7. CASE Receive \/ Settle
    BY <1>2, <2>7, ReceiveKeeps, SettleKeeps
  <2>8. CASE ReadAnswer
    BY <2>8, ReadAnswerKeeps
  <2>9. CASE ReadHelper \/ NoteHelper
    BY <2>9, ReadHelperKeeps, NoteHelperKeeps
  <2>10. CASE Accepts \/ Rejects
    BY <1>2, <2>10, AcceptsKeeps, RejectsKeeps
  <2>11. CASE NativeCommits
    BY <2>11, NativeCommitsKeeps
  <2>12. CASE Aborts \/ NativeFails
    BY <1>2, <2>12 DEF Aborts, NativeFails, Ends, Kinds
  <2> QED
    BY <2>1, <2>2, <2>3, <2>4, <2>5, <2>6, <2>7, <2>8, <2>9, <2>10, <2>11, <2>12 DEF Next
<1> QED BY <1>1, <1>2

\* Whatever the actors, the provider and the operator do, the state of a
\* decision is well typed and consistent.
THEOREM Invariance == Spec => []Inv
<1>1. Init => Inv
  BY InitType, InitInv DEF Inv
<1>2. Inv /\ [Next]_vars => Inv'
  <2> SUFFICES ASSUME Inv, [Next]_vars PROVE Inv'
    OBVIOUS
  <2>1. CASE Next
    BY <2>1, TypeStep, NextInv DEF Inv
  <2>2. CASE UNCHANGED vars
    <3>1. TypeOK'
      BY <2>2 DEF Inv, TypeOK, vars
    <3>2. /\ CountsFinal' /\ AnswerInHand' /\ SettledAtTheBill'
          /\ NotYetAccepted' /\ OneActor' /\ OwnExchanges' /\ ShownIsSent'
      BY <2>2 DEF Inv, IInv, vars, CountsFinal, AnswerInHand, WholeCall, ToolCalls,
         SettledAtTheBill, NotYetAccepted, OneActor, Actor, OwnExchanges, ShownIsSent, Asking
    <3>3. /\ ActionInHand' /\ ActsAreTheirActors' /\ PendingBetween' /\ HelpersCounted'
          /\ FramesOfActs' /\ MemoryIsHonest'
      BY <2>2 DEF Inv, IInv, vars, ActionInHand, Decision, ActsAreTheirActors, PendingBetween,
         HelpersCounted, FramesOfActs, MemoryIsHonest
    <3> QED BY <3>1, <3>2, <3>3 DEF Inv, IInv
  <2> QED BY <2>1, <2>2
<1> QED BY <1>1, <1>2, PTL DEF Spec

\* OnlyWholeCallsPlay: no action of a model is committed but one that a
\* complete answer spelled out in one finished call (parse, single_call).
THEOREM WholeCalls == Spec => []OnlyWholeCallsPlay
<1>1. Inv => OnlyWholeCallsPlay
  <2> SUFFICES ASSUME Inv, place = "committing", raw.by = "model" PROVE WholeCall
    BY DEF OnlyWholeCallsPlay, WholeCall
  <2> QED BY DEF Inv, IInv, AnswerInHand, ActionInHand
<1> QED BY <1>1, Invariance, PTL

\* SettledAtTheBill: a ledger row holds the provider's bill or its whole
\* reservation, for any order of usage reports (accept, usage_known).
THEOREM RowsAtTheBill == Spec => []SettledAtTheBill
<1>1. Inv => SettledAtTheBill
  BY DEF Inv, IInv
<1> QED BY <1>1, Invariance, PTL

\* OneAcceptedAttempt: no retry follows an attempt that may have been
\* accepted, however many attempts are allowed (send, check_status).
THEOREM NoSecondAnswer == Spec => []OneAcceptedAttempt
<1>1. Inv => OneAcceptedAttempt
  BY DEF Inv, IInv, NotYetAccepted, OneAcceptedAttempt
<1> QED BY <1>1, Invariance, PTL

\* ShownItsOwn: an actor is shown its own exchanges and true allowances only
\* (_decision_turns, _exchange, DecisionConversation._update).
THEOREM OwnContext == Spec => []ShownItsOwn
<1>1. Inv => ShownItsOwn
  <2> SUFFICES ASSUME Inv, place \in {"counting", "reserving", "waiting"}
               PROVE  /\ \A i \in DOMAIN turn.exchanges :
                           LET e == turn.exchanges[i]
                           IN  e.by = turn.actor /\ e.turn \in {0, e.answer}
                      /\ turn.sealed = Len(turn.exchanges)
                      /\ turn.shown = [Status(turn.helpers) EXCEPT !.calls = turn.shown.calls]
    BY DEF ShownItsOwn
  <2>1. turn.shown \in ShownStatus
    BY DEF Inv, TypeOK, Turn
  <2>2. /\ turn.sealed = Len(turn.exchanges)
        /\ turn.shown.helpers = MaxHelpers - turn.helpers
        /\ turn.shown.text = memory.text
    BY DEF Inv, IInv, ShownIsSent, Asking
  <2>3. turn.shown = [Status(turn.helpers) EXCEPT !.calls = turn.shown.calls]
    <3> DEFINE s == turn.shown
    <3>1. s = [helpers |-> s.helpers, calls |-> s.calls, text |-> s.text]
      BY <2>1 DEF ShownStatus
    <3>2. [Status(turn.helpers) EXCEPT !.calls = s.calls]
            = [helpers |-> MaxHelpers - turn.helpers, calls |-> s.calls, text |-> memory.text]
      BY SMTT(30) DEF Status
    <3> HIDE DEF s
    <3> QED BY <2>2, <3>1, <3>2 DEF s
  <2> QED BY <2>2, <2>3 DEF Inv, IInv, OwnExchanges
<1> QED BY <1>1, Invariance, PTL

\* ActsAreTheirActors: each journaled action is of the observation it was
\* chosen for and signed by who chose it (HumanController, _commit_action).
THEOREM SignedByTheirActors == Spec => []ActsAreTheirActors
<1>1. Inv => ActsAreTheirActors
  BY DEF Inv, IInv
<1> QED BY <1>1, Invariance, PTL

\* MemoryIsHonest: the working memory accounts for every committed action,
\* its note and its helpers, for any memory limits (WorkingMemory.consume).
THEOREM HonestMemory == Spec => []MemoryIsHonest
<1>1. Inv => MemoryIsHonest
  BY DEF Inv, IInv
<1> QED BY <1>1, Invariance, PTL

=============================================================================
