---------------------------- MODULE ProviderStream ----------------------------
(***************************************************************************)
(* One streamed provider answer: what the wire may deliver, what the two   *)
(* assemblers accept of it, what it is worth, and which operation is read  *)
(* from it.  The provider and its network are outside the code: any frame  *)
(* may arrive at any point and the stream may end anywhere.  A frame no    *)
(* action below accepts is refused by StreamFails.                         *)
(***************************************************************************)
EXTENDS Naturals, Sequences, FiniteSets

CONSTANTS
    MaxBlocks,   \* bound: content blocks (or output items) of one answer
    Truth        \* what the provider bills for an answer

ASSUME StreamAssumption == MaxBlocks \in Nat /\ Truth \in Nat \ {0}

VARIABLES
    wire,        \* the provider's protocol, "anthropic" or "openai"
    stream       \* the answer assembled so far

\* A tool block is whole once it is closed and its arguments are one object.
Tool == [kind |-> "tool", open |-> TRUE, whole |-> TRUE]
Thought == [kind |-> "thinking", open |-> TRUE, whole |-> FALSE]

NoStream == [at |-> "idle", begun |-> FALSE, blocks |-> <<>>, closed |-> FALSE,
             reason |-> "none", count |-> "absent", final |-> FALSE]

Block == [kind : {"tool", "thinking"}, open : BOOLEAN, whole : BOOLEAN]
Stream ==
    [at : {"idle", "open", "done"}, begun : BOOLEAN, blocks : Seq(Block),
     closed : BOOLEAN, reason : {"none", "tool_use", "end_turn", "refusal", "max_tokens"},
     count : {"absent", "partial", "final"}, final : BOOLEAN]

Opened == [NoStream EXCEPT !.at = "open"]
Receiving == stream.at = "open"
OpenBlocks == {i \in DOMAIN stream.blocks : stream.blocks[i].open}

---------------------------------------------------------------------------
(* Claude Messages *)

\* A message starts once; the output count it brings is partial.
MessageStart ==
    /\ ~stream.begun
    /\ stream' = [stream EXCEPT !.begun = TRUE, !.count = "partial"]

BlockStart ==
    /\ stream.begun /\ ~stream.closed
    /\ Len(stream.blocks) < MaxBlocks
    /\ \E block \in {Tool, Thought} :
        stream' = [stream EXCEPT !.blocks = Append(@, block)]

\* A fragment of a tool's arguments, or of a thinking block's signature.
BlockDelta ==
    \E i \in OpenBlocks, whole \in BOOLEAN :
        /\ stream.blocks[i].kind = "thinking" => whole
        /\ stream' = [stream EXCEPT !.blocks[i].whole = whole]

\* A thinking block without its signature ends the stream instead.
BlockStop ==
    \E i \in OpenBlocks :
        /\ stream.blocks[i].kind = "thinking" => stream.blocks[i].whole
        /\ stream' = [stream EXCEPT !.blocks[i].open = FALSE]

\* Why the provider stopped: what the last delta said of it, perhaps nothing;
\* "max_tokens" stands for every abnormal stop.  Any delta may report usage,
\* with or without the output.
StopReasons == {"tool_use", "end_turn", "refusal", "max_tokens"}

MessageDelta ==
    /\ stream.begun /\ OpenBlocks = {}
    /\ \E reason \in StopReasons \cup {"none"}, usage \in {"none", "other", "output"} :
        stream' = [stream EXCEPT
            !.closed = TRUE,
            !.reason = reason,
            !.count = IF usage = "output" THEN "final" ELSE @,
            !.final = IF usage = "none" THEN @ ELSE usage = "output"]

\* Bug: the count of message_start stays in the message.
MessageStop_KeepsPartial ==
    /\ stream.begun /\ OpenBlocks = {} /\ stream.reason # "none"
    /\ stream' = [stream EXCEPT !.at = "done"]

\* A count that is not the final one is never a settlement total.
MessageStop ==
    /\ stream.begun /\ OpenBlocks = {} /\ stream.reason # "none"
    /\ stream' = [stream EXCEPT !.at = "done", !.count = IF stream.final THEN @ ELSE "absent"]

---------------------------------------------------------------------------
(* OpenAI Responses *)

Created ==
    /\ ~stream.begun
    /\ stream' = [stream EXCEPT !.begun = TRUE]

\* A finished call; it may still say of itself that it is incomplete.
ItemDone ==
    /\ Len(stream.blocks) < MaxBlocks
    /\ \E complete, whole \in BOOLEAN :
        stream' = [stream EXCEPT
            !.blocks = Append(@, [Tool EXCEPT !.open = ~complete, !.whole = whole])]

\* The terminal event; its output must agree with the finished items.
Terminal ==
    \E reason \in {"tool_use", "refusal", "max_tokens"}, count \in {"absent", "final"} :
        stream' = [stream EXCEPT !.at = "done", !.reason = reason, !.count = count]

---------------------------------------------------------------------------
Event ==
    \/ wire = "anthropic" /\ (MessageStart \/ BlockStart \/ BlockDelta
                              \/ BlockStop \/ MessageDelta \/ MessageStop)
    \/ wire = "openai" /\ (Created \/ ItemDone \/ Terminal)

---------------------------------------------------------------------------
(* The finished answer *)

ToolCalls == {i \in DOMAIN stream.blocks : stream.blocks[i].kind = "tool"}

\* What the answer costs at the count it reports: a partial count costs less.
UsageKnown == stream.count # "absent"
UsageCost == IF stream.count = "final" THEN Truth ELSE 0

\* Bug: an answer cut at its token limit is read like any other.
ParseCode_TruncatedToo ==
    CASE ToolCalls = {} -> "NO_OPERATION"
      [] Cardinality(ToolCalls) # 1 -> "MULTIPLE_OPERATIONS"
      [] \E i \in ToolCalls : stream.blocks[i].open -> "PROVIDER_RESPONSE_INCOMPLETE"
      [] \E i \in ToolCalls : ~stream.blocks[i].whole -> "INVALID_OPERATION_JSON"
      [] OTHER -> "call"

\* Why the answer is no single complete call, in the order of the checks.
ParseCode ==
    CASE stream.reason = "max_tokens" -> "PROVIDER_RESPONSE_INCOMPLETE"
      [] stream.reason = "refusal" -> "PROVIDER_REFUSAL"
      [] ToolCalls = {} -> "NO_OPERATION"
      [] stream.reason # "tool_use" -> "UNEXPECTED_PROVIDER_STOP"
      [] Cardinality(ToolCalls) # 1 -> "MULTIPLE_OPERATIONS"
      [] \E i \in ToolCalls : stream.blocks[i].open -> "PROVIDER_RESPONSE_INCOMPLETE"
      [] \E i \in ToolCalls : ~stream.blocks[i].whole -> "INVALID_OPERATION_JSON"
      [] OTHER -> "call"

\* The native turn is kept for this decision's next request unless the answer
\* stopped abnormally or its only call says it is incomplete.
KeepsTurn ==
    /\ stream.reason # "max_tokens"
    /\ ParseCode # "PROVIDER_RESPONSE_INCOMPLETE"

=============================================================================
