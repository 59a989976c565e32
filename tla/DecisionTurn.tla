----------------------------- MODULE DecisionTurn -----------------------------
(***************************************************************************)
(* How the harness turns an observation into one action.                   *)
(*                                                                         *)
(* The actor of a decision, a metered model, a human at the workbench or a *)
(* scripted override, is asked until it returns a valid action.  Helper    *)
(* calls and rejected answers are exchanges of the same decision; notes    *)
(* are saved beside them.  A model is asked over a streamed, paid request  *)
(* that may be rejected, lost or cut (ProviderStream).                     *)
(***************************************************************************)
EXTENDS ProviderStream

CONSTANTS
    MaxDecisions,   \* budgets.max_game_actions
    MaxHelpers,     \* budgets.max_helper_calls_per_decision
    MaxInvalid,     \* budgets.max_consecutive_invalid_actions
    MaxAttempts,    \* budgets.max_transport_attempts
    MaxCalls,       \* budgets.max_provider_calls
    Reserve,        \* worst-case cost of a call
    KeptFrames,     \* WORKING_MEMORY_DECISIONS
    KeptHelpers,    \* RETAINED_HELPER_RESULTS
    Steps           \* operations of a human sequence or an override

ASSUME DecisionAssumption ==
    /\ {MaxDecisions, MaxHelpers, MaxInvalid, MaxAttempts, MaxCalls,
        KeptFrames, KeptHelpers, Steps} \subseteq Nat
    /\ MaxAttempts > 0 /\ MaxInvalid > 0
    /\ Reserve \in Nat /\ Truth < Reserve

VARIABLES
    policy,   \* which actors take part, and the operations the first has left
    place,    \* where the runner stands
    turn,     \* the decision in progress
    raw,      \* the operation in hand
    held,     \* the answer whose native turn the transport keeps, 0 for none
    rows,     \* ledger rows, one per attempt
    memory,   \* notebook, note link and working memory, folded from the journal
    desk,     \* the human controller: shown decision, queue, a request under way
    acts,     \* committed actions
    stop      \* has the operator asked the run to stop?

asking == <<policy, held, rows, memory, desk, acts, stop>>
vars == <<wire, stream, policy, place, turn, raw, held, rows, memory, desk, acts, stop>>

Decision == Len(acts) + 1

Nothing == [kind |-> "none", obs |-> 0, legal |-> FALSE, edit |-> "keep", by |-> "nobody"]

\* What a client may send: an action on an observation, with or without a
\* note edit, a read-only helper, a note helper, an abort, or nonsense.
Operation(obs, actor) ==
    {[kind |-> k, obs |-> o, legal |-> l, edit |-> e, by |-> actor] :
        k \in {"act"}, o \in {obs, obs - 1} \ {0}, l \in BOOLEAN, e \in {"keep", "set", "refused"}}
    \cup {[Nothing EXCEPT !.kind = k, !.by = actor] : k \in {"read", "abort", "malformed"}}
    \cup {[Nothing EXCEPT !.kind = "note", !.edit = e, !.by = actor] :
            e \in {"set", "delete", "refused"}}

---------------------------------------------------------------------------
(* Notebook, note link and working memory *)

NoFrame == [decision |-> 0, note |-> "keep", kept |-> 0, dropped |-> 0]
FreshMemory ==
    [text |-> "empty", proposal |-> "keep", saved |-> "keep",
     kept |-> 0, dropped |-> 0, pending |-> NoFrame, frames |-> <<>>, omitted |-> 0]

\* An edit the notebook turns down: over its limit, a bad key, no such note.
EditRefused(edit) == edit = "refused" \/ (edit = "delete" /\ memory.text = "empty")

NoteSaved(m, edit) ==
    [m EXCEPT !.saved = edit,
              !.text = IF edit = "delete" THEN "empty" ELSE "written"]

Proposed(m, edit) == [m EXCEPT !.proposal = edit, !.saved = "keep"]
Unlinked(m) == [m EXCEPT !.proposal = "keep", !.saved = "keep"]

\* Bug: a result too large to keep is not counted.
HelperKept_Uncounted(m, fits) ==
    IF ~fits THEN Unlinked(m)
    ELSE IF m.kept < KeptHelpers THEN [Unlinked(m) EXCEPT !.kept = @ + 1]
    ELSE [Unlinked(m) EXCEPT !.dropped = @ + 1]

\* A result too large to keep, or the oldest of too many, is only counted.
HelperKept(m, fits) ==
    IF fits /\ m.kept < KeptHelpers THEN [Unlinked(m) EXCEPT !.kept = @ + 1]
                                    ELSE [Unlinked(m) EXCEPT !.dropped = @ + 1]

\* The receipt of a committed action: the edit it proposed and that was saved.
Receipt(m) == IF m.saved = m.proposal THEN m.saved ELSE "keep"

Committed(m) ==
    [Unlinked(m) EXCEPT
        !.pending = [decision |-> Decision, note |-> Receipt(m), kept |-> m.kept,
                     dropped |-> m.dropped],
        !.kept = 0, !.dropped = 0]

\* The frame that waits joins the others, and the n oldest of them are only
\* counted: there are too many, or they are too large together.
Observed(m, n) ==
    LET frames == Append(m.frames, m.pending)
    IN  IF m.pending = NoFrame THEN Unlinked(m)
        ELSE [Unlinked(m) EXCEPT !.pending = NoFrame,
                                 !.frames = SubSeq(frames, n + 1, Len(frames)),
                                 !.omitted = @ + n]

Pruned(m) == {n \in 0 .. Len(m.frames) + 1 : Len(m.frames) + 1 - n <= KeptFrames}

---------------------------------------------------------------------------
(* The actor and what it is shown *)

Actor == IF policy.kind # "model" /\ policy.left > 0 THEN policy.kind ELSE "model"

\* The changing part of a context.
Status(helpers) ==
    [helpers |-> MaxHelpers - helpers, calls |-> MaxCalls - Len(rows), text |-> memory.text]

NewTurn == [helpers |-> 0, reads |-> 0, invalid |-> 0, actor |-> "nobody", exchanges |-> <<>>,
            sealed |-> 0, sent |-> Status(0), shown |-> Status(0),
            attempt |-> 0, began |-> 0, signed |-> "nobody"]

\* A follow-up carries the fields that differ from those last delivered.
Changed(old, new) == {f \in DOMAIN new : new[f] # old[f]}

\* The first context of an actor is a snapshot; later ones are appended.
Delivered(t) ==
    LET now == Status(t.helpers) IN
    IF t.sealed = 0 /\ t.exchanges = <<>>
      THEN [t EXCEPT !.sent = now, !.shown = now]
      ELSE [t EXCEPT !.sealed = Len(t.exchanges), !.sent = now,
                     !.shown = [f \in DOMAIN now |->
                        IF f \in Changed(t.sent, now) THEN now[f] ELSE t.shown[f]]]

\* Bug: the exchanges of another actor are carried over.
ActorTurn_KeepsExchanges(t) == [t EXCEPT !.actor = Actor]

\* A new actor starts from a fresh snapshot; the allowances go on.
ActorTurn(t) ==
    IF t.actor \in {"nobody", Actor} THEN [t EXCEPT !.actor = Actor]
    ELSE [t EXCEPT !.actor = Actor, !.exchanges = <<>>, !.sealed = 0]

---------------------------------------------------------------------------
(* The decision loop *)

End(why) ==
    /\ place' = "over"
    /\ turn' = NewTurn
    /\ raw' = [Nothing EXCEPT !.kind = why]
    /\ held' = 0
    /\ stream' = NoStream
    /\ UNCHANGED <<wire, policy, rows, memory, desk, acts, stop>>

Observe ==
    /\ place = "between"
    /\ \/ stop /\ End("stopped")
       \/ ~stop /\ Len(acts) >= MaxDecisions /\ End("action_limit")
       \/ /\ ~stop /\ Len(acts) < MaxDecisions
          /\ place' = "turning"
          /\ turn' = NewTurn
          /\ \E n \in Pruned(memory) : memory' = Observed(memory, n)
          /\ UNCHANGED <<wire, stream, policy, raw, held, rows, desk, acts, stop>>

\* Who acts, and the context it gets; the context may exceed its byte limit.
StartTurn ==
    /\ place = "turning"
    /\ \/ stop /\ End("stopped")
       \/ ~stop /\ End("context_limit")
       \/ /\ ~stop
          /\ LET t == Delivered(ActorTurn(turn)) IN
                turn' = [t EXCEPT !.signed = Actor, !.attempt = 1, !.began = 0]
          /\ held' = IF turn.actor \in {"nobody", Actor} THEN held ELSE 0
          /\ place' = IF Actor = "model" THEN "counting" ELSE "waiting"
          /\ desk' = IF Actor = "human" THEN [desk EXCEPT !.shown = Decision] ELSE desk
          /\ raw' = Nothing
          /\ stream' = NoStream
          /\ UNCHANGED <<wire, policy, rows, memory, acts, stop>>

\* An override is taken from its list; it names the current observation.
TakeOverride ==
    /\ place = "waiting" /\ Actor = "override"
    /\ \E legal \in BOOLEAN :
        raw' = [Nothing EXCEPT !.kind = "act", !.obs = Decision, !.legal = legal, !.by = "override"]
    /\ policy' = [policy EXCEPT !.left = @ - 1]
    /\ memory' = Proposed(memory, "keep")
    /\ place' = "judging"
    /\ UNCHANGED <<wire, stream, turn, held, rows, desk, acts, stop>>

\* The human's operation leaves the one-slot queue, or the wait is stopped.
TakeHuman ==
    /\ place = "waiting" /\ Actor = "human"
    /\ \/ /\ desk.queue # Nothing /\ ~stop
          /\ raw' = desk.queue
          /\ desk' = [desk EXCEPT !.queue = Nothing, !.shown = 0]
          /\ memory' = Proposed(memory, desk.queue.edit)
          /\ place' = "judging"
          /\ UNCHANGED <<wire, stream, policy, turn, held, rows, acts, stop>>
       \/ stop /\ End("stopped")

\* Two browser requests: one composes against the shown decision and passes
\* the check that a human is awaited; the queue takes it whenever it arrives.
HumanComposes ==
    /\ desk.shown # 0 /\ desk.carried = Nothing
    /\ \E op \in Operation(desk.shown, "human") :
        /\ op.kind = "act" => op.obs = desk.shown /\ op.legal
        /\ desk' = [desk EXCEPT !.carried = op]
    /\ UNCHANGED <<wire, stream, policy, place, turn, raw, held, rows, memory, acts, stop>>

HumanQueues ==
    /\ desk.carried # Nothing
    /\ desk' = [desk EXCEPT !.carried = Nothing,
                            !.queue = IF @ = Nothing THEN desk.carried ELSE @]
    /\ UNCHANGED <<wire, stream, policy, place, turn, raw, held, rows, memory, acts, stop>>

OperatorStops ==
    /\ ~stop /\ place # "over"
    /\ stop' = TRUE
    /\ UNCHANGED <<wire, stream, policy, place, turn, raw, held, rows, memory, desk, acts>>

---------------------------------------------------------------------------
(* A metered request *)

\* The free token count, retried in place, precedes any reservation.
CountInput ==
    /\ place = "counting"
    /\ \/ stop /\ End("stopped")
       \/ ~stop /\ Len(rows) >= MaxCalls /\ End("call_limit")
       \/ ~stop /\ End("input_refused")
       \/ /\ ~stop /\ Len(rows) < MaxCalls
          /\ place' = "reserving"
          /\ UNCHANGED <<wire, stream, turn, raw, asking>>

ReserveAttempt ==
    /\ place = "reserving"
    /\ \/ stop /\ End("stopped")
       \/ ~stop /\ Len(rows) >= MaxCalls /\ End("call_limit")
       \/ /\ ~stop /\ Len(rows) < MaxCalls
          /\ rows' = Append(rows, [settled |-> FALSE, cost |-> Reserve])
          /\ place' = "posting"
          /\ UNCHANGED <<wire, stream, policy, turn, raw, held, memory, desk, acts, stop>>

\* The row keeps its reservation; only a failure that was no acceptance of
\* the request is tried again.
ProviderFails(retryable, began) ==
    \/ /\ retryable /\ turn.attempt < MaxAttempts
       /\ turn' = [turn EXCEPT !.attempt = @ + 1, !.began = @ + began]
       /\ place' = "reserving"
       /\ stream' = NoStream
       /\ UNCHANGED <<wire, raw, asking>>
    \/ /\ ~retryable \/ turn.attempt >= MaxAttempts
       /\ End(IF stop THEN "stopped" ELSE "provider_failed")

\* Bug: a request that may have been delivered is sent again.
Retryable_Lost(failure) == failure \in {"unsent", "transient", "lost"}

\* Never sent, or explicitly rejected for a passing reason; a lost write or
\* read may have been accepted, and billing or request errors are permanent.
Retryable(failure) == failure \in {"unsent", "transient"}

Post ==
    /\ place = "posting"
    /\ \/ stop /\ ProviderFails(FALSE, 0)
       \/ ~stop /\ \E failure \in {"unsent", "transient", "permanent", "lost"} :
            ProviderFails(Retryable(failure), IF failure = "lost" THEN 1 ELSE 0)
       \/ /\ ~stop
          /\ stream' = Opened
          /\ turn' = [turn EXCEPT !.began = @ + 1]
          /\ place' = "receiving"
          /\ UNCHANGED <<wire, raw, asking>>

\* The stream is read between stop checks.
Receive ==
    /\ place = "receiving" /\ Receiving /\ ~stop
    /\ Event
    /\ UNCHANGED <<wire, place, turn, raw, asking>>

StreamFails ==
    /\ place = "receiving" /\ (Receiving \/ stop)
    /\ ProviderFails(FALSE, 0)

\* An answer whose usage is not final keeps its whole reservation.
Settle ==
    /\ place = "receiving" /\ stream.at = "done" /\ ~stop
    /\ \/ /\ UsageKnown
          /\ rows' = [rows EXCEPT ![Len(rows)] = [settled |-> TRUE, cost |-> UsageCost]]
          /\ place' = "answered"
          /\ UNCHANGED <<wire, stream, policy, turn, raw, held, memory, desk, acts, stop>>
       \/ ~UsageKnown /\ End("provider_failed")

\* The turn kept for the next request of this decision.
TurnHeld == IF KeepsTurn THEN Len(rows) ELSE 0

\* One complete call is decoded against the tools and references of the
\* request; anything else is a protocol failure without an operation.
ReadAnswer ==
    /\ place = "answered"
    /\ held' = TurnHeld
    /\ place' = "judging"
    /\ \/ /\ ParseCode = "call"
          /\ \E op \in Operation(Decision, "model") :
                /\ raw' = op
                /\ memory' = Proposed(memory, op.edit)
          /\ UNCHANGED stream
       \/ /\ raw' = [Nothing EXCEPT !.kind = "unread", !.by = "model"]
          /\ stream' = NoStream
          /\ UNCHANGED memory
    /\ UNCHANGED <<wire, policy, turn, rows, desk, acts, stop>>

---------------------------------------------------------------------------
(* Judging an operation *)

Exchange(t) ==
    [t EXCEPT !.exchanges = Append(@,
        IF t.actor = "model" THEN [by |-> "model", answer |-> Len(rows), turn |-> held]
                             ELSE [by |-> t.actor, answer |-> 0, turn |-> 0])]

Judging(kinds) ==
    /\ place = "judging" /\ raw.kind \in kinds
    /\ UNCHANGED <<wire, stream, raw, held, policy, rows, desk, acts, stop>>

HelperAllowed == turn.helpers < MaxHelpers

ReadHelper ==
    /\ Judging({"read"})
    /\ HelperAllowed
    /\ \E fits \in BOOLEAN : memory' = HelperKept(memory, fits)
    /\ turn' = Exchange([turn EXCEPT !.helpers = @ + 1, !.reads = @ + 1])
    /\ place' = "turning"

\* A refused edit is a result too; a saved one is journaled, then applied.
NoteHelper ==
    /\ Judging({"note"})
    /\ HelperAllowed
    /\ memory' = Unlinked(IF EditRefused(raw.edit) THEN memory ELSE NoteSaved(memory, raw.edit))
    /\ turn' = Exchange([turn EXCEPT !.helpers = @ + 1])
    /\ place' = "turning"

Aborts ==
    /\ place = "judging" /\ raw.kind = "abort"
    /\ End("agent_abort")

ActionValid(op) == op.obs = Decision /\ op.legal

\* Both are validated before the note is journaled, ahead of the action.
Accepts ==
    /\ Judging({"act"})
    /\ ActionValid(raw)
    /\ raw.edit # "keep" => ~EditRefused(raw.edit)
    /\ memory' = IF raw.edit = "keep" THEN memory ELSE NoteSaved(memory, raw.edit)
    /\ turn' = turn
    /\ place' = "committing"

Invalid ==
    \/ raw.kind \in {"malformed", "unread"}
    \/ raw.kind \in {"read", "note"} /\ ~HelperAllowed
    \/ raw.kind = "act" /\ (~ActionValid(raw) \/ (raw.edit # "keep" /\ EditRefused(raw.edit)))

Rejections == turn.invalid + 1

Rejects ==
    /\ place = "judging" /\ Invalid
    /\ \/ Rejections >= MaxInvalid /\ End("protocol_failure")
       \/ /\ Rejections < MaxInvalid
          /\ Judging({raw.kind})
          /\ memory' = Unlinked(memory)
          /\ turn' = Exchange([turn EXCEPT !.invalid = Rejections])
          /\ place' = "turning"

---------------------------------------------------------------------------
(* Committing *)

\* Bug: the commit is signed by whoever is to act next.
Signature_Late == Actor

\* The actor was noted before it was asked.
Signature == turn.signed

NativeCommits ==
    /\ place = "committing"
    /\ acts' = Append(acts, [by |-> raw.by, signed |-> Signature, obs |-> raw.obs,
                             edit |-> raw.edit, reads |-> turn.reads])
    /\ memory' = Committed(memory)
    /\ policy' = IF policy.kind = "human" /\ policy.left > 0
                   THEN [policy EXCEPT !.left = @ - 1] ELSE policy
    /\ held' = 0
    /\ stream' = NoStream
    /\ raw' = Nothing
    /\ turn' = NewTurn
    /\ place' = "between"
    /\ UNCHANGED <<wire, rows, desk, stop>>

\* A native refusal or an unknown status ends the run; the note stays saved.
NativeFails ==
    /\ place = "committing"
    /\ End("native_failed")

---------------------------------------------------------------------------
Init ==
    /\ wire \in {"anthropic", "openai"}
    /\ stream = NoStream
    /\ policy \in {[kind |-> "model", left |-> 0]}
                  \cup {[kind |-> k, left |-> Steps] : k \in {"human", "override"}}
    /\ place = "between"
    /\ raw = Nothing
    /\ held = 0
    /\ rows = <<>>
    /\ memory = FreshMemory
    /\ turn = NewTurn
    /\ desk = [shown |-> 0, queue |-> Nothing, carried |-> Nothing]
    /\ acts = <<>>
    /\ stop = FALSE

Next ==
    \/ Observe \/ StartTurn \/ TakeOverride \/ TakeHuman
    \/ HumanComposes \/ HumanQueues \/ OperatorStops
    \/ CountInput \/ ReserveAttempt \/ Post \/ Receive \/ StreamFails \/ Settle \/ ReadAnswer
    \/ ReadHelper \/ NoteHelper \/ Aborts \/ Accepts \/ Rejects
    \/ NativeCommits \/ NativeFails

Spec == Init /\ [][Next]_vars

---------------------------------------------------------------------------
(* Properties *)

\* An action read from a model answer came whole: the answer ended normally
\* with one finished tool call whose arguments parse (parse, single_call).
OnlyWholeCallsPlay ==
    place = "committing" /\ raw.by = "model" =>
        /\ stream.reason = "tool_use"
        /\ \A i \in ToolCalls : ~stream.blocks[i].open /\ stream.blocks[i].whole
        /\ Cardinality(ToolCalls) = 1

\* A row is settled only at what the provider bills: no partial count of a
\* stream ever becomes the cost of a call (MessageStream.accept, usage_known).
SettledAtTheBill == \A i \in DOMAIN rows : rows[i].cost = IF rows[i].settled THEN Truth ELSE Reserve

\* Of the attempts of one request at most one can have been accepted by the
\* provider: a retry never buys a second answer (send, check_status).
OneAcceptedAttempt == turn.began <= 1

\* What an actor is shown within a decision is its own: exchanges of its own
\* operations, each with the native turn of the very answer it replies to,
\* and a status equal to the allowances that will be enforced
\* (_decision_turns, _exchange, DecisionConversation._update).
ShownItsOwn ==
    place \in {"counting", "reserving", "waiting"} =>
        /\ \A i \in DOMAIN turn.exchanges :
            LET e == turn.exchanges[i]
            IN  e.by = turn.actor /\ e.turn \in {0, e.answer}
        /\ turn.sealed = Len(turn.exchanges)
        /\ turn.shown = [Status(turn.helpers) EXCEPT !.calls = turn.shown.calls]

\* The journaled action is the one its actor chose for the observation it
\* is committed on, signed by that actor, also when a human's operation was
\* queued late or the actor changes with the commit.
ActsAreTheirActors ==
    \A d \in DOMAIN acts : acts[d].obs = d /\ acts[d].signed = acts[d].by

\* Working memory tells the story of the committed actions: every one is a
\* frame, pending or counted as omitted, with the note that was saved with it
\* and with all its helper results, kept or counted (WorkingMemory.consume,
\* ActionNoteLink).
MemoryIsHonest ==
    /\ Len(memory.frames) + memory.omitted
          + (IF memory.pending = NoFrame THEN 0 ELSE 1) = Len(acts)
    /\ \A f \in {memory.pending} \cup {memory.frames[i] : i \in DOMAIN memory.frames} :
        f # NoFrame =>
            /\ f.note = acts[f.decision].edit
            /\ f.kept + f.dropped = acts[f.decision].reads

---------------------------------------------------------------------------
(* Inductive parts *)

Edits == {"keep", "set", "delete", "refused"}
Texts == {"empty", "written"}
Actors == {"nobody", "model", "human", "override"}
Kinds == {"none", "act", "read", "abort", "malformed", "note", "unread", "stopped",
          "action_limit", "context_limit", "call_limit", "input_refused",
          "provider_failed", "protocol_failure", "agent_abort", "native_failed"}

Frame == [decision : Nat, note : Edits, kept : Nat, dropped : Nat]
ShownStatus == [helpers : 0 .. MaxHelpers, calls : 0 .. MaxCalls, text : Texts]
Op == [kind : Kinds, obs : Nat, legal : BOOLEAN, edit : Edits, by : Actors]

OwnExchange == [by : Actors, answer : Nat, turn : Nat]
Turn == [helpers : 0 .. MaxHelpers, reads : Nat, invalid : Nat, actor : Actors,
         exchanges : Seq(OwnExchange), sealed : Nat, sent : ShownStatus, shown : ShownStatus,
         attempt : Nat, began : Nat, signed : Actors]
Memory == [text : Texts, proposal : Edits, saved : Edits, kept : Nat, dropped : Nat,
           pending : Frame, frames : Seq(Frame), omitted : Nat]
LedgerRow == [settled : BOOLEAN, cost : Nat]
Act == [by : Actors, signed : Actors, obs : Nat, edit : Edits, reads : Nat]

TypeOK ==
    /\ stream \in Stream
    /\ policy \in [kind : {"model", "human", "override"}, left : Nat]
    /\ turn \in Turn
    /\ raw \in Op
    /\ held \in Nat
    /\ rows \in Seq(LedgerRow) /\ Len(rows) <= MaxCalls
    /\ memory \in Memory
    /\ desk \in [shown : Nat, queue : Op, carried : Op]
    /\ acts \in Seq(Act)

\* A final count is the output's; no stream ends with a partial one.
CountsFinal ==
    /\ stream.final => wire = "anthropic" /\ stream.begun /\ stream.count = "final"
    /\ stream.at = "done" => stream.count # "partial"

\* One finished tool call, in an answer that ended for it.
WholeCall ==
    /\ stream.reason = "tool_use"
    /\ \A i \in ToolCalls : ~stream.blocks[i].open /\ stream.blocks[i].whole
    /\ Cardinality(ToolCalls) = 1

\* An operation of a model in hand is the one its stream still holds.
AnswerInHand ==
    place \in {"judging", "committing"} /\ raw.by = "model" /\ raw.kind # "unread" => WholeCall

Asking == {"counting", "reserving", "posting"}

\* Nothing was accepted while the request is still to be sent.
NotYetAccepted == turn.began <= 1 /\ (place \in Asking => turn.began = 0)

\* Who is asked, who signs and whose operation is in hand are one.
OneActor ==
    /\ place \in Asking \cup {"receiving", "answered"} =>
            turn.actor = "model" /\ turn.signed = "model"
    /\ place = "waiting" => Actor # "model" /\ turn.actor = Actor /\ turn.signed = Actor
    /\ place \in {"judging", "committing"} =>
            turn.actor # "nobody" /\ turn.signed = turn.actor /\ raw.by = turn.actor
    /\ \A op \in {desk.queue, desk.carried} : op # Nothing => op.by = "human"

\* The exchanges of a decision are those of the actor it has now.
OwnExchanges ==
    /\ \A i \in DOMAIN turn.exchanges :
        LET e == turn.exchanges[i] IN e.by = turn.actor /\ e.turn \in {0, e.answer}
    /\ turn.actor = "nobody" => turn.exchanges = <<>>
    /\ turn.exchanges = <<>> => turn.sealed = 0
    /\ place = "judging" /\ turn.actor = "model" => held \in {0, Len(rows)}

\* What was delivered adds up to what was said last.
ShownIsSent ==
    /\ turn.shown = turn.sent
    /\ place \in Asking \cup {"waiting"} =>
        /\ turn.sealed = Len(turn.exchanges)
        /\ turn.sent.helpers = MaxHelpers - turn.helpers
        /\ turn.sent.text = memory.text

\* The action in hand is on the present observation, with the edit it proposed.
ActionInHand ==
    /\ place = "committing" => raw.kind = "act" /\ raw.obs = Decision /\ memory.saved = raw.edit
    /\ place \in {"judging", "committing"} /\ raw.kind = "act" => memory.proposal = raw.edit
    /\ place = "judging" => memory.saved = "keep" \/ raw.kind = "unread"

\* The frame of a committed action waits for the next observation only.
PendingBetween == place \notin {"between", "over"} => memory.pending = NoFrame

FramesOfActs ==
    \A f \in {memory.pending} \cup {memory.frames[i] : i \in DOMAIN memory.frames} :
        f # NoFrame => f.decision \in DOMAIN acts

\* Between two decisions none is counted.
HelpersCounted ==
    /\ place # "over" => memory.kept + memory.dropped = turn.reads
    /\ place = "between" => turn.reads = 0

IInv ==
    /\ CountsFinal /\ AnswerInHand /\ SettledAtTheBill
    /\ NotYetAccepted /\ OneActor /\ OwnExchanges /\ ShownIsSent
    /\ ActionInHand /\ ActsAreTheirActors
    /\ PendingBetween /\ FramesOfActs /\ HelpersCounted /\ MemoryIsHonest

=============================================================================
