--------------------------- MODULE NativeDispatch ---------------------------
(***************************************************************************)
(* The private bridge to the native game: NativeGame and its transport on  *)
(* one side of a wire that loses and delays, the Lua dispatcher with its   *)
(* request ledger, its single writer and the settlement queue on the other.*)
(* An intent stands for a method with its parameters; the game below the   *)
(* dispatcher is external, its readiness and its answers are free.         *)
(***************************************************************************)
EXTENDS Integers

CONSTANTS
  Requests,          \* request ids (uuid4); bounds the requests of a process
  Intents,           \* encoded method and parameters
  Method,            \* method family of an intent
  Absent,            \* no id, record, answer or settlement
  TransitionFrames,  \* 30 in settle.lua
  StableFrames,      \* 10
  MaxSettleFrames    \* 1800

(* The answers that matter to the caller: success, an error that names a   *)
(* legality code, and any other named error.                               *)
Answers == {"ok", "reject", "infra"}

Settlement == [age : Nat, stable : Nat]

ASSUME MethodAssumption == Method \in [Intents -> {"bh_action", "upstream", "menu"}]
ASSUME AbsentAssumption == Absent \notin Requests \cup Intents \cup Answers \cup Settlement
ASSUME FramesAssumption ==
  {TransitionFrames, StableFrames, MaxSettleFrames} \subseteq Nat \ {0}

VARIABLES
  (* the game process *)
  ledger,    \* state.ledger: a record per request id
  active,    \* state.active_id; state.busy is active # Absent
  working,   \* an upstream endpoint has not answered the active request yet
  settling,  \* settle.lua's pending callback, or Absent
  effects,   \* how often the game executed each request
  (* between *)
  wire,      \* requests sent and not yet read by the game
  (* the harness *)
  client,    \* the call in progress
  verdict    \* how each call ended

dispatchVars == <<ledger, active, working, settling, effects, wire, client, verdict>>

-----------------------------------------------------------------------------
NoRecord == [status |-> "absent", intent |-> Absent, response |-> Absent]
Pending(intent) == [status |-> "pending", intent |-> intent, response |-> Absent]
Unknown(intent) == [status |-> "unknown", intent |-> intent, response |-> Absent]

NoCall == [pc |-> "idle", id |-> Absent, move |-> FALSE, reply |-> Absent]

Message(id, intent) == [id |-> id, intent |-> intent]

(* The caller of id still listens.                                         *)
Reply(id, answer) ==
  client' = IF client.pc = "sent" /\ client.id = id /\ client.reply = Absent
            THEN [client EXCEPT !.reply = answer] ELSE client

-----------------------------------------------------------------------------
(***************************************************************************)
(* The dispatcher.  complete and expire close whatever request is active.  *)
(***************************************************************************)
\* Mutant: whatever was answered is committed.
Recorded_Committed(answer) ==
  [status |-> "committed", intent |-> ledger[active].intent, response |-> answer]

Recorded(answer) ==
  [status |-> IF answer = "ok" THEN "committed" ELSE "rejected",
   intent |-> ledger[active].intent, response |-> answer]

Complete(answer) ==
  /\ ledger' = [ledger EXCEPT ![active] = Recorded(answer)]
  /\ active' = Absent
  /\ Reply(active, answer)

\* Mutant: a timed-out mutation counts as rejected.
Expire_AsRejected ==
  /\ ledger' = [ledger EXCEPT ![active] = Recorded("reject")]
  /\ active' = Absent
  /\ Reply(active, "reject")

\* Mutant: a timed-out mutation keeps the writer.
Expire_KeepsWriter ==
  /\ ledger' = [ledger EXCEPT ![active] = Unknown(ledger[active].intent)]
  /\ Reply(active, "infra")
  /\ UNCHANGED active

Expire ==
  /\ ledger' = [ledger EXCEPT ![active] = Unknown(ledger[active].intent)]
  /\ active' = Absent
  /\ Reply(active, "infra")

Defer == settling' = [age |-> 0, stable |-> 0]

(***************************************************************************)
(* replay_or_admit for a request already in the ledger.                    *)
(***************************************************************************)
ReplayAnswer(m) ==
  IF ledger[m.id].intent # m.intent \/ ledger[m.id].response = Absent THEN "infra"
  ELSE ledger[m.id].response

\* Mutant: only answered requests are looked up, others are admitted again.
Known_AnsweredOnly(id) == ledger[id].response # Absent
Known(id) == ledger[id] # NoRecord

Replay(m) ==
  /\ m \in wire
  /\ Known(m.id)
  /\ wire' = wire \ {m}
  /\ Reply(m.id, ReplayAnswer(m))
  /\ UNCHANGED <<ledger, active, working, settling, effects, verdict>>

\* Mutant: a second writer is admitted beside the first.
Busy_Never == FALSE
Busy == active # Absent

RefuseBusy(m) ==
  /\ m \in wire
  /\ ~Known(m.id) /\ Busy
  /\ wire' = wire \ {m}
  /\ Reply(m.id, "infra")
  /\ UNCHANGED <<ledger, active, working, settling, effects, verdict>>

(***************************************************************************)
(* Admission and what the endpoint does before it returns.  bh_action      *)
(* refuses (NOT_READY, or a legality code) before it touches the game, or  *)
(* acts and waits for settlement; an upstream endpoint answers when it     *)
(* likes.                                                                  *)
(***************************************************************************)
Admit(m) ==
  /\ m \in wire
  /\ ~Known(m.id) /\ ~Busy
  /\ wire' = wire \ {m}
  /\ \/ /\ Method[m.intent] # "bh_action"
        /\ ledger' = [ledger EXCEPT ![m.id] = Pending(m.intent)]
        /\ active' = m.id
        /\ working' = TRUE
        /\ UNCHANGED <<settling, effects, client>>
     \/ /\ Method[m.intent] = "bh_action"
        /\ ledger' = [ledger EXCEPT ![m.id] = Pending(m.intent)]
        /\ active' = m.id
        /\ effects' = [effects EXCEPT ![m.id] = @ + 1]
        /\ Defer
        /\ UNCHANGED <<working, client>>
     \/ /\ Method[m.intent] = "bh_action"
        /\ \E answer \in {"reject", "infra"} :
             /\ ledger' = [ledger EXCEPT ![m.id] =
                             [status |-> "rejected", intent |-> m.intent, response |-> answer]]
             /\ Reply(m.id, answer)
        /\ UNCHANGED <<active, working, settling, effects>>
  /\ UNCHANGED verdict

(***************************************************************************)
(* The response wrapper: an upstream error completes at once, a success    *)
(* settles first unless it is menu's.  An internal upstream error may come *)
(* after the game changed.                                                 *)
(***************************************************************************)
UpstreamFails ==
  /\ active # Absent /\ working
  /\ working' = FALSE
  /\ \/ Complete("reject") /\ UNCHANGED effects
     \/ /\ Complete("infra")
        /\ effects' \in {effects, [effects EXCEPT ![active] = @ + 1]}
  /\ UNCHANGED <<settling, wire, verdict>>

\* Mutant: a success is passed on before it settles.
UpstreamSucceeds_EarlyReply ==
  /\ active # Absent /\ working
  /\ working' = FALSE
  /\ effects' = [effects EXCEPT ![active] = @ + 1]
  /\ Defer
  /\ Reply(active, "ok")
  /\ UNCHANGED <<ledger, active, wire, verdict>>

UpstreamSucceeds ==
  /\ active # Absent /\ working
  /\ working' = FALSE
  /\ effects' = [effects EXCEPT ![active] = @ + 1]
  /\ IF Method[ledger[active].intent] = "menu"
     THEN Complete("ok") /\ UNCHANGED settling
     ELSE Defer /\ UNCHANGED <<ledger, active, client>>
  /\ UNCHANGED <<wire, verdict>>

(***************************************************************************)
(* One frame of love.update while a callback is pending.  The elapsed-time *)
(* limit may end any frame.                                                *)
(***************************************************************************)
Steady(ready) ==
  IF settling.age + 1 > TransitionFrames /\ ready THEN settling.stable + 1 ELSE 0

TooOld == settling.age + 1 >= MaxSettleFrames

Frame ==
  /\ settling # Absent
  /\ \E ready, elapsed \in BOOLEAN :
       IF Steady(ready) >= StableFrames
       THEN settling' = Absent /\ Complete("ok")
       ELSE IF TooOld \/ elapsed
       THEN settling' = Absent /\ Expire
       ELSE /\ settling' = [age |-> settling.age + 1, stable |-> Steady(ready)]
            /\ UNCHANGED <<ledger, active, client>>
  /\ UNCHANGED <<working, effects, wire, verdict>>

-----------------------------------------------------------------------------
(***************************************************************************)
(* The harness.  A move is NativeGame.apply_public_action, any other call  *)
(* an evaluator's (start, fixture, save, ...).  A failed move retires the  *)
(* session; a failed evaluator call is only raised to its caller.          *)
(***************************************************************************)
Sent(id) == verdict[id] # "none"

CallGame(id, intent, move) ==
  /\ client.pc = "idle"
  /\ ~Sent(id)
  /\ move => Method[intent] # "menu"
  /\ wire' = wire \cup {Message(id, intent)}
  /\ client' = [pc |-> "sent", id |-> id, move |-> move, reply |-> Absent]
  /\ verdict' = [verdict EXCEPT ![id] = "open"]
  /\ UNCHANGED <<ledger, active, working, settling, effects>>

(* native_request cannot resolve the action's handle any more.             *)
RejectStale(id) ==
  /\ client.pc = "idle"
  /\ ~Sent(id)
  /\ verdict' = [verdict EXCEPT ![id] = "rejected"]
  /\ UNCHANGED <<ledger, active, working, settling, effects, wire, client>>

(* A calibration collector sends an id again, with its intent or another.  *)
Resend(id, intent) ==
  /\ ledger[id] # NoRecord
  /\ client.pc # "retired"
  /\ wire' = wire \cup {Message(id, intent)}
  /\ UNCHANGED <<ledger, active, working, settling, effects, client, verdict>>

Lose(m) ==
  /\ m \in wire
  /\ wire' = wire \ {m}
  /\ UNCHANGED <<ledger, active, working, settling, effects, client, verdict>>

EndCall(how) ==
  /\ verdict' = [verdict EXCEPT ![client.id] = how]
  /\ client' = [NoCall EXCEPT !.pc = IF how = "unknown" /\ client.move THEN "retired" ELSE "idle"]

(* What raise_rpc_error makes of an answer; a move waits for the game.     *)
Conclude(answer) ==
  \/ /\ answer = "ok" /\ client.move
     /\ client' = [client EXCEPT !.pc = "settling", !.reply = Absent]
     /\ UNCHANGED verdict
  \/ answer = "ok" /\ ~client.move /\ EndCall("accepted")
  \/ answer = "reject" /\ EndCall("rejected")
  \/ answer = "infra" /\ EndCall("unknown")

Receive ==
  /\ client.pc = "sent" /\ client.reply # Absent
  /\ Conclude(client.reply)
  /\ UNCHANGED <<ledger, active, working, settling, effects, wire>>

(* A timeout or a broken pipe: only a move is reconciled by its id.        *)
LoseAnswer ==
  /\ client.pc = "sent"
  /\ IF client.move
     THEN client' = [client EXCEPT !.pc = "asking", !.reply = Absent] /\ UNCHANGED verdict
     ELSE EndCall("unknown")
  /\ UNCHANGED <<ledger, active, working, settling, effects, wire>>

\* Mutant: a request the game does not know is taken for a rejected one.
StatusAnswer_AbsentRejects ==
  IF ledger[client.id] = NoRecord THEN "reject"
  ELSE IF ledger[client.id].response = Absent THEN "infra" ELSE ledger[client.id].response

StatusAnswer ==
  IF ledger[client.id].response = Absent THEN "infra" ELSE ledger[client.id].response

AskStatus ==
  /\ client.pc = "asking"
  /\ Conclude(StatusAnswer)
  /\ UNCHANGED <<ledger, active, working, settling, effects, wire>>

StatusLost ==
  /\ client.pc = "asking"
  /\ EndCall("unknown")
  /\ UNCHANGED <<ledger, active, working, settling, effects, wire>>

(* wait_ready: the game reports ready and not busy, or never does.         *)
WaitReady ==
  /\ client.pc = "settling"
  /\ \/ ~Busy /\ EndCall("accepted")
     \/ EndCall("unknown")
  /\ UNCHANGED <<ledger, active, working, settling, effects, wire>>

-----------------------------------------------------------------------------
DispatchInit ==
  /\ ledger = [id \in Requests |-> NoRecord]
  /\ active = Absent /\ working = FALSE /\ settling = Absent
  /\ effects = [id \in Requests |-> 0]
  /\ wire = {}
  /\ client = NoCall
  /\ verdict = [id \in Requests |-> "none"]

Dispatch == \E m \in wire : Replay(m) \/ RefuseBusy(m) \/ Admit(m)
CallEnds == Receive \/ LoseAnswer \/ AskStatus \/ StatusLost \/ WaitReady

DispatchNext ==
  \/ Dispatch \/ UpstreamFails \/ UpstreamSucceeds \/ Frame
  \/ \E id \in Requests, intent \in Intents, move \in BOOLEAN : CallGame(id, intent, move)
  \/ \E id \in Requests : RejectStale(id)
  \/ \E id \in Requests, intent \in Intents : Resend(id, intent)
  \/ \E m \in wire : Lose(m)
  \/ CallEnds

DispatchSpec == DispatchInit /\ [][DispatchNext]_dispatchVars

(* The game keeps drawing frames.                                          *)
FairDispatch == DispatchSpec /\ WF_dispatchVars(Frame)

-----------------------------------------------------------------------------
Record ==
  {NoRecord}
  \cup {Pending(i) : i \in Intents} \cup {Unknown(i) : i \in Intents}
  \cup [status : {"committed"}, intent : Intents, response : {"ok"}]
  \cup [status : {"rejected"}, intent : Intents, response : {"reject", "infra"}]

CallState ==
  [pc : {"idle", "sent", "asking", "settling", "retired"},
   id : Requests \cup {Absent}, move : BOOLEAN, reply : Answers \cup {Absent}]

Verdicts == {"none", "open", "accepted", "rejected", "unknown"}

(* Every variable stays in its type; a recorded response agrees with its   *)
(* status, and settlement and upstream work belong to an active request    *)
(* that is still pending, one at a time.                                   *)
DispatchTypeOK ==
  /\ ledger \in [Requests -> Record]
  /\ active \in Requests \cup {Absent}
  /\ working \in BOOLEAN
  /\ settling \in Settlement \cup {Absent}
  /\ effects \in [Requests -> Nat]
  /\ wire \subseteq [id : Requests, intent : Intents]
  /\ client \in CallState
  /\ verdict \in [Requests -> Verdicts]

(* The single writer: a request is pending exactly while it is active, and *)
(* exactly one of upstream work and settlement is under way for it         *)
(* (dispatch.install: "busy marks the single writer; active_id owns its    *)
(* ledger result").                                                        *)
SingleWriter ==
  /\ \A id \in Requests : ledger[id].status = "pending" <=> id = active
  /\ (active # Absent) <=> (working \/ settling # Absent)
  /\ ~(working /\ settling # Absent)

(* The ledger tells the truth: nothing is executed twice, a committed      *)
(* request was executed, a request refused for legality was not.           *)
LedgerIsTrue ==
  \A id \in Requests :
    /\ effects[id] <= 1
    /\ ledger[id].status = "committed" => effects[id] = 1
    /\ ledger[id].response = "reject" => effects[id] = 0

(* A committed request has settled: its callback ran after the transition  *)
(* and the stable frames, never during them, so a settlement still pending *)
(* is younger than both (settle.install).                                  *)
SettlesInOrder ==
  settling # Absent =>
    /\ settling.stable < StableFrames
    /\ settling.age < MaxSettleFrames
    /\ settling.stable > 0 => settling.age >= TransitionFrames + settling.stable

(* Between calls a session whose calls all ended well has no writer left,  *)
(* so its next move is never refused as BUSY (apply_public_action,         *)
(* wait_ready).                                                            *)
QuietBetweenMoves ==
  client.pc = "idle" /\ (\A id \in Requests : verdict[id] # "unknown") => ~Busy

(* A closed record never changes: a mutation that timed out stays unknown  *)
(* even if it becomes ready later (expire: "Never turn it into a committed *)
(* or rejected result").                                                   *)
Closed(id) == ledger[id].status \in {"committed", "rejected", "unknown"}
RecordsAreFinal == [][\A id \in Requests : Closed(id) => ledger'[id] = ledger[id]]_dispatchVars

(* What makes these hold at every step.  The effects of a request follow   *)
(* its record; the call in hand knows only what the ledger holds; a        *)
(* message may still be admitted only for a call that is not concluded, or *)
(* was concluded as unknown.                                               *)
EffectsFollowLedger ==
  /\ \A id \in Requests : ledger[id] = NoRecord => effects[id] = 0
  /\ working => effects[active] = 0
  /\ settling # Absent => effects[active] = 1

InCall == client.pc \in {"sent", "asking", "settling"}

CallInHand ==
  /\ InCall => client.id \in Requests
  /\ \A id \in Requests : verdict[id] = "open" <=> InCall /\ client.id = id
  /\ client.reply # Absent => client.pc = "sent"
  /\ client.reply \in {"ok", "reject"} => ledger[client.id].response = client.reply
  /\ client.pc = "settling" => ledger[client.id].response = "ok"

Unsettled(id) == verdict[id] \in {"open", "unknown"}

VerdictsFollowLedger ==
  \A id \in Requests :
    /\ ledger[id] # NoRecord => Sent(id)
    /\ verdict[id] = "accepted" => ledger[id].response = "ok"
    /\ verdict[id] = "rejected" => ledger[id].response = "reject" \/ ledger[id] = NoRecord
    /\ (\E m \in wire : m.id = id) => ledger[id] # NoRecord \/ Unsettled(id)

(* The inductive invariant.                                                *)
DispatchIInv ==
  /\ SingleWriter /\ LedgerIsTrue /\ SettlesInOrder
  /\ EffectsFollowLedger /\ CallInHand /\ VerdictsFollowLedger

Promise == INSTANCE ActionPromise WITH
  happened <- {id \in Requests : effects[id] > 0},
  verdict <- [id \in Requests |-> IF verdict[id] = "open" THEN "none" ELSE verdict[id]]

(* The bridge keeps the promise the runner relies on: at most one effect,  *)
(* accepted only after it, never after rejected.                           *)
KeepsPromise == Promise!Spec

(* Settlement ends and releases the writer, ready or not.                  *)
SettlementEnds == settling # Absent ~> ~Busy
=============================================================================
