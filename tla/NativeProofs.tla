----------------------------- MODULE NativeProofs -----------------------------
(***************************************************************************)
(* Proofs about the two models of the native game, which share nothing but *)
(* the game they are about.                                                *)
(*                                                                         *)
(* NativeDispatch, for any requests, any intents and any frame limits: its *)
(* inductive invariant, what follows from it, and that the bridge          *)
(* implements ActionPromise.                                               *)
(*                                                                         *)
(* NativeSession, for any number of checkouts, shells and launches: a      *)
(* command takes only its own game for its own, and a diagnostic that      *)
(* passes has left neither a game nor a borrowed session.                  *)
(***************************************************************************)
EXTENDS NativeDispatch, NativeSession, TLAPS

-----------------------------------------------------------------------------
(***************************************************************************)
(* NativeDispatch: what the dispatcher and its caller keep.                *)
(***************************************************************************)
DispatchInv == DispatchTypeOK /\ DispatchIInv

-----------------------------------------------------------------------------
(***************************************************************************)
(* Records, messages and replies.                                          *)
(***************************************************************************)

\* A record's status decides its response, and no two kinds of record are equal.
LEMMA RecordFacts ==
  ASSUME NEW rec \in Record
  PROVE  /\ rec.status \in {"absent", "pending", "unknown", "committed", "rejected"}
         /\ rec.response \in Answers \cup {Absent}
         /\ rec.status = "absent" <=> rec = NoRecord
         /\ rec.status \in {"absent", "pending", "unknown"} <=> rec.response = Absent
         /\ rec.status = "committed" <=> rec.response = "ok"
<1> USE AbsentAssumption DEF Answers
<1>1. CASE rec = NoRecord
  BY <1>1 DEF NoRecord
<1>2. CASE \E i \in Intents : rec = Pending(i) \/ rec = Unknown(i)
  BY <1>2 DEF Pending, Unknown, NoRecord
<1>3. CASE rec \in [status : {"committed"}, intent : Intents, response : {"ok"}]
  BY <1>3 DEF NoRecord
<1>4. CASE rec \in [status : {"rejected"}, intent : Intents, response : {"reject", "infra"}]
  BY <1>4 DEF NoRecord
<1> QED
  BY <1>1, <1>2, <1>3, <1>4 DEF Record

\* What the dispatcher may write is a record.
LEMMA RecordTypes ==
  /\ NoRecord \in Record
  /\ \A i \in Intents : Pending(i) \in Record /\ Unknown(i) \in Record
  /\ \A i \in Intents, answer \in {"reject", "infra"} :
       [status |-> "rejected", intent |-> i, response |-> answer] \in Record
  /\ \A i \in Intents : [status |-> "committed", intent |-> i, response |-> "ok"] \in Record
  BY DEF Record

\* A request on record has an intent.
LEMMA RecordedIntents ==
  ASSUME NEW rec \in Record, rec # NoRecord
  PROVE  rec.intent \in Intents
  BY DEF Record, Pending, Unknown

\* A reply reaches the caller that still listens, or nobody.
LEMMA ReplyCases ==
  ASSUME DispatchTypeOK, NEW id, NEW answer \in Answers, Reply(id, answer)
  PROVE  /\ client' \in CallState
         /\ client'.pc = client.pc /\ client'.id = client.id
         /\ \/ client'.reply = client.reply
            \/ client.pc = "sent" /\ client.id = id /\ client'.reply = answer
  BY DEF Reply, DispatchTypeOK, CallState

\* Closing the active request with any record writes the ledger in its type.
LEMMA CloseTypes ==
  ASSUME DispatchTypeOK, active \in Requests, NEW rec \in Record,
         ledger' = [ledger EXCEPT ![active] = rec]
  PROVE  ledger' \in [Requests -> Record]
  BY DEF DispatchTypeOK

\* complete and expire write records, for a request that is on record.
LEMMA ClosingRecords ==
  ASSUME DispatchTypeOK, active \in Requests, ledger[active] # NoRecord
  PROVE  /\ \A answer \in Answers : Recorded(answer) \in Record
         /\ Unknown(ledger[active].intent) \in Record
<1>1. ledger[active].intent \in Intents
  BY RecordedIntents DEF DispatchTypeOK
<1> QED
  BY <1>1, RecordTypes DEF Recorded, Answers

-----------------------------------------------------------------------------
(***************************************************************************)
(* Type correctness.                                                       *)
(***************************************************************************)

\* The initial state is well typed.
LEMMA TypeInit == DispatchInit => DispatchTypeOK
<1> SUFFICES ASSUME DispatchInit PROVE DispatchTypeOK
  OBVIOUS
<1>1. ledger \in [Requests -> Record] /\ verdict \in [Requests -> Verdicts]
  BY RecordTypes DEF DispatchInit, Verdicts
<1>2. client \in CallState
  BY DEF DispatchInit, NoCall, CallState
<1> QED
  BY <1>1, <1>2 DEF DispatchInit, DispatchTypeOK

\* The active request is on record while it is active.
LEMMA ActiveRecord ==
  ASSUME DispatchTypeOK, SingleWriter, active # Absent
  PROVE  /\ active \in Requests /\ ledger[active] \in Record
         /\ ledger[active].status = "pending" /\ ledger[active] # NoRecord
<1>1. active \in Requests /\ ledger[active] \in Record
  BY DEF DispatchTypeOK
<1>2. ledger[active].status = "pending"
  BY <1>1 DEF SingleWriter
<1> QED
  BY <1>1, <1>2 DEF NoRecord

\* complete keeps the ledger, the writer and the caller in their types.
LEMMA CompleteTypes ==
  ASSUME DispatchTypeOK, SingleWriter, active # Absent, NEW answer \in Answers, Complete(answer)
  PROVE  /\ ledger' \in [Requests -> Record] /\ active' = Absent
         /\ client' \in CallState
  BY ActiveRecord, ClosingRecords, CloseTypes, ReplyCases DEF Complete

\* So does expire.
LEMMA ExpireTypes ==
  ASSUME DispatchTypeOK, SingleWriter, active # Absent, Expire
  PROVE  /\ ledger' \in [Requests -> Record] /\ active' = Absent
         /\ client' \in CallState
<1>1. "infra" \in Answers
  BY DEF Answers
<1> QED
  BY <1>1, ActiveRecord, ClosingRecords, CloseTypes, ReplyCases DEF Expire

\* The end of a call is well typed, however it ended.
LEMMA EndTypes ==
  ASSUME DispatchTypeOK, client.id \in Requests, NEW how \in {"accepted", "rejected", "unknown"},
         EndCall(how)
  PROVE  /\ client' \in CallState
         /\ verdict' \in [Requests -> Verdicts]
  BY DEF EndCall, NoCall, DispatchTypeOK, CallState, Verdicts

\* Whatever raise_rpc_error makes of an answer is well typed.
LEMMA ConcludeTypes ==
  ASSUME DispatchTypeOK, client.id \in Requests, NEW answer, Conclude(answer)
  PROVE  /\ client' \in CallState
         /\ verdict' \in [Requests -> Verdicts]
<1>1. CASE client' = [client EXCEPT !.pc = "settling", !.reply = Absent] /\ verdict' = verdict
  BY <1>1 DEF DispatchTypeOK, CallState
<1>2. CASE EndCall("accepted") \/ EndCall("rejected") \/ EndCall("unknown")
  BY <1>2, EndTypes
<1> QED
  BY <1>1, <1>2 DEF Conclude

(***************************************************************************)
(* Every step of the game and of the harness keeps each variable in its    *)
(* type.                                                                   *)
(***************************************************************************)
LEMMA TypeStep ==
  DispatchTypeOK /\ SingleWriter /\ CallInHand /\ [DispatchNext]_dispatchVars => DispatchTypeOK'
<1> SUFFICES ASSUME DispatchTypeOK, SingleWriter, CallInHand, [DispatchNext]_dispatchVars
             PROVE DispatchTypeOK'
  OBVIOUS
<1>0. ASSUME NEW m \in wire
      PROVE  m.id \in Requests /\ m.intent \in Intents /\ wire \ {m} \subseteq wire
  BY DEF DispatchTypeOK
<1>1. ASSUME NEW m \in wire, Replay(m) PROVE DispatchTypeOK'
  <2>1. ReplayAnswer(m) \in Answers
    <3>1. ledger[m.id] \in Record
      BY <1>0 DEF DispatchTypeOK
    <3> QED
      BY <3>1, RecordFacts DEF ReplayAnswer, Answers
  <2> QED
    BY <1>0, <1>1, <2>1, ReplyCases DEF Replay, DispatchTypeOK
<1>2. ASSUME NEW m \in wire, RefuseBusy(m) PROVE DispatchTypeOK'
  <2>1. "infra" \in Answers
    BY DEF Answers
  <2> QED
    BY <1>0, <1>2, <2>1, ReplyCases DEF RefuseBusy, DispatchTypeOK
<1>3. ASSUME NEW m \in wire, Admit(m) PROVE DispatchTypeOK'
  <2>1. ledger' \in [Requests -> Record]
    BY <1>0, <1>3, RecordTypes DEF Admit, DispatchTypeOK
  <2>2. active' \in Requests \cup {Absent} /\ working' \in BOOLEAN
    BY <1>0, <1>3 DEF Admit, DispatchTypeOK
  <2>3. settling' \in Settlement \cup {Absent} /\ effects' \in [Requests -> Nat]
    BY <1>0, <1>3 DEF Admit, DispatchTypeOK, Defer, Settlement
  <2>4. client' \in CallState
    <3>1. CASE client' = client
      BY <3>1 DEF DispatchTypeOK
    <3>2. CASE \E answer \in {"reject", "infra"} : Reply(m.id, answer)
      <4>1. {"reject", "infra"} \subseteq Answers
        BY DEF Answers
      <4> QED
        BY <3>2, <4>1, ReplyCases
    <3> QED
      BY <1>3, <3>1, <3>2 DEF Admit
  <2> QED
    BY <1>0, <1>3, <2>1, <2>2, <2>3, <2>4 DEF Admit, DispatchTypeOK
<1>4. CASE UpstreamFails
  <2>1. active # Absent /\ active \in Requests
    BY <1>4 DEF UpstreamFails, DispatchTypeOK
  <2>2. PICK answer \in Answers : Complete(answer)
    BY <1>4 DEF UpstreamFails, Answers
  <2>3. effects' \in [Requests -> Nat]
    BY <1>4, <2>1 DEF UpstreamFails, DispatchTypeOK
  <2> QED
    BY <1>4, <2>1, <2>2, <2>3, CompleteTypes DEF UpstreamFails, DispatchTypeOK
<1>5. CASE UpstreamSucceeds
  <2>1. active # Absent /\ active \in Requests
    BY <1>5 DEF UpstreamSucceeds, DispatchTypeOK
  <2>2. effects' \in [Requests -> Nat]
    BY <1>5, <2>1 DEF UpstreamSucceeds, DispatchTypeOK
  <2>3. CASE Complete("ok") /\ UNCHANGED settling
    <3>1. "ok" \in Answers
      BY DEF Answers
    <3> QED
      BY <1>5, <2>1, <2>2, <2>3, <3>1, CompleteTypes DEF UpstreamSucceeds, DispatchTypeOK
  <2>4. CASE Defer /\ UNCHANGED <<ledger, active, client>>
    BY <1>5, <2>2, <2>4 DEF UpstreamSucceeds, DispatchTypeOK, Defer, Settlement
  <2> QED
    BY <1>5, <2>3, <2>4 DEF UpstreamSucceeds
<1>6. CASE Frame
  <2>1. settling \in Settlement /\ active # Absent
    BY <1>6 DEF Frame, DispatchTypeOK, SingleWriter
  <2>2. CASE settling' = Absent /\ Complete("ok")
    <3>1. "ok" \in Answers
      BY DEF Answers
    <3> QED
      BY <1>6, <2>1, <2>2, <3>1, CompleteTypes DEF Frame, DispatchTypeOK
  <2>3. CASE settling' = Absent /\ Expire
    BY <1>6, <2>1, <2>3, ExpireTypes DEF Frame, DispatchTypeOK
  <2>4. ASSUME NEW ready \in BOOLEAN,
               settling' = [age |-> settling.age + 1, stable |-> Steady(ready)],
               UNCHANGED <<ledger, active, client>>
        PROVE  DispatchTypeOK'
    <3>1. settling.age + 1 \in Nat /\ Steady(ready) \in Nat
      BY <2>1 DEF Settlement, Steady
    <3>2. settling' \in Settlement
      BY <2>4, <3>1 DEF Settlement
    <3> QED
      BY <1>6, <2>4, <3>2 DEF Frame, DispatchTypeOK
  <2> QED
    BY <1>6, <2>2, <2>3, <2>4 DEF Frame
<1>7. ASSUME NEW id \in Requests, NEW intent \in Intents, NEW move \in BOOLEAN,
             CallGame(id, intent, move)
      PROVE  DispatchTypeOK'
  BY <1>7 DEF CallGame, Message, DispatchTypeOK, CallState, Verdicts
<1>8. ASSUME NEW id \in Requests, RejectStale(id) PROVE DispatchTypeOK'
  BY <1>8 DEF RejectStale, DispatchTypeOK, Verdicts
<1>9. ASSUME NEW id \in Requests, NEW intent \in Intents, Resend(id, intent) PROVE DispatchTypeOK'
  BY <1>9 DEF Resend, Message, DispatchTypeOK
<1>10. ASSUME NEW m \in wire, Lose(m) PROVE DispatchTypeOK'
  BY <1>10 DEF Lose, DispatchTypeOK
<1>11. CASE CallEnds
  <2>1. client.id \in Requests
    BY <1>11 DEF CallEnds, Receive, LoseAnswer, AskStatus, StatusLost, WaitReady,
                 CallInHand, InCall
  <2>2. /\ client' \in CallState
        /\ verdict' \in [Requests -> Verdicts]
    <3>1. CASE \E answer : Conclude(answer)
      BY <2>1, <3>1, ConcludeTypes
    <3>2. CASE EndCall("accepted") \/ EndCall("unknown")
      BY <2>1, <3>2, EndTypes
    <3>3. CASE client' = [client EXCEPT !.pc = "asking", !.reply = Absent] /\ UNCHANGED verdict
      BY <3>3 DEF DispatchTypeOK, CallState
    <3> QED
      BY <1>11, <3>1, <3>2, <3>3 DEF CallEnds, Receive, LoseAnswer, AskStatus, StatusLost, WaitReady
  <2> QED
    BY <1>11, <2>2 DEF CallEnds, Receive, LoseAnswer, AskStatus, StatusLost, WaitReady,
                       DispatchTypeOK
<1>12. CASE UNCHANGED dispatchVars
  BY <1>12 DEF dispatchVars, DispatchTypeOK
<1> QED
  BY <1>1, <1>2, <1>3, <1>4, <1>5, <1>6, <1>7, <1>8, <1>9, <1>10, <1>11, <1>12
     DEF DispatchNext, Dispatch

-----------------------------------------------------------------------------
(***************************************************************************)
(* The inductive invariant, first for the actions that close a request.    *)
(***************************************************************************)

\* Nothing has been requested, executed or answered initially.
LEMMA IndInit == DispatchInit => DispatchIInv
<1> SUFFICES ASSUME DispatchInit PROVE DispatchIInv
  OBVIOUS
<1>1. SingleWriter /\ SettlesInOrder
  BY AbsentAssumption DEF DispatchInit, SingleWriter, SettlesInOrder, NoRecord
<1>2. LedgerIsTrue /\ EffectsFollowLedger
  BY AbsentAssumption DEF DispatchInit, LedgerIsTrue, EffectsFollowLedger, NoRecord, Answers
<1>3. CallInHand
  BY AbsentAssumption DEF DispatchInit, CallInHand, InCall, NoCall, Answers
<1>4. VerdictsFollowLedger
  BY DEF DispatchInit, VerdictsFollowLedger, NoRecord
<1> QED
  BY <1>1, <1>2, <1>3, <1>4 DEF DispatchIInv

\* How the dispatcher may close the active request with a record and an
\* answer: the record is true of the effects, the answer agrees with it.
Close(rec, answer) ==
  /\ rec.status \in {"committed", "rejected", "unknown"}
  /\ answer \in Answers
  /\ answer \in {"ok", "reject"} => rec.response = answer
  /\ rec.response = "reject" => effects'[active] = 0
  /\ rec.status = "committed" => effects'[active] = 1
  /\ ledger' = [ledger EXCEPT ![active] = rec]
  /\ active' = Absent
  /\ Reply(active, answer)

\* complete closes the request.
LEMMA CompleteCloses ==
  ASSUME NEW answer \in Answers, Complete(answer),
         answer = "ok" => effects'[active] = 1, answer = "reject" => effects'[active] = 0
  PROVE  Close(Recorded(answer), answer)
  BY DEF Complete, Close, Recorded, Answers

\* expire closes it as unknown, whatever its effect.
LEMMA ExpireCloses ==
  ASSUME Expire
  PROVE  Close(Unknown(ledger[active].intent), "infra")
  BY AbsentAssumption DEF Expire, Close, Unknown, Answers

\* Closing the active request, after its own effect if any, keeps the
\* invariant.
LEMMA CloseKeeps ==
  ASSUME DispatchInv, DispatchTypeOK', active # Absent,
         NEW rec \in Record, NEW answer, Close(rec, answer),
         \A id \in Requests : id # active => effects'[id] = effects[id],
         effects'[active] \in {0, 1},
         working' = FALSE, settling' = Absent, UNCHANGED <<wire, verdict>>
  PROVE  DispatchIInv'
<1>0. active \in Requests /\ ledger[active].status = "pending"
      /\ ledger[active].response = Absent /\ ledger[active] # NoRecord
  BY ActiveRecord, RecordFacts DEF DispatchInv, DispatchIInv
<1>1. \A id \in Requests : ledger'[id] = IF id = active THEN rec ELSE ledger[id]
  BY <1>0 DEF Close, DispatchInv, DispatchTypeOK
<1>2. rec.status # "pending" /\ rec # NoRecord
  BY DEF Close, NoRecord
<1>3. SingleWriter'
  BY <1>0, <1>1, <1>2, AbsentAssumption DEF Close, DispatchInv, DispatchIInv, SingleWriter,
                                            DispatchTypeOK
<1>4. LedgerIsTrue'
  <2> SUFFICES ASSUME NEW id \in Requests
               PROVE  /\ effects'[id] <= 1
                      /\ ledger'[id].status = "committed" => effects'[id] = 1
                      /\ ledger'[id].response = "reject" => effects'[id] = 0
    BY DEF LedgerIsTrue
  <2>1. CASE id = active
    BY <1>1, <2>1 DEF Close
  <2>2. CASE id # active
    BY <1>1, <2>2 DEF DispatchInv, DispatchIInv, LedgerIsTrue
  <2> QED
    BY <2>1, <2>2
<1>5. SettlesInOrder'
  BY DEF SettlesInOrder
<1>6. EffectsFollowLedger'
  BY <1>0, <1>1, <1>2 DEF DispatchInv, DispatchIInv, EffectsFollowLedger
<1>7. CallInHand'
  <2>0. answer \in Answers /\ Reply(active, answer)
    BY DEF Close
  <2>1. /\ client'.pc = client.pc /\ client'.id = client.id
        /\ \/ client'.reply = client.reply
           \/ client.pc = "sent" /\ client.id = active /\ client'.reply = answer
    BY <2>0, ReplyCases DEF DispatchInv
  <2>2. InCall' = InCall /\ (InCall => client.id \in Requests)
    BY <2>1 DEF InCall, DispatchInv, DispatchIInv, CallInHand
  <2>3. client'.reply # Absent => client'.pc = "sent"
    BY <2>1 DEF DispatchInv, DispatchIInv, CallInHand
  <2>4. client'.reply \in {"ok", "reject"} => ledger'[client'.id].response = client'.reply
    <3>1. CASE client'.reply = client.reply
      <4> SUFFICES ASSUME client.reply \in {"ok", "reject"}
                   PROVE  ledger'[client.id].response = client.reply
        BY <2>1, <3>1
      <4>1. ledger[client.id].response = client.reply /\ client.pc = "sent"
        BY AbsentAssumption DEF DispatchInv, DispatchIInv, CallInHand, Answers
      <4>2. client.id \in Requests /\ client.id # active
        BY <1>0, <2>2, <4>1, AbsentAssumption DEF InCall, Answers
      <4> QED
        BY <1>1, <4>1, <4>2
    <3>2. CASE client.id = active /\ client'.reply = answer
      BY <1>0, <1>1, <2>1, <3>2 DEF Close
    <3> QED
      BY <2>1, <3>1, <3>2
  <2>5. client'.pc = "settling" => ledger'[client'.id].response = "ok"
    BY <1>0, <1>1, <2>1, <2>2, AbsentAssumption DEF DispatchInv, DispatchIInv, CallInHand,
                                                    InCall, Answers
  <2> QED
    BY <2>1, <2>2, <2>3, <2>4, <2>5 DEF CallInHand, DispatchInv, DispatchIInv
<1>8. VerdictsFollowLedger'
  <2> SUFFICES ASSUME NEW id \in Requests
               PROVE  /\ ledger'[id] # NoRecord => verdict[id] # "none"
                      /\ verdict[id] = "accepted" => ledger'[id].response = "ok"
                      /\ verdict[id] = "rejected" =>
                           ledger'[id].response = "reject" \/ ledger'[id] = NoRecord
                      /\ (\E m \in wire : m.id = id) => ledger'[id] # NoRecord \/ Unsettled(id)
    BY DEF VerdictsFollowLedger, Unsettled, Sent
  <2>1. CASE id # active
    BY <1>1, <2>1 DEF DispatchInv, DispatchIInv, VerdictsFollowLedger, Sent
  <2>2. CASE id = active
    BY <1>0, <1>1, <1>2, <2>2, AbsentAssumption DEF DispatchInv, DispatchIInv,
                                                    VerdictsFollowLedger, Sent, Answers
  <2> QED
    BY <2>1, <2>2
<1> QED
  BY <1>3, <1>4, <1>5, <1>6, <1>7, <1>8 DEF DispatchIInv

(***************************************************************************)
(* The steps of the dispatcher and of the game.                            *)
(***************************************************************************)

\* Answering a request without touching the ledger keeps the invariant if
\* the answer agrees with the ledger.
LEMMA AnswerKeeps ==
  ASSUME DispatchInv, NEW id \in Requests, NEW answer \in Answers, Reply(id, answer),
         answer \in {"ok", "reject"} => ledger[id].response = answer,
         wire' \subseteq wire, UNCHANGED <<ledger, active, working, settling, effects, verdict>>
  PROVE  DispatchIInv'
<1>1. /\ client'.pc = client.pc /\ client'.id = client.id
      /\ \/ client'.reply = client.reply
         \/ client.pc = "sent" /\ client.id = id /\ client'.reply = answer
  BY ReplyCases DEF DispatchInv
<1>2. CallInHand'
  BY <1>1 DEF DispatchInv, DispatchIInv, CallInHand, InCall
<1>3. VerdictsFollowLedger'
  BY DEF DispatchInv, DispatchIInv, VerdictsFollowLedger, Sent, Unsettled
<1> QED
  BY <1>2, <1>3 DEF DispatchInv, DispatchIInv, SingleWriter, LedgerIsTrue, SettlesInOrder,
                    EffectsFollowLedger

\* A replayed or refused request.
LEMMA ReplayKeeps ==
  ASSUME DispatchInv, NEW m \in wire, Replay(m) \/ RefuseBusy(m)
  PROVE  DispatchIInv'
<1>0. m.id \in Requests /\ ledger[m.id] \in Record /\ wire' \subseteq wire
  BY DEF DispatchInv, DispatchTypeOK, Replay, RefuseBusy
<1>1. CASE Replay(m)
  <2>1. ReplayAnswer(m) \in Answers
    BY <1>0, RecordFacts DEF ReplayAnswer, Answers
  <2>2. ReplayAnswer(m) \in {"ok", "reject"} => ledger[m.id].response = ReplayAnswer(m)
    BY DEF ReplayAnswer
  <2> QED
    BY <1>0, <1>1, <2>1, <2>2, AnswerKeeps DEF Replay
<1>2. CASE RefuseBusy(m)
  <2>1. "infra" \in Answers
    BY DEF Answers
  <2> QED
    BY <1>0, <1>2, <2>1, AnswerKeeps DEF RefuseBusy
<1> QED
  BY <1>1, <1>2

\* An admitted request: on its way to upstream, executed and settling, or
\* refused by bh_action before it touched the game.
LEMMA AdmitKeeps ==
  ASSUME DispatchInv, DispatchTypeOK', NEW m \in wire, Admit(m)
  PROVE  DispatchIInv'
<1>0. /\ m.id \in Requests /\ m.intent \in Intents /\ active = Absent
      /\ ledger[m.id] = NoRecord /\ effects[m.id] = 0 /\ ~working /\ settling = Absent
      /\ Unsettled(m.id)
  BY DEF DispatchInv, DispatchIInv, DispatchTypeOK, Admit, Known, Busy, SingleWriter,
         EffectsFollowLedger,
         VerdictsFollowLedger
<1>1. PICK rec \in Record :
        /\ ledger' = [ledger EXCEPT ![m.id] = rec]
        /\ \/ rec.status = "pending" /\ rec.response = Absent /\ active' = m.id
           \/ rec.status = "rejected" /\ active' = Absent /\ effects' = effects
  BY <1>0, RecordTypes DEF Admit, Pending
<1>2. \A id \in Requests : ledger'[id] = IF id = m.id THEN rec ELSE ledger[id]
  BY <1>1 DEF DispatchInv, DispatchTypeOK
<1>3. rec # NoRecord
  BY <1>1 DEF NoRecord
<1>4. NoRecord.status = "absent" /\ NoRecord.response = Absent
  BY DEF NoRecord
<1>5. \/ active' = m.id /\ working' = TRUE /\ settling' = settling /\ effects' = effects
      \/ active' = m.id /\ working' = working /\ settling' = [age |-> 0, stable |-> 0]
         /\ effects' = [effects EXCEPT ![m.id] = @ + 1]
      \/ active' = Absent /\ working' = working /\ settling' = settling /\ effects' = effects
  BY <1>0 DEF Admit, Defer
<1>6. [age |-> 0, stable |-> 0] # Absent
  BY AbsentAssumption DEF Settlement
<1>7. m.id # Absent
  BY <1>0, AbsentAssumption
<1>8. \A id \in Requests : effects'[id] = IF id = m.id /\ settling' # Absent THEN 1 ELSE effects[id]
  BY <1>0, <1>5, <1>6 DEF DispatchInv, DispatchTypeOK
<1>9. SingleWriter'
  <2>1. \A id \in Requests : ledger'[id].status = "pending" <=> id = active'
    BY <1>0, <1>1, <1>2, <1>4, <1>7, AbsentAssumption DEF DispatchInv, DispatchIInv, SingleWriter
  <2>2. (active' # Absent) <=> (working' \/ settling' # Absent)
    BY <1>0, <1>5, <1>6, <1>7
  <2>3. ~(working' /\ settling' # Absent)
    BY <1>0, <1>5
  <2> QED
    BY <2>1, <2>2, <2>3 DEF SingleWriter
<1>10. LedgerIsTrue'
  <2> SUFFICES ASSUME NEW id \in Requests
               PROVE  /\ effects'[id] <= 1
                      /\ ledger'[id].status = "committed" => effects'[id] = 1
                      /\ ledger'[id].response = "reject" => effects'[id] = 0
    BY DEF LedgerIsTrue
  <2>1. CASE id # m.id
    BY <1>2, <1>8, <2>1 DEF DispatchInv, DispatchIInv, LedgerIsTrue
  <2>2. CASE id = m.id /\ rec.status = "pending"
    BY <1>0, <1>1, <1>2, <1>8, <2>2, AbsentAssumption DEF Answers
  <2>3. CASE id = m.id /\ rec.status = "rejected"
    BY <1>0, <1>1, <1>2, <2>3
  <2> QED
    BY <1>1, <2>1, <2>2, <2>3
<1>11. SettlesInOrder'
  BY <1>0, <1>5, FramesAssumption DEF SettlesInOrder
<1>12. EffectsFollowLedger'
  <2>1. \A id \in Requests : ledger'[id] = NoRecord => effects'[id] = 0
    BY <1>2, <1>3, <1>8 DEF DispatchInv, DispatchIInv, EffectsFollowLedger
  <2>2. working' => effects'[active'] = 0
    BY <1>0, <1>5
  <2>3. settling' # Absent => effects'[active'] = 1
    BY <1>0, <1>5, <1>8
  <2> QED
    BY <2>1, <2>2, <2>3 DEF EffectsFollowLedger
<1>13. CallInHand'
  <2>1. PICK answer \in {"reject", "infra"} :
          client' = client \/ (Reply(m.id, answer) /\ rec.response = answer)
    <3>1. CASE UNCHANGED client
      BY <3>1
    <3>2. ASSUME NEW answer \in {"reject", "infra"},
                 ledger' = [ledger EXCEPT ![m.id] =
                   [status |-> "rejected", intent |-> m.intent, response |-> answer]],
                 Reply(m.id, answer)
          PROVE  \E a \in {"reject", "infra"} : Reply(m.id, a) /\ rec.response = a
      <4>1. ledger'[m.id] = [status |-> "rejected", intent |-> m.intent, response |-> answer]
        BY <1>0, <3>2 DEF DispatchInv, DispatchTypeOK
      <4>2. rec.response = answer
        BY <1>0, <1>2, <4>1
      <4> QED
        BY <3>2, <4>2
    <3> QED
      BY <3>1, <3>2 DEF Admit
  <2>2. {"reject", "infra"} \subseteq Answers
    BY DEF Answers
  <2>3. /\ client'.pc = client.pc /\ client'.id = client.id
        /\ \/ client'.reply = client.reply
           \/ client.pc = "sent" /\ client.id = m.id /\ client'.reply = rec.response
    BY <2>1, <2>2, ReplyCases DEF DispatchInv
  <2>4. client.id = m.id =>
          client.reply \notin {"ok", "reject"} /\ client.pc # "settling"
    BY <1>0, <1>4, AbsentAssumption DEF DispatchInv, DispatchIInv, CallInHand, Answers
  <2>5. client.pc = "settling" \/ client.reply \in {"ok", "reject"} => client.id \in Requests
    BY AbsentAssumption DEF DispatchInv, DispatchIInv, CallInHand, InCall, Answers
  <2>6. InCall' = InCall /\ verdict' = verdict
    BY <2>3 DEF InCall, Admit
  <2>7. client'.reply \in {"ok", "reject"} => ledger'[client'.id].response = client'.reply
    BY <1>0, <1>2, <2>3, <2>4, <2>5 DEF DispatchInv, DispatchIInv, CallInHand
  <2>8. client'.pc = "settling" => ledger'[client'.id].response = "ok"
    BY <1>2, <2>3, <2>4, <2>5 DEF DispatchInv, DispatchIInv, CallInHand
  <2> QED
    BY <2>3, <2>6, <2>7, <2>8 DEF DispatchInv, DispatchIInv, CallInHand
<1>14. VerdictsFollowLedger'
  <2>1. wire' \subseteq wire /\ verdict' = verdict
    BY DEF Admit
  <2>2. verdict[m.id] \in {"open", "unknown"}
    BY <1>0 DEF Unsettled
  <2> SUFFICES ASSUME NEW id \in Requests
               PROVE  /\ ledger'[id] # NoRecord => verdict[id] # "none"
                      /\ verdict[id] = "accepted" => ledger'[id].response = "ok"
                      /\ verdict[id] = "rejected" =>
                           ledger'[id].response = "reject" \/ ledger'[id] = NoRecord
                      /\ (\E n \in wire' : n.id = id) => ledger'[id] # NoRecord \/ Unsettled(id)
    BY <2>1 DEF VerdictsFollowLedger, Unsettled, Sent
  <2>3. CASE id # m.id
    BY <1>2, <2>1, <2>3 DEF DispatchInv, DispatchIInv, VerdictsFollowLedger, Sent
  <2>4. CASE id = m.id
    BY <1>2, <1>3, <2>2, <2>4
  <2> QED
    BY <2>3, <2>4
<1> QED
  BY <1>9, <1>10, <1>11, <1>12, <1>13, <1>14 DEF DispatchIInv

\* A settlement begins after the upstream endpoint has changed the game.
LEMMA DeferKeeps ==
  ASSUME DispatchInv, active # Absent, working, working' = FALSE, Defer,
         effects' = [effects EXCEPT ![active] = @ + 1],
         UNCHANGED <<ledger, active, client, wire, verdict>>
  PROVE  DispatchIInv'
<1>0. /\ active \in Requests /\ effects[active] = 0 /\ settling = Absent
      /\ ledger[active].status = "pending" /\ ledger[active].response = Absent
  BY ActiveRecord, RecordFacts DEF DispatchInv, DispatchIInv, SingleWriter, EffectsFollowLedger
<1>1. settling' # Absent /\ settling'.stable = 0 /\ settling'.age = 0
  BY AbsentAssumption DEF Defer, Settlement
<1>2. \A id \in Requests : effects'[id] = IF id = active THEN 1 ELSE effects[id]
  BY <1>0 DEF DispatchInv, DispatchTypeOK
<1>3. SingleWriter' /\ EffectsFollowLedger'
  BY <1>0, <1>1, <1>2 DEF DispatchInv, DispatchIInv, SingleWriter, EffectsFollowLedger, NoRecord
<1>4. LedgerIsTrue'
  BY <1>0, <1>2, AbsentAssumption DEF DispatchInv, DispatchIInv, LedgerIsTrue, Answers
<1>5. SettlesInOrder'
  BY <1>1, FramesAssumption DEF SettlesInOrder
<1> QED
  BY <1>3, <1>4, <1>5 DEF DispatchInv, DispatchIInv, CallInHand, InCall, VerdictsFollowLedger,
                          Sent, Unsettled

\* What an upstream endpoint does.
LEMMA UpstreamKeeps ==
  ASSUME DispatchInv, DispatchTypeOK', UpstreamFails \/ UpstreamSucceeds
  PROVE  DispatchIInv'
<1>0. /\ active # Absent /\ active \in Requests /\ working /\ effects[active] = 0
      /\ settling = Absent /\ ledger[active] # NoRecord
  BY ActiveRecord DEF UpstreamFails, UpstreamSucceeds, DispatchInv, DispatchIInv, SingleWriter,
                      EffectsFollowLedger
<1>1. \A answer \in Answers : Recorded(answer) \in Record
  BY <1>0, ClosingRecords DEF DispatchInv
<1>2. [effects EXCEPT ![active] = @ + 1][active] = 1
  BY <1>0 DEF DispatchInv, DispatchTypeOK
<1>3. \A id \in Requests :
        id # active => [effects EXCEPT ![active] = @ + 1][id] = effects[id]
  BY DEF DispatchInv, DispatchTypeOK
<1>4. CASE UpstreamFails
  <2>1. PICK answer \in {"reject", "infra"} :
          /\ Complete(answer)
          /\ effects' \in {effects, [effects EXCEPT ![active] = @ + 1]}
          /\ answer = "reject" => effects' = effects
    BY <1>4 DEF UpstreamFails
  <2>2. answer \in Answers
    BY DEF Answers
  <2>3. Close(Recorded(answer), answer)
    BY <1>0, <2>1, <2>2, CompleteCloses
  <2> QED
    BY <1>0, <1>1, <1>2, <1>3, <1>4, <2>1, <2>2, <2>3, CloseKeeps DEF UpstreamFails
<1>5. CASE UpstreamSucceeds
  <2>1. CASE Complete("ok") /\ UNCHANGED settling
    <3>1. "ok" \in Answers /\ effects'[active] = 1
      BY <1>2, <1>5 DEF Answers, UpstreamSucceeds
    <3>2. Close(Recorded("ok"), "ok")
      BY <2>1, <3>1, CompleteCloses
    <3> QED
      BY <1>0, <1>1, <1>3, <1>5, <2>1, <3>1, <3>2, CloseKeeps DEF UpstreamSucceeds
  <2>2. CASE Defer /\ UNCHANGED <<ledger, active, client>>
    BY <1>0, <1>5, <2>2, DeferKeeps DEF UpstreamSucceeds
  <2> QED
    BY <1>5, <2>1, <2>2 DEF UpstreamSucceeds
<1> QED
  BY <1>4, <1>5

\* A frame: settled, expired, or one more.
LEMMA FrameKeeps ==
  ASSUME DispatchInv, DispatchTypeOK', Frame
  PROVE  DispatchIInv'
<1>0. /\ active # Absent /\ active \in Requests /\ ~working /\ effects[active] = 1
      /\ settling \in Settlement /\ ledger[active] # NoRecord
  BY ActiveRecord DEF Frame, DispatchInv, DispatchIInv, DispatchTypeOK, SingleWriter,
                      EffectsFollowLedger
<1>1. effects' = effects /\ working' = FALSE /\ UNCHANGED <<wire, verdict>>
  BY <1>0 DEF Frame, DispatchInv, DispatchTypeOK
<1>2. CASE settling' = Absent /\ Complete("ok")
  <2>1. "ok" \in Answers
    BY DEF Answers
  <2>2. Close(Recorded("ok"), "ok") /\ Recorded("ok") \in Record
    BY <1>0, <1>1, <1>2, <2>1, CompleteCloses, ClosingRecords DEF DispatchInv
  <2> QED
    BY <1>0, <1>1, <1>2, <2>2, CloseKeeps
<1>3. CASE settling' = Absent /\ Expire
  <2>1. Close(Unknown(ledger[active].intent), "infra")
        /\ Unknown(ledger[active].intent) \in Record
    BY <1>0, <1>3, ExpireCloses, ClosingRecords DEF DispatchInv
  <2> QED
    BY <1>0, <1>1, <1>3, <2>1, CloseKeeps
<1>4. ASSUME NEW ready \in BOOLEAN, ~(Steady(ready) >= StableFrames), ~TooOld,
             settling' = [age |-> settling.age + 1, stable |-> Steady(ready)],
             UNCHANGED <<ledger, active, client>>
      PROVE  DispatchIInv'
  <2>1. /\ settling.age \in Nat /\ settling.stable \in Nat
        /\ settling'.age = settling.age + 1 /\ settling'.stable = Steady(ready)
    BY <1>0, <1>4 DEF Settlement
  <2>2. settling' # Absent /\ Steady(ready) \in Nat
    BY <1>4, <2>1, AbsentAssumption DEF Settlement, Steady
  <2>3. SettlesInOrder'
    <3>1. settling'.stable < StableFrames /\ settling'.age < MaxSettleFrames
      BY <1>4, <2>1, <2>2, FramesAssumption DEF TooOld
    <3>2. settling'.stable > 0 => settling'.age >= TransitionFrames + settling'.stable
      <4>1. settling # Absent
        BY <1>0, AbsentAssumption
      <4>2. settling.stable > 0 => settling.age >= TransitionFrames + settling.stable
        BY <4>1 DEF DispatchInv, DispatchIInv, SettlesInOrder
      <4> QED
        BY <2>1, <4>2, FramesAssumption DEF Steady
    <3> QED
      BY <3>1, <3>2 DEF SettlesInOrder
  <2>4. SingleWriter' /\ EffectsFollowLedger'
    BY <1>0, <1>1, <1>4, <2>2 DEF DispatchInv, DispatchIInv, SingleWriter, EffectsFollowLedger
  <2> QED
    BY <1>1, <1>4, <2>3, <2>4
       DEF DispatchInv, DispatchIInv, LedgerIsTrue, CallInHand, InCall, VerdictsFollowLedger,
           Sent, Unsettled
<1> QED
  BY <1>2, <1>3, <1>4 DEF Frame

(***************************************************************************)
(* The steps of the harness and of the wire.                               *)
(***************************************************************************)

\* A call that ends with a verdict the ledger bears out.
LEMMA EndKeeps ==
  ASSUME DispatchInv, InCall, NEW how \in {"accepted", "rejected", "unknown"}, EndCall(how),
         how = "accepted" => ledger[client.id].response = "ok",
         how = "rejected" => ledger[client.id].response = "reject",
         UNCHANGED <<ledger, active, working, settling, effects, wire>>
  PROVE  DispatchIInv'
<1>0. client.id \in Requests /\ verdict[client.id] = "open"
  BY DEF DispatchInv, DispatchIInv, CallInHand
<1>1. \A id \in Requests : verdict'[id] = IF id = client.id THEN how ELSE verdict[id]
  BY <1>0 DEF EndCall, DispatchInv, DispatchTypeOK
<1>2. client'.pc \in {"idle", "retired"} /\ client'.reply = Absent /\ ~InCall'
  BY DEF EndCall, NoCall, InCall
<1>3. CallInHand'
  <2>1. \A id \in Requests : verdict'[id] # "open"
    BY <1>0, <1>1 DEF DispatchInv, DispatchIInv, CallInHand
  <2> QED
    BY <1>2, <2>1, AbsentAssumption DEF CallInHand, Answers
<1>4. VerdictsFollowLedger'
  <2> SUFFICES ASSUME NEW id \in Requests
               PROVE  /\ ledger[id] # NoRecord => verdict'[id] # "none"
                      /\ verdict'[id] = "accepted" => ledger[id].response = "ok"
                      /\ verdict'[id] = "rejected" =>
                           ledger[id].response = "reject" \/ ledger[id] = NoRecord
                      /\ (\E m \in wire : m.id = id) =>
                           ledger[id] # NoRecord \/ verdict'[id] \in {"open", "unknown"}
    BY DEF VerdictsFollowLedger, Unsettled, Sent
  <2>1. CASE id # client.id
    BY <1>1, <2>1 DEF DispatchInv, DispatchIInv, VerdictsFollowLedger, Sent, Unsettled
  <2>2. CASE id = client.id
    BY <1>1, <2>2, AbsentAssumption DEF NoRecord, Answers
  <2> QED
    BY <2>1, <2>2
<1> QED
  BY <1>3, <1>4 DEF DispatchInv, DispatchIInv, SingleWriter, LedgerIsTrue, SettlesInOrder,
                    EffectsFollowLedger

\* A call that goes on without an answer in hand: asking, or settling.
LEMMA GoOnKeeps ==
  ASSUME DispatchInv, InCall, NEW pc \in {"asking", "settling"},
         client' = [client EXCEPT !.pc = pc, !.reply = Absent],
         pc = "settling" => ledger[client.id].response = "ok",
         UNCHANGED <<ledger, active, working, settling, effects, wire, verdict>>
  PROVE  DispatchIInv'
<1>1. client'.pc = pc /\ client'.id = client.id /\ client'.reply = Absent
  BY DEF DispatchInv, DispatchTypeOK, CallState
<1>2. CallInHand'
  BY <1>1, AbsentAssumption DEF DispatchInv, DispatchIInv, CallInHand, InCall, Answers
<1> QED
  BY <1>2 DEF DispatchInv, DispatchIInv, SingleWriter, LedgerIsTrue, SettlesInOrder,
              EffectsFollowLedger,
              VerdictsFollowLedger, Sent, Unsettled

\* Concluding an answer that agrees with the ledger.
LEMMA ConcludeKeeps ==
  ASSUME DispatchInv, InCall, NEW answer, Conclude(answer),
         answer \in {"ok", "reject"} => ledger[client.id].response = answer,
         UNCHANGED <<ledger, active, working, settling, effects, wire>>
  PROVE  DispatchIInv'
<1>1. CASE answer = "ok" /\ UNCHANGED verdict
           /\ client' = [client EXCEPT !.pc = "settling", !.reply = Absent]
  BY <1>1, GoOnKeeps
<1>2. CASE answer = "ok" /\ EndCall("accepted")
  BY <1>2, EndKeeps
<1>3. CASE answer = "reject" /\ EndCall("rejected")
  BY <1>3, EndKeeps
<1>4. CASE answer = "infra" /\ EndCall("unknown")
  BY <1>4, EndKeeps
<1> QED
  BY <1>1, <1>2, <1>3, <1>4 DEF Conclude

\* How a call goes on.
LEMMA CallEndsKeeps ==
  ASSUME DispatchInv, CallEnds
  PROVE  DispatchIInv'
<1>1. InCall
  BY DEF CallEnds, Receive, LoseAnswer, AskStatus, StatusLost, WaitReady, InCall
<1>2. CASE Receive
  BY <1>1, <1>2, ConcludeKeeps DEF Receive, DispatchInv, DispatchIInv, CallInHand
<1>3. CASE LoseAnswer
  <2>1. CASE EndCall("unknown")
    BY <1>1, <1>3, <2>1, EndKeeps DEF LoseAnswer
  <2>2. CASE client' = [client EXCEPT !.pc = "asking", !.reply = Absent] /\ UNCHANGED verdict
    BY <1>1, <1>3, <2>2, GoOnKeeps DEF LoseAnswer
  <2> QED
    BY <1>3, <2>1, <2>2 DEF LoseAnswer
<1>4. CASE AskStatus
  <2>1. StatusAnswer \in {"ok", "reject"} => ledger[client.id].response = StatusAnswer
    BY DEF StatusAnswer
  <2> QED
    BY <1>1, <1>4, <2>1, ConcludeKeeps DEF AskStatus
<1>5. CASE StatusLost
  BY <1>1, <1>5, EndKeeps DEF StatusLost
<1>6. CASE WaitReady
  <2>1. ledger[client.id].response = "ok"
    BY <1>6 DEF WaitReady, DispatchInv, DispatchIInv, CallInHand
  <2>2. EndCall("accepted") \/ EndCall("unknown")
    BY <1>6 DEF WaitReady
  <2> QED
    BY <1>1, <1>6, <2>1, <2>2, EndKeeps DEF WaitReady
<1> QED
  BY <1>2, <1>3, <1>4, <1>5, <1>6 DEF CallEnds

\* A new call.
LEMMA CallKeeps ==
  ASSUME DispatchInv, NEW id \in Requests, NEW intent \in Intents, NEW move \in BOOLEAN,
         CallGame(id, intent, move)
  PROVE  DispatchIInv'
<1>0. /\ ~InCall /\ verdict[id] = "none" /\ ledger[id] = NoRecord
      /\ \A i \in Requests : verdict[i] # "open"
  BY DEF CallGame, Sent, InCall, DispatchInv, DispatchIInv, DispatchTypeOK, Verdicts, CallInHand,
         VerdictsFollowLedger
<1>1. \A i \in Requests : verdict'[i] = IF i = id THEN "open" ELSE verdict[i]
  BY DEF CallGame, DispatchInv, DispatchTypeOK
<1>2. client'.pc = "sent" /\ client'.id = id /\ client'.reply = Absent
  BY DEF CallGame
<1>3. CallInHand'
  BY <1>0, <1>1, <1>2, AbsentAssumption DEF CallInHand, InCall, Answers
<1>4. VerdictsFollowLedger'
  <2>1. \A m \in wire' : m \in wire \/ m.id = id
    BY DEF CallGame, Message
  <2>2. ledger' = ledger
    BY DEF CallGame
  <2> QED
    BY <1>0, <1>1, <2>1, <2>2 DEF DispatchInv, DispatchIInv, VerdictsFollowLedger, Sent, Unsettled
<1> QED
  BY <1>3, <1>4
     DEF CallGame, DispatchInv, DispatchIInv, SingleWriter, LedgerIsTrue, SettlesInOrder,
         EffectsFollowLedger

\* An action rejected before any call.
LEMMA RejectStaleKeeps ==
  ASSUME DispatchInv, NEW id \in Requests, RejectStale(id)
  PROVE  DispatchIInv'
<1>0. /\ ~InCall /\ verdict[id] = "none" /\ ledger[id] = NoRecord
      /\ \A m \in wire : m.id # id
  BY DEF RejectStale, Sent, InCall, DispatchInv, DispatchIInv, DispatchTypeOK, Verdicts,
         VerdictsFollowLedger, Unsettled
<1>1. \A i \in Requests : verdict'[i] = IF i = id THEN "rejected" ELSE verdict[i]
  BY DEF RejectStale, DispatchInv, DispatchTypeOK
<1>2. CallInHand'
  BY <1>0, <1>1 DEF RejectStale, CallInHand, InCall, DispatchInv, DispatchIInv
<1>3. VerdictsFollowLedger'
  BY <1>0, <1>1 DEF RejectStale, DispatchInv, DispatchIInv, VerdictsFollowLedger, Sent, Unsettled
<1> QED
  BY <1>2, <1>3
     DEF RejectStale, DispatchInv, DispatchIInv, SingleWriter, LedgerIsTrue, SettlesInOrder,
         EffectsFollowLedger

\* A repeated or a lost message.
LEMMA WireKeeps ==
  ASSUME DispatchInv, UNCHANGED <<ledger, active, working, settling, effects, client, verdict>>,
         \A m \in wire' : m \in wire \/ ledger[m.id] # NoRecord
  PROVE  DispatchIInv'
<1>1. VerdictsFollowLedger'
  BY DEF DispatchInv, DispatchIInv, VerdictsFollowLedger, Sent, Unsettled
<1> QED
  BY <1>1 DEF DispatchInv, DispatchIInv, SingleWriter, LedgerIsTrue, SettlesInOrder,
              EffectsFollowLedger,
              CallInHand, InCall

\* The invariant is inductive.
LEMMA IndStep == DispatchInv /\ [DispatchNext]_dispatchVars => DispatchInv'
<1> SUFFICES ASSUME DispatchInv, [DispatchNext]_dispatchVars PROVE DispatchIInv' /\ DispatchTypeOK'
  BY DEF DispatchInv
<1>0. DispatchTypeOK'
  BY TypeStep DEF DispatchInv, DispatchIInv
<1>1. ASSUME NEW m \in wire, Replay(m) \/ RefuseBusy(m) \/ Admit(m) PROVE DispatchIInv'
  BY <1>0, <1>1, ReplayKeeps, AdmitKeeps
<1>2. CASE UpstreamFails \/ UpstreamSucceeds
  BY <1>0, <1>2, UpstreamKeeps
<1>3. CASE Frame
  BY <1>0, <1>3, FrameKeeps
<1>4. ASSUME NEW id \in Requests, NEW intent \in Intents, NEW move \in BOOLEAN,
             CallGame(id, intent, move)
      PROVE  DispatchIInv'
  BY <1>4, CallKeeps
<1>5. ASSUME NEW id \in Requests, RejectStale(id) PROVE DispatchIInv'
  BY <1>5, RejectStaleKeeps
<1>6. ASSUME NEW id \in Requests, NEW intent \in Intents, Resend(id, intent) PROVE DispatchIInv'
  BY <1>6, WireKeeps DEF Resend, Message
<1>7. ASSUME NEW m \in wire, Lose(m) PROVE DispatchIInv'
  BY <1>7, WireKeeps DEF Lose
<1>8. CASE CallEnds
  BY <1>0, <1>8, CallEndsKeeps
<1>9. CASE UNCHANGED dispatchVars
  BY <1>0, <1>9, WireKeeps DEF dispatchVars
<1> QED
  BY <1>0, <1>1, <1>2, <1>3, <1>4, <1>5, <1>6, <1>7, <1>8, <1>9 DEF DispatchNext, Dispatch

-----------------------------------------------------------------------------
(***************************************************************************)
(* What the specification guarantees.                                      *)
(***************************************************************************)

\* Every reachable state is well typed and satisfies the inductive invariant:
\* the single writer, the true ledger and the settlement's order among it
\* (dispatch.lua, settle.lua).
THEOREM DispatchInductive == DispatchSpec => [](DispatchTypeOK /\ DispatchIInv)
<1>1. DispatchInit => DispatchInv
  BY TypeInit, IndInit DEF DispatchInv
<1>2. DispatchInv /\ [DispatchNext]_dispatchVars => DispatchInv'
  BY IndStep
<1>3. DispatchInv <=> DispatchTypeOK /\ DispatchIInv
  BY DEF DispatchInv
<1> QED
  BY <1>1, <1>2, <1>3, PTL DEF DispatchSpec

\* Every variable stays in its type.
THEOREM DispatchTypeCorrect == DispatchSpec => []DispatchTypeOK
  BY DispatchInductive, PTL

\* One writer at a time, and its ledger record is pending exactly meanwhile
\* (dispatch.lua, busy and active_id).
THEOREM OneWriter == DispatchSpec => []SingleWriter
<1>1. DispatchTypeOK /\ DispatchIInv => SingleWriter
  BY DEF DispatchIInv
<1> QED
  BY <1>1, DispatchInductive, PTL

\* Nothing is executed twice, and a committed or rejected record tells
\* whether it was executed (dispatch.lua, request ledger).
THEOREM TrueLedger == DispatchSpec => []LedgerIsTrue
<1>1. DispatchTypeOK /\ DispatchIInv => LedgerIsTrue
  BY DEF DispatchIInv
<1> QED
  BY <1>1, DispatchInductive, PTL

\* A settlement still pending is younger than its transition and stable
\* frames, so no move is committed while either lasts (settle.lua).
THEOREM SettledInOrder == DispatchSpec => []SettlesInOrder
<1>1. DispatchTypeOK /\ DispatchIInv => SettlesInOrder
  BY DEF DispatchIInv
<1> QED
  BY <1>1, DispatchInductive, PTL

\* Between calls that all ended well the writer is free (session.py,
\* wait_ready before the next apply_public_action).
THEOREM Quiet == DispatchSpec => []QuietBetweenMoves
<1>1. DispatchTypeOK /\ DispatchIInv => QuietBetweenMoves
  <2> SUFFICES ASSUME DispatchTypeOK, DispatchIInv, client.pc = "idle",
                      \A id \in Requests : verdict[id] # "unknown", active # Absent
               PROVE  FALSE
    BY DEF QuietBetweenMoves, Busy
  <2>1. active \in Requests /\ ledger[active] # NoRecord /\ ledger[active].response = Absent
    BY ActiveRecord, RecordFacts DEF DispatchIInv
  <2>2. verdict[active] \in {"open", "unknown"}
    BY <2>1, AbsentAssumption DEF DispatchIInv, VerdictsFollowLedger, Sent, DispatchTypeOK,
                                  Verdicts, Answers
  <2>3. verdict[active] = "open" => InCall
    BY <2>1 DEF DispatchIInv, CallInHand
  <2> QED
    BY <2>1, <2>2, <2>3 DEF InCall
<1> QED
  BY <1>1, DispatchInductive, PTL

\* A step writes only the record of an unrecorded or of the active request.
LEMMA LedgerWrites ==
  ASSUME DispatchInv, [DispatchNext]_dispatchVars, NEW id \in Requests, ledger'[id] # ledger[id]
  PROVE  ledger[id] = NoRecord \/ id = active
<1>0. ledger \in [Requests -> Record]
  BY DEF DispatchInv, DispatchTypeOK
<1>1. ASSUME NEW m \in wire, Replay(m) \/ RefuseBusy(m) \/ Admit(m)
      PROVE  ledger[id] = NoRecord \/ id = active
  BY <1>0, <1>1 DEF Replay, RefuseBusy, Admit, Known
<1>2. CASE UpstreamFails \/ UpstreamSucceeds
  BY <1>0, <1>2 DEF UpstreamFails, UpstreamSucceeds, Complete
<1>3. CASE Frame
  BY <1>0, <1>3 DEF Frame, Complete, Expire
<1>4. CASE UNCHANGED ledger
  BY <1>4
<1> QED
  BY <1>1, <1>2, <1>3, <1>4
     DEF DispatchNext, Dispatch, dispatchVars, CallGame, RejectStale, Resend, Lose, CallEnds,
         Receive, LoseAnswer, AskStatus, StatusLost, WaitReady

\* A closed record never changes again: what timed out stays unknown
\* (dispatch.lua, expire).
THEOREM FinalRecords == DispatchSpec => RecordsAreFinal
<1>1. DispatchInv /\ [DispatchNext]_dispatchVars
        => [\A id \in Requests : Closed(id) => ledger'[id] = ledger[id]]_dispatchVars
  <2> SUFFICES ASSUME DispatchInv, [DispatchNext]_dispatchVars, NEW id \in Requests, Closed(id),
                      ledger'[id] # ledger[id]
               PROVE  FALSE
    OBVIOUS
  <2>1. ledger[id] # NoRecord /\ ledger[id].status # "pending"
    BY DEF Closed, NoRecord
  <2>2. id = active
    BY <2>1, LedgerWrites
  <2> QED
    BY <2>1, <2>2 DEF DispatchInv, DispatchIInv, SingleWriter
<1>2. DispatchTypeOK /\ DispatchIInv => DispatchInv
  BY DEF DispatchInv
<1> QED
  BY <1>1, <1>2, DispatchInductive, PTL DEF DispatchSpec, RecordsAreFinal

-----------------------------------------------------------------------------
(***************************************************************************)
(* The bridge implements ActionPromise.                                    *)
(***************************************************************************)

\* The verdicts as the promise sees them: an open call has none.
Told == [id \in Requests |-> IF verdict[id] = "open" THEN "none" ELSE verdict[id]]
Happened == {id \in Requests : effects[id] > 0}

\* The promise's next-state relation, over the bridge's state.
PromiseStep ==
  \/ \E id \in Requests :
       \/ /\ id \notin Happened /\ Told[id] # "rejected"
          /\ Happened' = Happened \cup {id} /\ Told' = Told
       \/ \E v \in {"accepted", "rejected", "unknown"} :
            /\ Told[id] = "none"
            /\ v = "accepted" => id \in Happened
            /\ v = "rejected" => id \notin Happened
            /\ Told' = [Told EXCEPT ![id] = v] /\ Happened' = Happened
  \/ Happened' = Happened /\ Told' = Told

\* A step that leaves effects and verdicts alone is a stutter.
LEMMA Stutters ==
  ASSUME UNCHANGED <<effects, verdict>>
  PROVE  PromiseStep
  BY DEF PromiseStep, Happened, Told

\* Executing a request that was not executed, nor rejected, is a step of the
\* promise.
LEMMA Happens ==
  ASSUME DispatchInv, NEW id \in Requests, effects[id] = 0, verdict[id] # "rejected",
         effects' = [effects EXCEPT ![id] = @ + 1], verdict' = verdict
  PROVE  PromiseStep
<1>1. effects'[id] = 1 /\ \A i \in Requests : i # id => effects'[i] = effects[i]
  BY DEF DispatchInv, DispatchTypeOK
<1>2. id \notin Happened /\ Happened' = Happened \cup {id}
  BY <1>1 DEF Happened
<1>3. Told[id] # "rejected" /\ Told' = Told
  BY DEF Told
<1> QED
  BY <1>2, <1>3 DEF PromiseStep

\* So is ending a call, with a verdict the effects bear out.
LEMMA Tells ==
  ASSUME DispatchInv, NEW id \in Requests, verdict[id] \in {"none", "open"},
         NEW v \in {"accepted", "rejected", "unknown"},
         verdict' = [verdict EXCEPT ![id] = v], effects' = effects,
         v = "accepted" => effects[id] = 1, v = "rejected" => effects[id] = 0
  PROVE  PromiseStep
<1>1. \A i \in Requests : verdict'[i] = IF i = id THEN v ELSE verdict[i]
  BY DEF DispatchInv, DispatchTypeOK
<1>2. Told' = [Told EXCEPT ![id] = v]
  BY <1>1 DEF Told
<1>3. Told[id] = "none" /\ Happened' = Happened
  BY DEF Told, Happened
<1>4. (v = "accepted" => id \in Happened) /\ (v = "rejected" => id \notin Happened)
  BY DEF Happened
<1> QED
  BY <1>2, <1>3, <1>4 DEF PromiseStep

\* The end of a call tells the caller what the ledger holds.
LEMMA EndTells ==
  ASSUME DispatchInv, InCall, NEW how \in {"accepted", "rejected", "unknown"}, EndCall(how),
         how = "accepted" => ledger[client.id].response = "ok",
         how = "rejected" => ledger[client.id].response = "reject",
         effects' = effects
  PROVE  PromiseStep
<1>1. client.id \in Requests /\ verdict[client.id] = "open"
  BY DEF DispatchInv, DispatchIInv, CallInHand
<1>2. ledger[client.id] \in Record
  BY <1>1 DEF DispatchInv, DispatchTypeOK
<1>3. how = "accepted" => effects[client.id] = 1
  BY <1>1, <1>2, RecordFacts DEF DispatchInv, DispatchIInv, LedgerIsTrue
<1>4. how = "rejected" => effects[client.id] = 0
  BY <1>1 DEF DispatchInv, DispatchIInv, LedgerIsTrue
<1> QED
  BY <1>1, <1>3, <1>4, Tells DEF EndCall

\* Every conclusion of an answer that agrees with the ledger.
LEMMA ConcludeTells ==
  ASSUME DispatchInv, InCall, NEW answer, Conclude(answer), effects' = effects,
         answer \in {"ok", "reject"} => ledger[client.id].response = answer
  PROVE  PromiseStep
<1>1. CASE UNCHANGED verdict
  BY <1>1, Stutters
<1>2. CASE answer = "ok" /\ EndCall("accepted")
  BY <1>2, EndTells
<1>3. CASE answer = "reject" /\ EndCall("rejected")
  BY <1>3, EndTells
<1>4. CASE answer = "infra" /\ EndCall("unknown")
  BY <1>4, EndTells
<1> QED
  BY <1>1, <1>2, <1>3, <1>4 DEF Conclude

\* Every step of a call's end is a step of the promise.
LEMMA CallEndsPromise ==
  ASSUME DispatchInv, CallEnds
  PROVE  PromiseStep
<1>1. InCall /\ effects' = effects
  BY DEF CallEnds, Receive, LoseAnswer, AskStatus, StatusLost, WaitReady, InCall
<1>2. CASE Receive
  BY <1>1, <1>2, ConcludeTells DEF Receive, DispatchInv, DispatchIInv, CallInHand
<1>3. CASE AskStatus
  <2>1. StatusAnswer \in {"ok", "reject"} => ledger[client.id].response = StatusAnswer
    BY DEF StatusAnswer
  <2> QED
    BY <1>1, <1>3, <2>1, ConcludeTells DEF AskStatus
<1>4. CASE LoseAnswer \/ StatusLost
  BY <1>1, <1>4, EndTells, Stutters DEF LoseAnswer, StatusLost
<1>5. CASE WaitReady
  <2>1. ledger[client.id].response = "ok"
    BY <1>5 DEF WaitReady, DispatchInv, DispatchIInv, CallInHand
  <2> QED
    BY <1>1, <1>5, <2>1, EndTells DEF WaitReady
<1> QED
  BY <1>2, <1>3, <1>4, <1>5 DEF CallEnds

\* Every step of the game is a step of the promise.
LEMMA GamePromise ==
  ASSUME DispatchInv, UpstreamFails \/ UpstreamSucceeds \/ \E m \in wire : Admit(m)
  PROVE  PromiseStep
<1>1. ASSUME NEW m \in wire, Admit(m) PROVE PromiseStep
  <2>1. /\ m.id \in Requests /\ effects[m.id] = 0 /\ verdict[m.id] # "rejected"
        /\ verdict' = verdict
    BY <1>1 DEF Admit, Known, DispatchInv, DispatchIInv, DispatchTypeOK, EffectsFollowLedger,
                VerdictsFollowLedger, Unsettled
  <2>2. effects' = effects \/ effects' = [effects EXCEPT ![m.id] = @ + 1]
    BY <1>1 DEF Admit
  <2> QED
    BY <2>1, <2>2, Happens, Stutters
<1>2. CASE UpstreamFails \/ UpstreamSucceeds
  <2>1. /\ active \in Requests /\ ledger[active] # NoRecord /\ ledger[active].response = Absent
        /\ effects[active] = 0
    BY <1>2, ActiveRecord, RecordFacts
       DEF UpstreamFails, UpstreamSucceeds, DispatchInv, DispatchIInv, EffectsFollowLedger
  <2>2. verdict[active] # "rejected"
    BY <2>1, AbsentAssumption DEF DispatchInv, DispatchIInv, VerdictsFollowLedger, Answers
  <2>3. verdict' = verdict /\ (effects' = effects \/ effects' = [effects EXCEPT ![active] = @ + 1])
    BY <1>2 DEF UpstreamFails, UpstreamSucceeds
  <2> QED
    BY <2>1, <2>2, <2>3, Happens, Stutters
<1> QED
  BY <1>1, <1>2

\* Every step of the bridge is a step of the promise or a stutter.
LEMMA StepPromise == DispatchInv /\ [DispatchNext]_dispatchVars => PromiseStep
<1> SUFFICES ASSUME DispatchInv, [DispatchNext]_dispatchVars PROVE PromiseStep
  OBVIOUS
<1>1. ASSUME NEW id \in Requests, NEW intent \in Intents, NEW move \in BOOLEAN,
             CallGame(id, intent, move)
      PROVE  PromiseStep
  <2>1. \A i \in Requests : verdict'[i] = IF i = id THEN "open" ELSE verdict[i]
    BY <1>1 DEF CallGame, DispatchInv, DispatchTypeOK
  <2>2. verdict[id] = "none" /\ effects' = effects
    BY <1>1 DEF CallGame, Sent
  <2>3. Told' = Told
    BY <2>1, <2>2 DEF Told
  <2> QED
    BY <2>2, <2>3 DEF PromiseStep, Happened
<1>2. ASSUME NEW id \in Requests, RejectStale(id) PROVE PromiseStep
  <2>1. verdict[id] = "none" /\ effects[id] = 0
    BY <1>2 DEF RejectStale, Sent, DispatchInv, DispatchIInv, VerdictsFollowLedger,
                EffectsFollowLedger
  <2> QED
    BY <1>2, <2>1, Tells DEF RejectStale
<1>3. CASE CallEnds
  BY <1>3, CallEndsPromise
<1>4. CASE UpstreamFails \/ UpstreamSucceeds \/ \E m \in wire : Admit(m)
  BY <1>4, GamePromise
<1>5. CASE UNCHANGED <<effects, verdict>>
  BY <1>5, Stutters
<1> QED
  BY <1>1, <1>2, <1>3, <1>4, <1>5
     DEF DispatchNext, Dispatch, dispatchVars, Replay, RefuseBusy, Frame, Resend, Lose

\* The bridge keeps the promise the runner relies on, whatever the wire loses,
\* delays or repeats: at most one effect, an acceptance only after it, none
\* after a rejection (session.py, apply_public_action; dispatch.lua).
THEOREM PromiseKept == DispatchSpec => KeepsPromise
<1>1. DispatchInit => Promise!Init
  <2>1. DispatchInit => Happened = {} /\ Told = [id \in Requests |-> "none"]
    BY DEF DispatchInit, Happened, Told
  <2> QED
    BY <2>1 DEF Promise!Init, Happened, Told
<1>2. PromiseStep => [Promise!Next]_Promise!vars
  <2> SUFFICES ASSUME PromiseStep PROVE [Promise!Next]_Promise!vars
    OBVIOUS
  <2> USE DEF Happened, Told
  <2>1. ASSUME NEW id \in Requests, id \notin Happened, Told[id] # "rejected",
               Happened' = Happened \cup {id}, Told' = Told
        PROVE  Promise!Next
    BY <2>1 DEF Promise!Next, Promise!Happen
  <2>2. ASSUME NEW id \in Requests, NEW v \in {"accepted", "rejected", "unknown"},
               Told[id] = "none", v = "accepted" => id \in Happened,
               v = "rejected" => id \notin Happened,
               Told' = [Told EXCEPT ![id] = v], Happened' = Happened
        PROVE  Promise!Next
    BY <2>2 DEF Promise!Next, Promise!Tell
  <2>3. Happened' = Happened /\ Told' = Told => UNCHANGED Promise!vars
    BY DEF Promise!vars
  <2> QED
    BY <2>1, <2>2, <2>3 DEF PromiseStep
<1>3. DispatchInv /\ [DispatchNext]_dispatchVars => [Promise!Next]_Promise!vars
  BY <1>2, StepPromise
<1>4. DispatchTypeOK /\ DispatchIInv => DispatchInv
  BY DEF DispatchInv
<1> QED
  BY <1>1, <1>3, <1>4, DispatchInductive, PTL DEF DispatchSpec, KeepsPromise, Promise!Spec

-----------------------------------------------------------------------------
(***************************************************************************)
(* NativeSession: whose game a command reaches.                            *)
(***************************************************************************)

(* The initial state satisfies the invariant. *)
THEOREM InitInv == Init => IInv
<1> SUFFICES ASSUME Init PROVE IInv
  OBVIOUS
<1> USE ConstantsOK
<1>1. Idle \in Commands
  BY DEF Idle, Commands, Places
<1>2. TypeOK
  BY <1>1 DEF Init, TypeOK, Sockets
<1>3. LaunchesOK
  BY DEF Init, LaunchesOK
<1>4. ASSUME NEW c \in Checkouts PROVE CommandOK(c, Idle)
  BY DEF Init, CommandOK, OwnOK, Idle, Bound, Verified, Launchers
<1> QED
  BY <1>2, <1>3, <1>4 DEF Init, IInv

(* A step of one command that leaves the runtime alone preserves it when what
   the command becomes is well formed. *)
LEMMA CommandStep ==
    ASSUME IInv, NEW c \in Checkouts, NEW cmd \in Commands, CommandOK(c, cmd),
           Step(c, cmd), UNCHANGED <<gameVars, launchVars>>,
           sockets' \subseteq Sockets,
           registered' \in [Checkouts -> Sockets \cup {None}]
    PROVE  IInv'
<1> USE DEF gameVars, launchVars
<1>1. /\ command' = [command EXCEPT ![c] = cmd]
      /\ UNCHANGED <<helpers, games, port, launched, record>>
  BY DEF Step
<1>2. TypeOK'
  BY <1>1 DEF IInv, TypeOK
<1>3. LaunchesOK'
  BY <1>1 DEF IInv, LaunchesOK, Drawn
<1>4. ASSUME NEW d \in Checkouts PROVE CommandOK(d, command[d])'
  <2>1. CommandOK(d, command'[d])
    BY <1>1 DEF IInv, TypeOK
  <2> QED
    BY <2>1, <1>1 DEF CommandOK, OwnOK, Drawn, Starting
<1> QED
  BY <1>2, <1>3, <1>4 DEF IInv

LEMMA QuietStep ==
    ASSUME IInv, NEW c \in Checkouts, NEW cmd \in Commands, CommandOK(c, cmd), Quietly(c, cmd)
    PROVE  IInv'
<1>1. /\ Step(c, cmd)
      /\ UNCHANGED <<gameVars, launchVars>>
      /\ UNCHANGED <<sockets, registered>>
  BY DEF Quietly, connectionVars
<1> QED
  BY <1>1, CommandStep DEF IInv, TypeOK

(* A step that changes nothing the invariant speaks of preserves it. *)
LEMMA Unnoticed ==
    ASSUME IInv, UNCHANGED <<gameVars, launchVars, command>>,
           sockets' \subseteq Sockets,
           registered' \in [Checkouts -> Sockets \cup {None}]
    PROVE  IInv'
<1> USE DEF gameVars, launchVars
<1>1. TypeOK'
  BY DEF IInv, TypeOK
<1>2. LaunchesOK'
  BY DEF IInv, LaunchesOK, Drawn
<1>3. ASSUME NEW d \in Checkouts PROVE CommandOK(d, command[d])'
  BY DEF IInv, CommandOK, OwnOK, Drawn, Starting
<1> QED
  BY <1>1, <1>2, <1>3 DEF IInv

(* Stopping and stepping back keep a command well formed. *)
LEMMA CommandType ==
    ASSUME IInv, NEW c \in Checkouts
    PROVE  command[c] \in Commands /\ CommandOK(c, command[c])
  BY DEF IInv, TypeOK

LEMMA NoNonce == None \notin Nonces
  BY ConstantsOK DEF Nonces, Launchers

LEMMA IdleOK ==
    ASSUME IInv, NEW c \in Checkouts
    PROVE  Idle \in Commands /\ CommandOK(c, Idle) /\ launched[c] \in Nat
<1>1. launched[c] \in Nat
  BY DEF IInv, TypeOK, Launchers
<1>2. Idle \in Commands
  BY DEF Idle, Commands, Places
<1>3. CommandOK(c, Idle)
  BY <1>1 DEF CommandOK, OwnOK, Idle, Bound, Verified
<1> QED
  BY <1>1, <1>2, <1>3

LEMMA StoppingOK ==
    ASSUME IInv, NEW c \in Checkouts, NEW ok \in BOOLEAN
    PROVE  /\ Stopping(c, ok) \in Commands
           /\ command[c].pc \in Bound => CommandOK(c, Stopping(c, ok))
<1>1. command[c] \in Commands /\ CommandOK(c, command[c])
  BY CommandType
<1>2. StillOk(c, ok) \in BOOLEAN
  BY <1>1 DEF StillOk, Commands
<1>3. Stopping(c, ok) \in Commands
  BY <1>1, <1>2 DEF Stopping, Commands, Places
<1>4. ASSUME command[c].pc \in Bound PROVE CommandOK(c, Stopping(c, ok))
  <2>1. PICK stopping : stopping = Stopping(c, ok)
    OBVIOUS
  <2>2. /\ stopping.pc = "stop" /\ stopping.kind = command[c].kind /\ stopping.hit = {}
        /\ stopping.nonce = command[c].nonce /\ stopping.owned = command[c].owned
        /\ stopping.touched = command[c].touched /\ stopping.since = command[c].since
    BY <1>1, <2>1 DEF Stopping, Commands
  <2>3. command[c].kind \in Kinds /\ command[c].nonce # None
    BY <1>1, <1>4 DEF CommandOK, Bound, Verified
  <2>4. CommandOK(c, stopping)
    BY <1>1, <2>2, <2>3 DEF CommandOK, Bound, Verified
  <2> QED
    BY <2>1, <2>4
<1> QED
  BY <1>3, <1>4

(* A call adds at most the game that answers: the own one, or another one
   while the own one does not answer. *)
LEMMA CallOK ==
    ASSUME IInv, NEW c \in Checkouts, NEW cmd \in Commands, CommandOK(c, cmd),
           NEW lost \in Commands, CommandOK(c, lost),
           cmd.nonce # None, ~Starting(cmd.nonce), cmd.pc \in {"settle", "status", "stop"},
           lost.nonce # None, ~Starting(lost.nonce), lost.pc \in {"settle", "status", "stop"},
           Call(c, cmd, lost)
    PROVE  IInv'
<1>0. port \in Nonces \cup {None}
  BY DEF IInv, TypeOK
<1>1. CASE port # None /\ Quietly(c, [cmd EXCEPT !.pipe = TRUE, !.hit = @ \cup {port}])
  <2> DEFINE new == [cmd EXCEPT !.pipe = TRUE, !.hit = @ \cup {port}]
  <2>1. new \in Commands
    BY <1>0, <1>1 DEF Commands
  <2>2. CommandOK(c, new)
    BY <1>1 DEF CommandOK, Commands, Bound, Verified
  <2> HIDE DEF new
  <2> QED
    BY <1>1, <2>1, <2>2, QuietStep DEF new
<1>2. ASSUME NEW reached \in SUBSET ({port} \ {None}),
             Quietly(c, [lost EXCEPT !.pipe = FALSE, !.hit = @ \cup reached])
      PROVE  IInv'
  <2> DEFINE new == [lost EXCEPT !.pipe = FALSE, !.hit = @ \cup reached]
  <2>1. new \in Commands
    BY <1>0 DEF Commands
  <2>2. CommandOK(c, new)
    BY DEF CommandOK, Commands, Bound, Verified
  <2> HIDE DEF new
  <2> QED
    BY <1>2, <2>1, <2>2, QuietStep DEF new
<1> QED
  BY <1>1, <1>2 DEF Call

(* What a command touches beside may only be its own game. *)
LEMMA TouchesOwn ==
    ASSUME NEW c, NEW kind, NEW since, NEW owned, NEW touched, NEW more,
           OwnOK(c, kind, since, owned, touched), more \subseteq {owned}
    PROVE  OwnOK(c, kind, since, owned, touched \cup more)
  BY DEF OwnOK

LEMMA TouchOK ==
    ASSUME NEW c, NEW cmd \in Commands, CommandOK(c, cmd), cmd.pc # "adopt",
           NEW held \in SUBSET Nonces,
           held \subseteq {cmd.owned} \/ (cmd.kind = "restart" /\ cmd.owned = None)
    PROVE  /\ [cmd EXCEPT !.touched = @ \cup held] \in Commands
           /\ CommandOK(c, [cmd EXCEPT !.touched = @ \cup held])
<1>1. PICK new \in Commands : new = [cmd EXCEPT !.touched = @ \cup held]
  BY DEF Commands
<1>2. /\ new.pc = cmd.pc /\ new.hit = cmd.hit /\ new.nonce = cmd.nonce
      /\ new.kind = cmd.kind /\ new.since = cmd.since /\ new.owned = cmd.owned
      /\ new.touched = cmd.touched \cup held
  BY <1>1 DEF Commands
<1>3. OwnOK(c, cmd.kind, cmd.since, cmd.owned, cmd.touched)
  BY DEF CommandOK
<1>4. OwnOK(c, cmd.kind, cmd.since, cmd.owned, cmd.touched \cup held)
  BY <1>3, TouchesOwn DEF OwnOK
<1>5. OwnOK(c, new.kind, new.since, new.owned, new.touched)
  BY <1>2, <1>4
<1>6. new.pc # "adopt"
  BY <1>2
<1>7. CommandOK(c, new)
  BY <1>2, <1>5, <1>6 DEF CommandOK, Bound, Verified
<1> QED
  BY <1>1, <1>7

(* What is accepted was done by the own game. *)
LEMMA AcceptsOK ==
    ASSUME IInv, NEW c \in Checkouts, NEW pc \in Places \ {"adopt", "takeover"},
           pc \in Bound \cup {"stop"},
           command[c].kind \in Kinds,
           Accepts(c, pc)
    PROVE  IInv'
<1> DEFINE new == [command[c] EXCEPT !.pc = pc, !.pipe = TRUE, !.hit = {},
                                     !.touched = @ \cup command[c].hit]
<1>1. command[c] \in Commands /\ CommandOK(c, command[c])
  BY CommandType
<1>2. port # None /\ port = command[c].nonce /\ Quietly(c, new)
  BY DEF Accepts, Identified
<1>3. new \in Commands
  BY <1>1 DEF Commands
<1>4. ~Starting(command[c].nonce)
  BY <1>2 DEF IInv, TypeOK, LaunchesOK, Starting
<1>5. command[c].nonce = command[c].owned /\ command[c].hit \subseteq {command[c].owned}
  BY <1>1, <1>2 DEF CommandOK
<1>6. OwnOK(c, command[c].kind, command[c].since, command[c].owned,
            command[c].touched \cup command[c].hit)
  BY <1>1, <1>5, TouchesOwn DEF CommandOK
<1>7. /\ new.pc = pc /\ new.hit = {} /\ new.nonce = command[c].nonce
      /\ new.kind = command[c].kind /\ new.since = command[c].since
      /\ new.owned = command[c].owned
      /\ new.touched = command[c].touched \cup command[c].hit
  BY <1>1 DEF Commands
<1> HIDE DEF new
<1>8. CommandOK(c, new)
  BY <1>1, <1>2, <1>4, <1>5, <1>6, <1>7 DEF CommandOK
<1> QED
  BY <1>2, <1>3, <1>8, QuietStep

-----------------------------------------------------------------------------
(* Opening a game. *)
LEMMA BeginStep ==
    ASSUME IInv, NEW c \in Checkouts, NEW kind \in Kinds, Begin(c, kind)
    PROVE  IInv'
<1> DEFINE new == [Idle EXCEPT !.kind = kind, !.pc = FirstPlace(kind), !.since = launched[c]]
<1>0. FirstPlace(kind) \in Places /\ launched[c] \in Nat
  BY DEF IInv, TypeOK, FirstPlace, Places, Launchers
<1>1. new \in Commands
  BY <1>0 DEF Idle, Commands, Places
<1>2. CommandOK(c, new)
  <2>1. /\ new.kind = kind /\ new.pc = FirstPlace(kind) /\ new.since = launched[c]
        /\ new.nonce = None /\ new.owned = None /\ new.hit = {} /\ new.touched = {}
    BY DEF Idle
  <2>2. OwnOK(c, kind, launched[c], None, {})
    BY <1>0 DEF OwnOK
  <2> HIDE DEF new
  <2> QED
    BY <2>1, <2>2 DEF CommandOK, Bound, Verified, FirstPlace
<1>3. /\ command' = [command EXCEPT ![c] = new]
      /\ UNCHANGED <<helpers, games, port, launched, record>>
      /\ UNCHANGED <<sockets, registered>>
  BY DEF Begin, connectionVars, gameVars, launchVars
<1> HIDE DEF new
<1>4. TypeOK'
  BY <1>1, <1>3 DEF IInv, TypeOK
<1>5. LaunchesOK'
  BY <1>3 DEF IInv, LaunchesOK, Drawn
<1>6. ASSUME NEW d \in Checkouts PROVE CommandOK(d, command[d])'
  <2>1. CommandOK(d, command'[d])
    BY <1>2, <1>3 DEF IInv, TypeOK
  <2> QED
    BY <2>1, <1>3 DEF CommandOK, OwnOK, Drawn, Starting
<1> QED
  BY <1>4, <1>5, <1>6 DEF IInv

(* A fresh nonce: nobody knows it, and it is the only one that may start. *)
LEMMA FreshNonce ==
    ASSUME IInv, NEW l \in Launchers, NEW nonce, nonce = <<l, launched[l] + 1>>,
           launched' = [launched EXCEPT ![l] = @ + 1], UNCHANGED <<games, port, record>>,
           helpers' = helpers \/ helpers' = helpers \cup {[nonce |-> nonce, at |-> "check"]}
    PROVE  /\ nonce \in Nonces /\ Drawn(nonce)' /\ LaunchesOK'
           /\ launched' \in [Launchers -> Nat]
           /\ helpers' \subseteq [nonce : Nonces, at : {"check", "start", "record"}]
           /\ \A d \in Checkouts : command'[d] = command[d] => CommandOK(d, command[d])'
<1>0. launched \in [Launchers -> Nat] /\ launched[l] \in Nat
  BY DEF IInv, TypeOK
<1>1. nonce \in Nonces
  <2>1. launched[l] + 1 \in Nat \ {0}
    BY <1>0
  <2> QED
    BY <2>1 DEF Nonces
<1>2. PICK helper : helper = [nonce |-> nonce, at |-> "check"]
  OBVIOUS
<1>3. helper.nonce = nonce
  BY <1>2
<1>4. launched' \in [Launchers -> Nat]
  BY <1>0
<1>5. helpers' \subseteq [nonce : Nonces, at : {"check", "start", "record"}]
  BY <1>1 DEF IInv, TypeOK
<1>6. /\ ~Drawn(nonce)
      /\ Drawn(nonce)'
      /\ \A n \in Nonces : Drawn(n) => Drawn(n)'
      /\ \A d \in Launchers : launched[d] <= launched'[d]
  <2>1. ~Drawn(nonce) /\ Drawn(nonce)'
    BY <1>0 DEF Drawn
  <2>2. ASSUME NEW n \in Nonces, Drawn(n) PROVE Drawn(n)'
    BY <1>0, <2>2 DEF Drawn, Nonces
  <2>3. \A d \in Launchers : launched[d] <= launched'[d]
    BY <1>0
  <2> QED
    BY <2>1, <2>2, <2>3
<1>7. LaunchesOK'
  <2>1. \A h \in helpers : h.nonce \in Nonces /\ Drawn(h.nonce) /\ h.nonce # nonce
    BY <1>6 DEF IInv, TypeOK, LaunchesOK
  <2>2. \A g \in games : g \in Nonces /\ Drawn(g) /\ g # nonce
    BY <1>6 DEF IInv, TypeOK, LaunchesOK
  <2>3. \A h \in helpers' : h \in helpers \/ (h.nonce = nonce /\ h = helper)
    BY <1>2, <1>3
  <2>4. \A h \in helpers' : Drawn(h.nonce)'
    BY <1>6, <2>1, <2>3
  <2>5. \A h1, h2 \in helpers' : h1.nonce = h2.nonce => h1 = h2
    BY <2>1, <2>3 DEF IInv, LaunchesOK
  <2>6. \A h \in helpers' : h.at # "record" => h.nonce \notin games
    BY <2>2, <2>3 DEF IInv, LaunchesOK
  <2>7. (record # None => record \in Nonces /\ Drawn(record))'
    BY <1>6 DEF IInv, LaunchesOK
  <2>8. \A g \in games' : Drawn(g)'
    BY <1>6, <2>2
  <2> QED
    BY <2>4, <2>5, <2>6, <2>7, <2>8 DEF LaunchesOK
<1>8. ASSUME NEW d \in Checkouts, command'[d] = command[d] PROVE CommandOK(d, command[d])'
  <2>1. command[d] \in Commands /\ CommandOK(d, command[d])
    BY CommandType
  <2>2. PICK mine \in Nonces \cup {None} : mine = command[d].nonce
    BY <2>1 DEF Commands
  <2>3. mine # None => mine = command[d].owned /\ mine # nonce
    BY <1>6, <2>1, <2>2 DEF CommandOK, OwnOK
  <2>4. mine # None => (Starting(mine)' => Starting(mine))
    BY <1>2, <1>3, <2>3 DEF Starting
  <2>5. OwnOK(d, command[d].kind, command[d].since, command[d].owned, command[d].touched)'
    <3>1. PICK owned \in Nonces \cup {None}, since \in Nat :
            owned = command[d].owned /\ since = command[d].since
      BY <2>1 DEF Commands
    <3>2. launched[d] \in Nat /\ launched'[d] \in Nat /\ launched[d] <= launched'[d]
      BY <1>0, <1>4, <1>6 DEF Launchers
    <3>3. since <= launched[d] => since <= launched'[d]
      BY <3>2
    <3>4. OwnOK(d, command[d].kind, since, owned, command[d].touched)
      BY <2>1, <3>1 DEF CommandOK
    <3>5. OwnOK(d, command[d].kind, since, owned, command[d].touched)'
      BY <1>6, <1>8, <3>3, <3>4 DEF OwnOK
    <3> QED
      BY <1>8, <3>1, <3>5
  <2> QED
    BY <1>8, <2>1, <2>2, <2>4, <2>5 DEF CommandOK
<1> QED
  BY <1>1, <1>4, <1>5, <1>6, <1>7, <1>8

LEMMA LaunchStep ==
    ASSUME IInv, NEW c \in Checkouts, Launch(c)
    PROVE  IInv'
<1>0. /\ command[c] \in Commands /\ CommandOK(c, command[c]) /\ command[c].pc = "launch"
      /\ launched \in [Launchers -> Nat] /\ launched[c] \in Nat /\ c \in Launchers
  BY CommandType DEF Launch, IInv, TypeOK, Launchers
<1>1. PICK nonce : nonce = <<c, launched[c] + 1>>
  OBVIOUS
<1>2. /\ launched' = [launched EXCEPT ![c] = @ + 1]
      /\ UNCHANGED <<sockets, registered, games, port, record>>
      /\ helpers' = helpers \/ helpers' = helpers \cup {[nonce |-> nonce, at |-> "check"]}
  BY <1>1 DEF Launch, connectionVars, gameVars
<1>3. /\ nonce \in Nonces /\ Drawn(nonce)' /\ LaunchesOK'
      /\ launched' \in [Launchers -> Nat]
      /\ helpers' \subseteq [nonce : Nonces, at : {"check", "start", "record"}]
      /\ \A d \in Checkouts : command'[d] = command[d] => CommandOK(d, command[d])'
  BY <1>0, <1>1, <1>2, FreshNonce
<1>4. PICK owning \in Commands :
        owning = [command[c] EXCEPT !.pc = "await", !.nonce = nonce, !.owned = nonce,
                                    !.closed = FALSE, !.touched = {}]
  BY <1>0, <1>3 DEF Commands, Places
<1>5. PICK failing \in Commands :
        failing = [owning EXCEPT !.pc = "stop", !.ok = StillOk(c, FALSE)]
  <2>1. StillOk(c, FALSE) \in BOOLEAN
    BY <1>0 DEF StillOk, Commands
  <2> QED
    BY <2>1 DEF Commands, Places
<1>6. \/ command' = [command EXCEPT ![c] = owning]
      \/ command' = [command EXCEPT ![c] = failing]
  BY <1>1, <1>4, <1>5 DEF Launch, Step
<1>7. ASSUME NEW new \in {owning, failing} PROVE CommandOK(c, new)'
  <2>1. /\ new.pc \in {"await", "stop"} /\ new.nonce = nonce /\ new.owned = nonce
        /\ new.touched = {} /\ new.hit = command[c].hit
        /\ new.kind = command[c].kind /\ new.since = command[c].since
    <3>1. /\ owning.pc = "await" /\ owning.nonce = nonce /\ owning.owned = nonce
          /\ owning.touched = {} /\ owning.hit = command[c].hit
          /\ owning.kind = command[c].kind /\ owning.since = command[c].since
      BY <1>0, <1>4 DEF Commands
    <3>2. /\ failing.pc = "stop" /\ failing.nonce = nonce /\ failing.owned = nonce
          /\ failing.touched = {} /\ failing.hit = command[c].hit
          /\ failing.kind = command[c].kind /\ failing.since = command[c].since
      BY <1>5, <3>1 DEF Commands
    <3> QED
      BY <3>1, <3>2
  <2>2. command[c].hit = {} /\ command[c].kind \in Kinds
    BY <1>0 DEF CommandOK
  <2>3. OwnOK(c, new.kind, new.since, nonce, {})'
    <3>1. PICK since \in Nat : since = new.since /\ since <= launched[c]
      BY <1>0, <2>1 DEF CommandOK, OwnOK, Commands
    <3>2. launched'[c] = launched[c] + 1 /\ nonce[1] = c /\ nonce[2] = launched[c] + 1
      BY <1>0, <1>1, <1>2
    <3>3. since <= launched'[c] /\ nonce[2] > since
      BY <1>0, <3>1, <3>2
    <3>4. OwnOK(c, new.kind, since, nonce, {})'
      BY <1>3, <3>2, <3>3 DEF OwnOK
    <3> QED
      BY <3>1, <3>4
  <2>4. OwnOK(c, new.kind, new.since, new.owned, new.touched)'
    BY <2>1, <2>3
  <2> QED
    BY <1>3, <2>1, <2>2, <2>4, NoNonce DEF CommandOK, Bound, Verified
<1>8. TypeOK'
  <2>1. command' \in [Checkouts -> Commands]
    BY <1>6 DEF IInv, TypeOK
  <2> QED
    BY <1>2, <1>3, <2>1 DEF IInv, TypeOK
<1>9. ASSUME NEW d \in Checkouts PROVE CommandOK(d, command[d])'
  <2>1. CASE d = c
    <3>1. command'[d] = owning \/ command'[d] = failing
      BY <1>6, <2>1 DEF IInv, TypeOK
    <3> QED
      BY <2>1, <3>1, <1>7 DEF CommandOK
  <2>2. CASE d # c
    <3>1. command'[d] = command[d]
      BY <1>6, <2>2 DEF IInv, TypeOK
    <3> QED
      BY <1>3, <3>1
  <2> QED
    BY <2>1, <2>2
<1> QED
  BY <1>3, <1>8, <1>9 DEF IInv

(* A launch without a command draws a nonce of its own. *)
LEMMA OperatorLaunchStep ==
    ASSUME IInv, NEW c \in Checkouts, OperatorLaunches(c)
    PROVE  IInv'
<1>1. PICK nonce : nonce = <<Operator, launched[Operator] + 1>>
  OBVIOUS
<1>2. /\ launched' = [launched EXCEPT ![Operator] = @ + 1] /\ Operator \in Launchers
      /\ UNCHANGED <<sockets, registered, games, port, record, command>>
      /\ helpers' = helpers \cup {[nonce |-> nonce, at |-> "check"]}
  BY <1>1 DEF OperatorLaunches, Launchers, connectionVars, gameVars
<1>3. /\ LaunchesOK' /\ launched' \in [Launchers -> Nat]
      /\ helpers' \subseteq [nonce : Nonces, at : {"check", "start", "record"}]
      /\ \A d \in Checkouts : command'[d] = command[d] => CommandOK(d, command[d])'
  BY <1>1, <1>2, FreshNonce
<1>4. TypeOK'
  BY <1>2, <1>3 DEF IInv, TypeOK
<1> QED
  BY <1>2, <1>3, <1>4 DEF IInv

LEMMA OpeningStep ==
    ASSUME IInv, NEW c \in Checkouts, Opening(c)
    PROVE  IInv'
<1>1. command[c] \in Commands /\ CommandOK(c, command[c])
  BY CommandType
<1>2. command[c].pc # "idle" => command[c].kind \in Kinds
  BY <1>1 DEF CommandOK
<1>3. ASSUME NEW kind \in Kinds, Begin(c, kind) PROVE IInv'
  BY <1>3, BeginStep
<1>4. CASE Launch(c)
  BY <1>4, LaunchStep
<1>5. CASE LaunchRefused(c)
  <2>1. /\ command[c].kind \in Kinds /\ command[c].pc = "launch"
        /\ command[c].nonce = None /\ command[c].since <= launched[c]
    BY <1>1, <1>2, <1>5 DEF LaunchRefused, CommandOK, OwnOK, Bound, Verified
  <2>2. Stopping(c, FALSE) \in Commands
    BY <2>1, StoppingOK
  <2>3. PICK new \in Commands : new = [Stopping(c, FALSE) EXCEPT !.owned = None, !.touched = {}]
    BY <2>2 DEF Commands
  <2>4. /\ new.pc = "stop" /\ new.kind = command[c].kind /\ new.nonce = None
        /\ new.owned = None /\ new.touched = {} /\ new.hit = {}
        /\ new.since = command[c].since
    BY <1>1, <2>1, <2>3 DEF Stopping, Commands
  <2>5. OwnOK(c, new.kind, new.since, new.owned, new.touched)
    BY <2>1, <2>4 DEF OwnOK
  <2>6. CommandOK(c, new)
    BY <2>1, <2>4, <2>5 DEF CommandOK, Bound, Verified
  <2> QED
    BY <1>5, <2>3, <2>6, QuietStep DEF LaunchRefused
<1>6. CASE Poll(c)
  <2>1. [command[c] EXCEPT !.pipe = TRUE] \in Commands
    BY <1>1 DEF Commands
  <2>2. CommandOK(c, [command[c] EXCEPT !.pipe = TRUE])
    BY <1>1 DEF CommandOK, Commands
  <2> QED
    BY <1>6, <2>1, <2>2, QuietStep DEF Poll
<1>7. CASE Handshake(c)
  <2>1. /\ AfterLaunch[command[c].kind] \in Places \ {"adopt", "takeover"}
        /\ AfterLaunch[command[c].kind] \in Bound \cup {"stop"}
    BY <1>2, <1>7
    DEF Handshake, AfterLaunch, Kinds, Diagnostics, Places, Bound, Verified
  <2> QED
    BY <1>2, <1>7, <2>1, AcceptsOK DEF Handshake
<1>8. CASE Lease(c)
  <2> DEFINE new == [command[c] EXCEPT !.pc = "reset", !.pipe = TRUE]
  <2>1. new \in Commands
    BY <1>1 DEF Commands, Places
  <2>2. CommandOK(c, new)
    BY <1>1, <1>8 DEF Lease, CommandOK, Commands, Bound, Verified
  <2> HIDE DEF new
  <2> QED
    BY <1>8, <2>1, <2>2, QuietStep DEF Lease, new
<1>9. CASE StartRun(c)
  <2> DEFINE new == [command[c] EXCEPT !.pc = "settle"]
             lost == Stopping(c, FALSE)
  <2>1. new \in Commands /\ CommandOK(c, new)
    BY <1>1, <1>9 DEF StartRun, CommandOK, Commands, Places, Bound, Verified
  <2>2. lost \in Commands /\ CommandOK(c, lost)
    BY <1>2, <1>9, StoppingOK DEF StartRun, Bound, Verified
  <2>3. /\ new.pc = "settle" /\ lost.pc = "stop"
        /\ new.nonce = command[c].nonce /\ lost.nonce = command[c].nonce
    BY <1>1 DEF Stopping, Commands
  <2>4. command[c].nonce # None /\ ~Starting(command[c].nonce)
    BY <1>1, <1>9 DEF StartRun, CommandOK, Bound, Verified
  <2>5. Call(c, new, lost)
    BY <1>9 DEF StartRun
  <2> HIDE DEF new, lost
  <2> QED
    BY <2>1, <2>2, <2>3, <2>4, <2>5, CallOK
<1>10. CASE Ready(c)
  BY <1>2, <1>10, AcceptsOK DEF Ready, Places, Bound, Verified
<1> QED
  BY <1>3, <1>4, <1>5, <1>6, <1>7, <1>8, <1>9, <1>10 DEF Opening

-----------------------------------------------------------------------------
(* Fields of a command may be replaced by others of their type. *)
LEMMA WithPlace ==
    ASSUME NEW cmd \in Commands, NEW pc \in Places, NEW ok \in BOOLEAN, NEW pipe \in BOOLEAN
    PROVE  /\ [cmd EXCEPT !.pc = pc] \in Commands
           /\ [cmd EXCEPT !.pc = pc, !.ok = ok] \in Commands
           /\ [cmd EXCEPT !.pc = pc, !.pipe = pipe] \in Commands
<1>1. [cmd EXCEPT !.pc = pc] \in Commands
  BY DEF Commands
<1>2. [cmd EXCEPT !.pc = pc, !.ok = ok] \in Commands
  BY DEF Commands
<1>3. [cmd EXCEPT !.pc = pc, !.pipe = pipe] \in Commands
  BY DEF Commands
<1> QED
  BY <1>1, <1>2, <1>3

LEMMA WithMoves ==
    ASSUME NEW cmd \in Commands, NEW moves \in Nat
    PROVE  [cmd EXCEPT !.moves = moves] \in Commands
  BY DEF Commands

(* Playing. *)
LEMMA MoveOrLoad ==
    ASSUME IInv, NEW c \in Checkouts, Move(c) \/ Load(c)
    PROVE  IInv'
<1>1. /\ command[c] \in Commands /\ CommandOK(c, command[c])
      /\ command[c].pc = "play" /\ command[c].kind \in Kinds
  BY CommandType DEF Move, Load, CommandOK
<1>2. command[c].nonce # None /\ ~Starting(command[c].nonce) /\ command[c].hit = {}
  BY <1>1 DEF CommandOK, Bound, Verified
<1>3. PICK moved \in Commands : moved = Moved(c)
  <2>1. command[c].moves + 1 \in Nat
    BY <1>1 DEF Commands
  <2> QED
    BY <1>1, <2>1, WithMoves DEF Moved
<1>4. PICK next \in Commands : next = [moved EXCEPT !.pc = "settle"]
  BY WithPlace DEF Places
<1>5. PICK asking \in Commands : asking = [moved EXCEPT !.pc = "status"]
  BY WithPlace DEF Places
<1>6. PICK stopping \in Commands : stopping = Stopping(c, FALSE)
  BY <1>1, StoppingOK
<1>7. /\ next.pc = "settle" /\ asking.pc = "status" /\ stopping.pc = "stop"
      /\ next.nonce = command[c].nonce /\ asking.nonce = command[c].nonce
      /\ stopping.nonce = command[c].nonce
  BY <1>1, <1>3, <1>4, <1>5, <1>6 DEF Moved, Stopping, Commands
<1>8. CommandOK(c, next) /\ CommandOK(c, asking)
  BY <1>1, <1>2, <1>3, <1>4, <1>5 DEF Moved, CommandOK, Commands, Bound, Verified
<1>9. CommandOK(c, stopping)
  BY <1>1, <1>6, StoppingOK DEF Bound, Verified
<1>10. Call(c, next, asking) \/ Call(c, next, stopping)
  BY <1>3, <1>4, <1>5, <1>6 DEF Move, Load
<1> QED
  BY <1>2, <1>7, <1>8, <1>9, <1>10, CallOK

LEMMA RefusalOK ==
    ASSUME IInv, NEW c \in Checkouts, command[c].kind \in Kinds,
           command[c].pc \in {"play", "status"}
    PROVE  Refusal(c) \in Commands /\ CommandOK(c, Refusal(c))
<1>1. command[c] \in Commands /\ CommandOK(c, command[c])
  BY CommandType
<1>2. Stopping(c, FALSE) \in Commands /\ CommandOK(c, Stopping(c, FALSE))
  BY StoppingOK DEF Bound, Verified
<1>3. CASE command[c].kind = "session"
  <2>1. PICK back \in Commands :
          back = [command[c] EXCEPT !.pc = "lease", !.pipe = FALSE, !.hit = {}]
    BY <1>1, ZenonT(40) DEF Commands, Places
  <2>2. /\ back.pc = "lease" /\ back.kind = command[c].kind /\ back.hit = {}
        /\ back.nonce = command[c].nonce /\ back.owned = command[c].owned
        /\ back.touched = command[c].touched /\ back.since = command[c].since
    BY <1>1, <2>1 DEF Commands
  <2>3. CommandOK(c, back)
    BY <1>1, <2>2 DEF CommandOK, Bound, Verified
  <2> QED
    BY <1>3, <2>1, <2>3 DEF Refusal
<1>4. CASE command[c].kind # "session"
  BY <1>2, <1>4 DEF Refusal
<1> QED
  BY <1>3, <1>4

LEMMA PlayingStep ==
    ASSUME IInv, NEW c \in Checkouts, Playing(c)
    PROVE  IInv'
<1>1. command[c] \in Commands /\ CommandOK(c, command[c])
  BY CommandType
<1>2. command[c].pc # "idle" => command[c].kind \in Kinds
  BY <1>1 DEF CommandOK
<1>3. CASE Move(c) \/ Load(c)
  BY <1>3, MoveOrLoad
<1>4. CASE MoveRefused(c)
  <2>1. command[c].kind \in Kinds /\ command[c].pc = "play"
    BY <1>2, <1>4 DEF MoveRefused
  <2>2. PICK refusal \in Commands : refusal = Refusal(c) /\ CommandOK(c, refusal)
    BY <2>1, RefusalOK
  <2>3. PICK counted \in Commands : counted = [refusal EXCEPT !.moves = @ + 1]
    <3>1. refusal.moves + 1 \in Nat
      BY <2>2 DEF Commands
    <3> QED
      BY <2>2, <3>1, WithMoves
  <2>4. CommandOK(c, counted)
    BY <2>2, <2>3 DEF CommandOK, Commands
  <2>5. Quietly(c, counted) \/ Quietly(c, refusal)
    BY <1>4, <2>2, <2>3 DEF MoveRefused
  <2> QED
    BY <2>2, <2>4, <2>5, QuietStep
<1>5. CASE StatusAnswered(c)
  <2>1. command[c].kind \in Kinds /\ command[c].pc = "status"
    BY <1>2, <1>5 DEF StatusAnswered
  <2>2. CASE Quietly(c, [command[c] EXCEPT !.pc = "settle", !.pipe = TRUE])
    <3>1. PICK new \in Commands : new = [command[c] EXCEPT !.pc = "settle", !.pipe = TRUE]
      BY <1>1 DEF Commands, Places
    <3>2. CommandOK(c, new)
      BY <1>1, <2>1, <3>1 DEF CommandOK, Commands, Bound, Verified
    <3> QED
      BY <2>2, <3>1, <3>2, QuietStep
  <2>3. CASE Quietly(c, Refusal(c))
    BY <2>1, <2>3, RefusalOK, QuietStep
  <2>4. CASE Quietly(c, Stopping(c, FALSE))
    BY <2>1, <2>4, StoppingOK, QuietStep DEF Bound, Verified
  <2> QED
    BY <1>5, <2>2, <2>3, <2>4 DEF StatusAnswered
<1>6. CASE StatusUnknown(c)
  BY <1>2, <1>6, StoppingOK, QuietStep DEF StatusUnknown, Bound, Verified
<1>7. CASE Hold(c)
  <2>1. PICK held \in SUBSET Nonces : held = Victim(command[c].nonce)
    BY DEF Victim, IInv, TypeOK
  <2>2. /\ held \subseteq {command[c].owned}
        /\ command[c].kind \in Kinds
    BY <1>1, <1>2, <1>7, <2>1 DEF Hold, Identified, Victim, CommandOK
  <2>3. PICK stopping \in Commands : stopping = Stopping(c, TRUE) /\ CommandOK(c, stopping)
    BY <1>7, StoppingOK DEF Hold, Bound, Verified
  <2>4. stopping.owned = command[c].owned /\ stopping.pc = "stop"
    BY <1>1, <2>3 DEF Stopping, Commands
  <2>5. PICK new \in Commands : new = [stopping EXCEPT !.touched = @ \cup held]
    BY <2>3 DEF Commands
  <2>6. CommandOK(c, new)
    BY <2>2, <2>3, <2>4, <2>5, TouchOK
  <2> QED
    BY <1>7, <2>1, <2>3, <2>5, <2>6, QuietStep DEF Hold
<1>8. CASE Release(c)
  <2>1. PICK new \in Commands : new = [command[c] EXCEPT !.pc = "lease", !.pipe = FALSE]
    BY <1>1 DEF Commands, Places
  <2>2. CommandOK(c, new)
    BY <1>1, <1>8, <2>1 DEF Release, CommandOK, Commands, Bound, Verified
  <2> QED
    BY <1>8, <2>1, <2>2, QuietStep DEF Release
<1>9. CASE EndPlay(c)
  BY <1>2, <1>9, StoppingOK, QuietStep DEF EndPlay, Bound, Verified
<1>10. CASE GivesUp(c)
  BY <1>2, <1>10, StoppingOK, QuietStep DEF GivesUp, Bound, Verified
<1> QED
  BY <1>3, <1>4, <1>5, <1>6, <1>7, <1>8, <1>9, <1>10 DEF Playing

-----------------------------------------------------------------------------
(* The connection check and the disposable session.  Their commands only walk
   on: what they carry of games stays as it is. *)
LEMMA WalksOn ==
    ASSUME IInv, NEW c \in Checkouts, NEW new \in Commands,
           NEW pc \in {"swap", "reap", "launch", "refuse", "restore", "recover", "expire"},
           command[c].pc \in {"child", "swap", "expire", "refuse", "restore", "reap", "after"},
           new.pc = pc, new.kind = command[c].kind, new.nonce = command[c].nonce,
           new.owned = command[c].owned, new.touched = command[c].touched,
           new.since = command[c].since, new.hit = command[c].hit
    PROVE  CommandOK(c, new)
<1>1. CommandOK(c, command[c])
  BY CommandType
<1> QED
  BY <1>1 DEF CommandOK, Bound, Verified

LEMMA WalksOnWith ==
    ASSUME IInv, NEW c \in Checkouts, NEW new \in Commands, NEW ok \in BOOLEAN,
           NEW pc \in {"swap", "reap", "launch", "refuse", "restore", "recover", "expire"},
           command[c] \in Commands,
           command[c].pc \in {"child", "swap", "expire", "refuse", "restore", "reap", "after"},
           new = [command[c] EXCEPT !.pc = pc, !.ok = ok]
    PROVE  CommandOK(c, new)
<1>1. /\ new.pc = pc /\ new.kind = command[c].kind /\ new.nonce = command[c].nonce
      /\ new.owned = command[c].owned /\ new.touched = command[c].touched
      /\ new.since = command[c].since /\ new.hit = command[c].hit
  BY DEF Commands
<1> QED
  BY <1>1, WalksOn

LEMMA ReconnectingStep ==
    ASSUME IInv, NEW c \in Checkouts, Reconnecting(c)
    PROVE  IInv'
<1>0. /\ command[c] \in Commands /\ CommandOK(c, command[c])
      /\ sockets \subseteq Sockets /\ ChildSocket(c) \in Sockets
      /\ registered[c] \in Sockets \cup {None}
      /\ registered \in [Checkouts -> Sockets \cup {None}]
  BY CommandType DEF IInv, TypeOK, Sockets
<1>1. command[c].pc # "idle" => command[c].kind \in Kinds
  BY <1>0 DEF CommandOK
<1>2. CASE AtMenu(c)
  BY <1>1, <1>2, AcceptsOK DEF AtMenu, Places, Bound, Verified
<1>3. CASE Unregister(c)
  <2>1. PICK new \in Commands :
          new = [command[c] EXCEPT !.pc = "refused", !.pipe = FALSE, !.saved = registered[c]]
    BY <1>0, ZenonT(40) DEF Commands, Places
  <2>2. CommandOK(c, new)
    BY <1>0, <1>3, <2>1 DEF Unregister, CommandOK, Commands, Bound, Verified
  <2>3. registered' \in [Checkouts -> Sockets \cup {None}] /\ sockets' = sockets
    BY <1>0, <1>3 DEF Unregister
  <2> QED
    BY <1>0, <1>3, <2>1, <2>2, <2>3, CommandStep DEF Unregister
<1>4. CASE Refused(c)
  <2>1. PICK on \in Commands : on = [command[c] EXCEPT !.pc = "register"]
    BY <1>0 DEF Commands, Places
  <2>2. CommandOK(c, on)
    BY <1>0, <1>4, <2>1 DEF Refused, CommandOK, Commands, Bound, Verified
  <2>3. PICK stopping \in Commands : stopping = Stopping(c, FALSE) /\ CommandOK(c, stopping)
    BY <1>1, <1>4, StoppingOK DEF Refused, Bound, Verified
  <2>4. command[c].saved \in Sockets \cup {None}
    BY <1>0 DEF Commands
  <2>5. registered' \in [Checkouts -> Sockets \cup {None}] /\ sockets' = sockets
    BY <1>0, <1>4, <2>4 DEF Refused
  <2>6. Step(c, on) \/ Step(c, stopping)
    BY <1>4, <2>1, <2>3 DEF Refused
  <2> QED
    BY <1>0, <1>4, <2>2, <2>3, <2>5, <2>6, CommandStep DEF Refused
<1>5. CASE Reconnected(c)
  BY <1>1, <1>5, AcceptsOK DEF Reconnected, Places, Bound, Verified
<1>6. CASE ChildStarts(c)
  <2>1. PICK on \in Commands : on = [command[c] EXCEPT !.pc = "swap"]
    BY <1>0 DEF Commands, Places
  <2>2. PICK fails \in Commands : fails = [command[c] EXCEPT !.pc = "reap", !.ok = FALSE]
    BY <1>0, WithPlace DEF Places
  <2>3. CommandOK(c, on) /\ CommandOK(c, fails)
    <3>1. CommandOK(c, on)
      BY <1>0, <1>6, <2>1, WalksOn DEF ChildStarts, Commands
    <3>2. CommandOK(c, fails)
      BY <1>0, <1>6, <2>2, WalksOnWith DEF ChildStarts
    <3> QED
      BY <3>1, <3>2
  <2>4. registered' = registered /\ sockets' \subseteq Sockets
    BY <1>0, <1>6 DEF ChildStarts
  <2>5. Step(c, on) \/ Step(c, fails)
    BY <1>6, <2>1, <2>2 DEF ChildStarts
  <2> QED
    BY <1>0, <1>6, <2>3, <2>4, <2>5, CommandStep DEF ChildStarts
<1>7. CASE Swap(c)
  <2>1. PICK place \in {"launch", "restore"}, ok \in BOOLEAN :
          /\ place = IF RuntimeIdle THEN "launch" ELSE "restore"
          /\ ok = (command[c].ok /\ RuntimeIdle)
    BY <1>0 DEF Commands
  <2>2. PICK on \in Commands :
          on = [command[c] EXCEPT !.pc = place, !.ok = ok, !.saved = registered[c]]
    BY <1>0, ZenonT(40) DEF Commands, Places
  <2>3. PICK fails \in Commands : fails = [command[c] EXCEPT !.pc = "reap", !.ok = FALSE]
    BY <1>0, WithPlace DEF Places
  <2>4. CommandOK(c, on) /\ CommandOK(c, fails)
    <3>1. CommandOK(c, on)
      <4>1. /\ on.pc = place /\ on.kind = command[c].kind /\ on.nonce = command[c].nonce
            /\ on.owned = command[c].owned /\ on.touched = command[c].touched
            /\ on.since = command[c].since /\ on.hit = command[c].hit
        BY <1>0, <2>2 DEF Commands
      <4> QED
        BY <1>7, <4>1, WalksOn DEF Swap
    <3>2. CommandOK(c, fails)
      BY <1>0, <1>7, <2>3, WalksOnWith DEF Swap
    <3> QED
      BY <3>1, <3>2
  <2>5. registered' \in [Checkouts -> Sockets \cup {None}] /\ sockets' = sockets
    BY <1>0, <1>7 DEF Swap
  <2>6. Step(c, on) \/ Step(c, fails)
    BY <1>7, <2>1, <2>2, <2>3 DEF Swap
  <2> QED
    BY <1>0, <1>7, <2>4, <2>5, <2>6, CommandStep DEF Swap
<1>8. CASE ExpireChild(c)
  <2>1. PICK on \in Commands : on = [command[c] EXCEPT !.pc = "refuse"]
    BY <1>0 DEF Commands, Places
  <2>2. PICK fails \in Commands : fails = [command[c] EXCEPT !.pc = "restore", !.ok = FALSE]
    BY <1>0, WithPlace DEF Places
  <2>3. CommandOK(c, on) /\ CommandOK(c, fails)
    <3>1. CommandOK(c, on)
      BY <1>0, <1>8, <2>1, WalksOn DEF ExpireChild, Commands
    <3>2. CommandOK(c, fails)
      BY <1>0, <1>8, <2>2, WalksOnWith DEF ExpireChild
    <3> QED
      BY <3>1, <3>2
  <2>4. registered' = registered /\ sockets' \subseteq Sockets
    BY <1>0, <1>8 DEF ExpireChild
  <2>5. Step(c, on) \/ Step(c, fails)
    BY <1>8, <2>1, <2>2 DEF ExpireChild
  <2> QED
    BY <1>0, <1>8, <2>3, <2>4, <2>5, CommandStep DEF ExpireChild
<1>9. CASE RefusedBeforeLaunch(c)
  <2>1. PICK ok \in BOOLEAN : ok = (command[c].ok /\ ~Usable(c))
    OBVIOUS
  <2>2. PICK new \in Commands : new = [command[c] EXCEPT !.pc = "restore", !.ok = ok]
    BY <1>0, ZenonT(40) DEF Commands, Places
  <2>3. CommandOK(c, new)
    BY <1>0, <1>9, <2>2, WalksOnWith DEF RefusedBeforeLaunch
  <2> QED
    BY <1>9, <2>1, <2>2, <2>3, QuietStep DEF RefusedBeforeLaunch
<1>10. CASE RestoreRegistration(c)
  <2>1. PICK ok \in BOOLEAN : ok = (command[c].ok /\ command[c].saved \in sockets)
    OBVIOUS
  <2>2. PICK new \in Commands : new = [command[c] EXCEPT !.pc = "reap", !.ok = ok]
    BY <1>0, ZenonT(40) DEF Commands, Places
  <2>3. CommandOK(c, new)
    BY <1>0, <1>10, <2>2, WalksOnWith DEF RestoreRegistration
  <2>4. command[c].saved \in Sockets \cup {None}
    BY <1>0 DEF Commands
  <2>5. registered' \in [Checkouts -> Sockets \cup {None}] /\ sockets' = sockets
    BY <1>0, <1>10, <2>4 DEF RestoreRegistration
  <2> QED
    BY <1>0, <1>10, <2>1, <2>2, <2>3, <2>5, CommandStep DEF RestoreRegistration
<1>11. CASE ReapChild(c)
  <2>1. PICK on \in Commands : on = [command[c] EXCEPT !.pc = "recover"]
    BY <1>0 DEF Commands, Places
  <2>2. PICK fails \in Commands : fails = [command[c] EXCEPT !.pc = "recover", !.ok = FALSE]
    BY <1>0, WithPlace DEF Places
  <2>3. CommandOK(c, on) /\ CommandOK(c, fails)
    <3>1. CommandOK(c, on)
      BY <1>0, <1>11, <2>1, WalksOn DEF ReapChild, Commands
    <3>2. CommandOK(c, fails)
      BY <1>0, <1>11, <2>2, WalksOnWith DEF ReapChild
    <3> QED
      BY <3>1, <3>2
  <2>4. registered' = registered /\ sockets' \subseteq Sockets
    BY <1>0, <1>11 DEF ReapChild
  <2>5. Step(c, on) \/ Step(c, fails)
    BY <1>11, <2>1, <2>2 DEF ReapChild
  <2> QED
    BY <1>0, <1>11, <2>3, <2>4, <2>5, CommandStep DEF ReapChild
<1> QED
  BY <1>2, <1>3, <1>4, <1>5, <1>6, <1>7, <1>8, <1>9, <1>10, <1>11 DEF Reconnecting

-----------------------------------------------------------------------------
(* The end of a command: stop mode takes games away and gives none the port. *)
LEMMA GamesGo ==
    ASSUME IInv, NEW c \in Checkouts, NEW new \in Commands, CommandOK(c, new), Step(c, new),
           UNCHANGED <<connectionVars, launchVars>>,
           games' \subseteq games, port' \in {port, None}, port' \in games' \cup {None}
    PROVE  IInv'
<1>1. /\ command' = [command EXCEPT ![c] = new]
      /\ UNCHANGED <<helpers, launched, record, sockets, registered>>
  BY DEF Step, connectionVars, launchVars
<1>2. TypeOK'
  BY <1>1 DEF IInv, TypeOK
<1>3. LaunchesOK'
  BY <1>1 DEF IInv, LaunchesOK, Drawn
<1>4. ASSUME NEW d \in Checkouts PROVE CommandOK(d, command[d])'
  <2>1. CommandOK(d, command'[d])
    BY <1>1 DEF IInv, TypeOK
  <2> QED
    BY <2>1, <1>1 DEF CommandOK, OwnOK, Drawn, Starting
<1> QED
  BY <1>2, <1>3, <1>4 DEF IInv

LEMMA StopModeStep ==
    ASSUME IInv, NEW c \in Checkouts, NEW nonce,
           NEW done \in Commands, CommandOK(c, done), done.owned = nonce,
           NEW failed \in Commands, CommandOK(c, failed), failed.owned = nonce,
           nonce = None => done.kind = "restart" /\ failed.kind = "restart",
           done.pc # "adopt", failed.pc # "adopt",
           StopMode(c, nonce, done, failed)
    PROVE  IInv'
<1>0. games \subseteq Nonces /\ port \in games \cup {None} /\ sockets \subseteq Sockets
      /\ registered \in [Checkouts -> Sockets \cup {None}]
  BY DEF IInv, TypeOK
<1>1. PICK victim \in SUBSET Nonces : victim = Victim(nonce)
  BY <1>0 DEF Victim
<1>2. nonce # None => victim \subseteq {nonce}
  BY <1>1 DEF Victim
<1>3. CASE /\ games' = games \ victim
           /\ port' = IF port \in victim THEN None ELSE port
           /\ \E cmd \in {done, failed} : Step(c, [cmd EXCEPT !.touched = @ \cup victim])
  <2>1. PICK cmd \in {done, failed} : Step(c, [cmd EXCEPT !.touched = @ \cup victim])
    BY <1>3
  <2>2. /\ [cmd EXCEPT !.touched = @ \cup victim] \in Commands
        /\ CommandOK(c, [cmd EXCEPT !.touched = @ \cup victim])
    BY <1>2, TouchOK
  <2>3. PICK new \in Commands : new = [cmd EXCEPT !.touched = @ \cup victim]
    BY <2>2
  <2>4. /\ games' \subseteq games /\ port' \in {port, None}
        /\ port' \in games' \cup {None}
    BY <1>0, <1>3
  <2> QED
    BY <2>1, <2>2, <2>3, <2>4, GamesGo DEF StopMode
<1>4. CASE UNCHANGED gameVars /\ Step(c, failed)
  BY <1>0, <1>4, GamesGo DEF StopMode, gameVars
<1> QED
  BY <1>1, <1>3, <1>4 DEF StopMode

LEMMA EndsStep ==
    ASSUME IInv, NEW c \in Checkouts, NEW passed, Ends(c, passed)
    PROVE  IInv'
<1>1. Idle \in Commands
  BY IdleOK
<1>2. CommandOK(c, Idle)
  BY IdleOK
<1>3. /\ command' = [command EXCEPT ![c] = Idle]
      /\ UNCHANGED <<helpers, games, port, launched, record, sockets, registered>>
  BY DEF Ends, connectionVars, gameVars, launchVars
<1>4. TypeOK'
  BY <1>1, <1>3 DEF IInv, TypeOK
<1>5. LaunchesOK'
  BY <1>3 DEF IInv, LaunchesOK, Drawn
<1>6. ASSUME NEW d \in Checkouts PROVE CommandOK(d, command[d])'
  <2>1. CommandOK(d, command'[d])
    BY <1>2, <1>3 DEF IInv, TypeOK
  <2> QED
    BY <2>1, <1>3 DEF CommandOK, OwnOK, Drawn, Starting
<1> QED
  BY <1>4, <1>5, <1>6 DEF IInv

LEMMA ClosingStep ==
    ASSUME IInv, NEW c \in Checkouts, Closing(c)
    PROVE  IInv'
<1>1. command[c] \in Commands /\ CommandOK(c, command[c])
  BY CommandType
<1>2. command[c].pc # "idle" => command[c].kind \in Kinds
  BY <1>1 DEF CommandOK
<1>3. CASE Stop(c)
  <2>1. PICK nonce \in Nonces \cup {None} : nonce = command[c].nonce
    BY <1>1 DEF Commands
  <2>2. PICK stopped \in Commands :
          stopped = [command[c] EXCEPT !.nonce = None, !.pipe = FALSE, !.hit = {}]
    BY <1>1, ZenonT(40) DEF Commands
  <2>3. AfterStop(c, TRUE) \in Places /\ AfterStop(c, FALSE) \in Places
    BY DEF AfterStop, Places
  <2>4. PICK ok \in BOOLEAN : ok = StillOk(c, FALSE)
    BY <1>1 DEF StillOk, Commands
  <2>5. PICK done \in Commands :
          done = [stopped EXCEPT !.pc = AfterStop(c, TRUE), !.closed = TRUE]
    BY <2>3 DEF Commands
  <2>6. PICK failed \in Commands :
          failed = [stopped EXCEPT !.pc = AfterStop(c, FALSE), !.ok = ok]
    BY <2>3 DEF Commands
  <2>7. ASSUME NEW cmd \in {done, failed}
        PROVE  /\ cmd.owned = command[c].owned /\ cmd.nonce = None /\ cmd.hit = {}
               /\ cmd.kind = command[c].kind /\ cmd.since = command[c].since
               /\ cmd.touched = command[c].touched /\ cmd.pc \in {"restore", "after"}
    <3>1. /\ stopped.owned = command[c].owned /\ stopped.nonce = None /\ stopped.hit = {}
          /\ stopped.kind = command[c].kind /\ stopped.since = command[c].since
          /\ stopped.touched = command[c].touched
      BY <1>1, <2>2 DEF Commands
    <3> QED
      <4>1. AfterStop(c, TRUE) \in {"restore", "after"} /\ AfterStop(c, FALSE) \in {"restore", "after"}
        BY DEF AfterStop
      <4>2. CASE cmd = done
        BY <2>5, <3>1, <4>1, <4>2 DEF Commands
      <4>3. CASE cmd = failed
        BY <2>6, <3>1, <4>1, <4>3 DEF Commands
      <4> QED
        BY <4>2, <4>3
  <2>8. /\ command[c].kind \in Kinds
        /\ nonce = None => command[c].kind = "restart"
        /\ nonce = command[c].owned
    BY <1>1, <1>2, <1>3, <2>1 DEF Stop, CommandOK
  <2>9. ASSUME NEW cmd \in {done, failed} PROVE CommandOK(c, cmd)
    BY <1>1, <2>7, <2>8 DEF CommandOK, Bound, Verified
  <2>10. StopMode(c, nonce, done, failed)
    BY <1>3, <2>1, <2>2, <2>4, <2>5, <2>6 DEF Stop
  <2>11. /\ CommandOK(c, done) /\ done.owned = nonce /\ done.kind = command[c].kind
         /\ CommandOK(c, failed) /\ failed.owned = nonce /\ failed.kind = command[c].kind
         /\ done.pc # "adopt" /\ failed.pc # "adopt"
    BY <2>7, <2>8, <2>9
  <2> QED
    BY <2>8, <2>10, <2>11, StopModeStep
<1>4. CASE NothingToStop(c)
  <2>1. AfterStop(c, TRUE) \in {"restore", "after"}
    BY DEF AfterStop
  <2>2. PICK new \in Commands :
          new = [command[c] EXCEPT !.pc = AfterStop(c, TRUE), !.closed = TRUE]
    BY <1>1, <2>1 DEF Commands, Places
  <2>3. CommandOK(c, new)
    BY <1>1, <1>2, <1>4, <2>1, <2>2 DEF NothingToStop, CommandOK, Commands, Bound, Verified
  <2> QED
    BY <1>4, <2>2, <2>3, QuietStep DEF NothingToStop
<1>5. CASE RecoverOwned(c)
  <2>1. PICK checked \in Commands :
          checked = [command[c] EXCEPT !.pc = "final", !.closed = TRUE]
    BY <1>1 DEF Commands, Places
  <2>2. PICK failed \in Commands : failed = [checked EXCEPT !.ok = FALSE]
    BY DEF Commands
  <2>3. /\ checked.owned = command[c].owned /\ failed.owned = command[c].owned
        /\ checked.nonce = command[c].nonce /\ failed.nonce = command[c].nonce
        /\ checked.hit = command[c].hit /\ failed.hit = command[c].hit
        /\ checked.kind = command[c].kind /\ failed.kind = command[c].kind
        /\ checked.touched = command[c].touched /\ failed.touched = command[c].touched
        /\ checked.since = command[c].since /\ failed.since = command[c].since
        /\ checked.pc = "final" /\ failed.pc = "final"
    BY <1>1, <2>1, <2>2 DEF Commands
  <2>4. command[c].hit = {} /\ command[c].kind \in Kinds /\ command[c].nonce = None
    BY <1>1, <1>2, <1>5 DEF RecoverOwned, CommandOK, Bound, Verified
  <2>5. CommandOK(c, checked) /\ CommandOK(c, failed)
    BY <1>1, <2>3, <2>4 DEF CommandOK, Bound, Verified
  <2>6. CASE Quietly(c, checked)
    BY <2>5, <2>6, QuietStep
  <2>7. CASE command[c].owned # None /\ StopMode(c, command[c].owned, checked, failed)
    <3>1. command[c].owned \in Nonces
      BY <1>1, <2>7 DEF Commands
    <3> QED
      BY <2>3, <2>5, <2>7, <3>1, StopModeStep
  <2> QED
    BY <1>5, <2>1, <2>2, <2>6, <2>7 DEF RecoverOwned
<1>6. CASE After(c)
  <2>1. CASE Ends(c, Checked(c))
    BY <2>1, EndsStep
  <2>2. CASE Quietly(c, [command[c] EXCEPT
                            !.pc = IF Checked(c) THEN "expire" ELSE "restore",
                            !.ok = Checked(c)])
    <3>1. PICK ok \in BOOLEAN : ok = Checked(c)
      BY DEF Checked
    <3>2. PICK pc \in {"expire", "restore"} :
            pc = IF Checked(c) THEN "expire" ELSE "restore"
      OBVIOUS
    <3>3. PICK new \in Commands : new = [command[c] EXCEPT !.pc = pc, !.ok = ok]
      BY <1>1, <3>2, WithPlace DEF Places
    <3>4. CommandOK(c, new)
      <4>1. /\ new.pc = pc /\ new.kind = command[c].kind /\ new.nonce = command[c].nonce
            /\ new.owned = command[c].owned /\ new.touched = command[c].touched
            /\ new.since = command[c].since /\ new.hit = command[c].hit
        BY <1>1, <3>3 DEF Commands
      <4> QED
        BY <1>6, <4>1, WalksOn DEF After
    <3> QED
      BY <2>2, <3>1, <3>2, <3>3, <3>4, QuietStep
  <2>3. CASE Quietly(c, [command[c] EXCEPT !.pc = "launch"])
    <3>1. PICK new \in Commands : new = [command[c] EXCEPT !.pc = "launch"]
      BY <1>1, WithPlace DEF Places
    <3>2. CommandOK(c, new)
      BY <1>1, <1>6, <3>1, WalksOn DEF After, Commands
    <3> QED
      BY <2>3, <3>1, <3>2, QuietStep
  <2> QED
    BY <1>6, <2>1, <2>2, <2>3 DEF After
<1>7. CASE Final(c)
  BY <1>7, EndsStep DEF Final
<1>8. CASE Adopt(c)
  <2>1. /\ command[c].kind = "restart" /\ command[c].pc = "adopt"
        /\ command[c].nonce = None /\ command[c].hit = {}
        /\ command[c].since <= launched[c]
    BY <1>1, <1>8 DEF Adopt, CommandOK, OwnOK, Bound, Verified
  <2>2. ASSUME NEW pc \in {"launch", "after"},
               Quietly(c, [command[c] EXCEPT !.pc = pc])
        PROVE  IInv'
    <3>1. PICK new \in Commands : new = [command[c] EXCEPT !.pc = pc]
      BY <1>1, WithPlace DEF Places
    <3>2. /\ new.pc = pc /\ new.kind = command[c].kind /\ new.nonce = command[c].nonce
          /\ new.owned = command[c].owned /\ new.touched = command[c].touched
          /\ new.since = command[c].since /\ new.hit = command[c].hit
      BY <1>1, <3>1 DEF Commands
    <3>3. CommandOK(c, new)
      BY <1>1, <2>1, <3>2 DEF CommandOK, Kinds, Bound, Verified
    <3> QED
      BY <2>2, <3>1, <3>3, QuietStep
  <2>3. CASE /\ record # None
             /\ Quietly(c, [command[c] EXCEPT !.pc = "takeover", !.nonce = record,
                                              !.owned = record])
    <3>1. record \in Nonces /\ Drawn(record)
      BY <2>3 DEF IInv, LaunchesOK
    <3>2. PICK new \in Commands :
            new = [command[c] EXCEPT !.pc = "takeover", !.nonce = record, !.owned = record]
      BY <1>1, <3>1, ZenonT(40) DEF Commands, Places
    <3>3. /\ new.pc = "takeover" /\ new.kind = "restart" /\ new.nonce = record
          /\ new.owned = record /\ new.touched = command[c].touched
          /\ new.since = command[c].since /\ new.hit = {}
      BY <1>1, <2>1, <3>2 DEF Commands
    <3>4. command[c].touched = {}
      BY <1>1, <2>1 DEF CommandOK
    <3>5. OwnOK(c, "restart", command[c].since, record, {})
      BY <2>1, <3>1 DEF OwnOK
    <3>6. CommandOK(c, new)
      BY <2>3, <3>3, <3>4, <3>5 DEF CommandOK, Kinds, Bound, Verified
    <3> QED
      BY <2>3, <3>2, <3>6, QuietStep
  <2> QED
    BY <1>8, <2>2, <2>3 DEF Adopt
<1>9. CASE TakeOver(c)
  <2>1. /\ command[c].kind = "restart" /\ command[c].pc = "takeover"
        /\ command[c].nonce # None /\ command[c].nonce = command[c].owned
        /\ command[c].hit = {}
    BY <1>1, <1>9 DEF TakeOver, CommandOK, Bound
  <2>2. PICK stopped \in Commands : stopped = [command[c] EXCEPT !.nonce = None]
    BY <1>1 DEF Commands
  <2>3. PICK done \in Commands : done = [stopped EXCEPT !.pc = "launch"]
    BY WithPlace DEF Places
  <2>4. PICK failed \in Commands : failed = [stopped EXCEPT !.pc = "after"]
    BY WithPlace DEF Places
  <2>5. ASSUME NEW cmd \in {done, failed}
        PROVE  /\ cmd.owned = command[c].owned /\ cmd.nonce = None /\ cmd.hit = {}
               /\ cmd.kind = "restart" /\ cmd.since = command[c].since
               /\ cmd.touched = command[c].touched /\ cmd.pc \in {"launch", "after"}
    <3>1. /\ stopped.owned = command[c].owned /\ stopped.nonce = None /\ stopped.hit = {}
          /\ stopped.kind = "restart" /\ stopped.since = command[c].since
          /\ stopped.touched = command[c].touched
      BY <1>1, <2>1, <2>2 DEF Commands
    <3> QED
      BY <2>3, <2>4, <3>1 DEF Commands
  <2>6. ASSUME NEW cmd \in {done, failed} PROVE CommandOK(c, cmd)
    BY <1>1, <2>1, <2>5 DEF CommandOK, Kinds, Bound, Verified
  <2>7. StopMode(c, command[c].nonce, done, failed)
    BY <1>9, <2>2, <2>3, <2>4 DEF TakeOver
  <2>8. /\ CommandOK(c, done) /\ done.owned = command[c].nonce /\ done.kind = "restart"
        /\ CommandOK(c, failed) /\ failed.owned = command[c].nonce /\ failed.kind = "restart"
        /\ done.pc # "adopt" /\ failed.pc # "adopt"
    BY <2>1, <2>5, <2>6
  <2> QED
    BY <2>7, <2>8, StopModeStep
<1> QED
  BY <1>3, <1>4, <1>5, <1>6, <1>7, <1>8, <1>9 DEF Closing

-----------------------------------------------------------------------------
(* A kill, a registration, the helpers and the world. *)
LEMMA KillStep ==
    ASSUME IInv, NEW c \in Checkouts, Kill(c)
    PROVE  IInv'
<1>1. Idle \in Commands
  BY IdleOK
<1>2. CommandOK(c, Idle)
  BY IdleOK
<1>3. /\ command' = [command EXCEPT ![c] = Idle]
      /\ UNCHANGED <<helpers, games, port, launched, record, registered>>
      /\ sockets' = sockets \ {ChildSocket(c)}
  BY DEF Kill, gameVars, launchVars
<1>4. TypeOK'
  BY <1>1, <1>3 DEF IInv, TypeOK
<1>5. LaunchesOK'
  BY <1>3 DEF IInv, LaunchesOK, Drawn
<1>6. ASSUME NEW d \in Checkouts PROVE CommandOK(d, command[d])'
  <2>1. CommandOK(d, command'[d])
    BY <1>2, <1>3 DEF IInv, TypeOK
  <2> QED
    BY <2>1, <1>3 DEF CommandOK, OwnOK, Drawn, Starting
<1> QED
  BY <1>4, <1>5, <1>6 DEF IInv

LEMMA RegisterStep ==
    ASSUME IInv, NEW c \in Checkouts, Register(c)
    PROVE  IInv'
<1>1. PICK shell \in Shells : registered' = [registered EXCEPT ![c] = shell]
  BY DEF Register
<1>2. registered' \in [Checkouts -> Sockets \cup {None}]
  BY <1>1 DEF IInv, TypeOK, Sockets
<1>3. sockets' \subseteq Sockets /\ UNCHANGED <<gameVars, launchVars, command>>
  BY DEF Register, IInv, TypeOK
<1> QED
  BY <1>2, <1>3, Unnoticed

(* A helper that checks or records starts nothing; one that starts gives the
   port to a game nobody has called yet. *)
LEMMA HelperStep ==
    ASSUME IInv, NEW h \in helpers,
           HelperChecks(h) \/ HelperStarts(h) \/ HelperRecords(h)
    PROVE  IInv'
<1>0. /\ h \in [nonce : Nonces, at : {"check", "start", "record"}]
      /\ UNCHANGED <<sockets, registered, launched, command>>
  BY DEF IInv, TypeOK, HelperChecks, HelperStarts, HelperRecords, World, connectionVars
<1>1. PICK moved \in [nonce : Nonces, at : {"check", "start", "record"}] :
        /\ moved = [h EXCEPT !.at = IF h.at = "check" THEN "start" ELSE "record"]
        /\ moved.nonce = h.nonce
        /\ moved.at = IF h.at = "check" THEN "start" ELSE "record"
  <2>1. PICK place \in {"start", "record"} :
          place = IF h.at = "check" THEN "start" ELSE "record"
    OBVIOUS
  <2>2. /\ [h EXCEPT !.at = place] \in [nonce : Nonces, at : {"check", "start", "record"}]
        /\ [h EXCEPT !.at = place].nonce = h.nonce
        /\ [h EXCEPT !.at = place].at = place
    BY <1>0, <2>1
  <2>3. [h EXCEPT !.at = place]
          = [h EXCEPT !.at = IF h.at = "check" THEN "start" ELSE "record"]
    BY <2>1, Zenon
  <2> QED
    BY <2>1, <2>2, <2>3
<1>2. helpers' \subseteq (helpers \ {h}) \cup {moved}
  BY <1>1 DEF HelperChecks, HelperStarts, HelperRecords
<1>3. /\ games \subseteq games'
      /\ games' # games => (h.at = "start" /\ moved.at = "record"
                              /\ games' = games \cup {h.nonce})
      /\ port' \in games' \cup {None}
      /\ port' # port => (h.at = "start" /\ port' = h.nonce)
  BY <1>1 DEF HelperChecks, HelperStarts, HelperRecords, gameVars, IInv, TypeOK
<1>4. TypeOK'
  <2>1. helpers' \subseteq [nonce : Nonces, at : {"check", "start", "record"}]
    BY <1>1, <1>2 DEF IInv, TypeOK
  <2>2. games' \subseteq Nonces
    BY <1>0, <1>3 DEF IInv, TypeOK
  <2> QED
    BY <1>0, <1>3, <2>1, <2>2 DEF IInv, TypeOK
<1>5. LaunchesOK'
  <2>1. \A g \in helpers' : (g \in helpers /\ g # h) \/ g = moved
    BY <1>2
  <2>2. \A g \in helpers' : Drawn(g.nonce)'
    BY <1>0, <1>1, <2>1 DEF IInv, LaunchesOK, Drawn
  <2>3. \A h1, h2 \in helpers' : h1.nonce = h2.nonce => h1 = h2
    BY <1>1, <2>1 DEF IInv, LaunchesOK
  <2>4. \A g \in helpers' : g.at # "record" => g.nonce \notin games'
    BY <1>0, <1>1, <1>3, <2>1 DEF IInv, LaunchesOK
  <2>5. \A g \in games' : Drawn(g)'
    BY <1>0, <1>3 DEF IInv, LaunchesOK, Drawn
  <2>6. record' \in {record, h.nonce}
    BY DEF HelperChecks, HelperStarts, HelperRecords
  <2>7. (record # None => record \in Nonces /\ Drawn(record))'
    <3>1. record # None => record \in Nonces /\ Drawn(record)
      BY DEF IInv, LaunchesOK
    <3>2. h.nonce \in Nonces /\ Drawn(h.nonce)
      BY <1>0 DEF IInv, LaunchesOK
    <3> QED
      BY <1>0, <2>6, <3>1, <3>2 DEF Drawn
  <2> QED
    BY <2>2, <2>3, <2>4, <2>5, <2>7 DEF LaunchesOK
<1>6. ASSUME NEW d \in Checkouts PROVE CommandOK(d, command[d])'
  <2>1. command[d] \in Commands /\ CommandOK(d, command[d]) /\ command'[d] = command[d]
    BY <1>0, CommandType
  <2>2. PICK mine \in Nonces \cup {None} : mine = command[d].nonce
    BY <2>1 DEF Commands
  <2>3. mine # None => (Drawn(mine) => Drawn(mine)')
    BY <1>0 DEF Drawn
  <2>4. Starting(mine)' => Starting(mine)
    BY <1>1, <1>2 DEF Starting
  <2>5. (mine # None /\ port' = mine /\ port' # port) => command[d].hit = {}
    <3>1. (mine # None /\ port' = mine /\ port' # port) => Starting(mine)
      BY <1>3 DEF Starting
    <3> QED
      BY <2>1, <2>2, <3>1 DEF CommandOK
  <2>6. PICK cmd : cmd = command[d]
    OBVIOUS
  <2>7. OwnOK(d, cmd.kind, cmd.since, cmd.owned, cmd.touched)'
    BY <1>0, <2>1, <2>6 DEF CommandOK, OwnOK, Drawn
  <2>8. CommandOK(d, cmd)'
    BY <1>0, <2>1, <2>2, <2>4, <2>5, <2>6, <2>7 DEF CommandOK
  <2> QED
    BY <2>1, <2>6, <2>8
<1> QED
  BY <1>4, <1>5, <1>6 DEF IInv

(* Games that end disturb no command. *)
LEMMA FewerGames ==
    ASSUME IInv, UNCHANGED <<sockets, registered, helpers, launched, record, command>>,
           games' \subseteq games, port' \in {port, None}, port' \in games' \cup {None}
    PROVE  IInv'
<1>1. TypeOK'
  BY DEF IInv, TypeOK
<1>2. LaunchesOK'
  BY DEF IInv, LaunchesOK, Drawn
<1>3. ASSUME NEW d \in Checkouts PROVE CommandOK(d, command[d])'
  <2>1. CommandOK(d, command[d])
    BY CommandType
  <2> QED
    BY <2>1 DEF CommandOK, OwnOK, Drawn, Starting
<1> QED
  BY <1>1, <1>2, <1>3 DEF IInv

LEMMA GameDiesStep ==
    ASSUME IInv, NEW g \in games, GameDies(g)
    PROVE  IInv'
<1>1. /\ UNCHANGED <<sockets, registered, helpers, launched, record, command>>
      /\ games' \subseteq games /\ port' \in {port, None}
      /\ port' \in games' \cup {None}
  BY DEF GameDies, connectionVars, launchVars, IInv, TypeOK
<1> QED
  BY <1>1, FewerGames

(* bh native stop does no more to the commands than a game that dies. *)
LEMMA OperatorStopsStep ==
    ASSUME IInv, NEW c \in Checkouts, OperatorStops(c)
    PROVE  IInv'
<1>1. /\ UNCHANGED <<sockets, registered, helpers, launched, record, command>>
      /\ games' \subseteq games /\ port' \in {port, None}
      /\ port' \in games' \cup {None}
  BY DEF OperatorStops, connectionVars, launchVars, IInv, TypeOK
<1> QED
  BY <1>1, FewerGames

-----------------------------------------------------------------------------
(* Every step preserves the invariant. *)
THEOREM StepInv == IInv /\ [Next]_vars => IInv'
<1> SUFFICES ASSUME IInv, [Next]_vars PROVE IInv'
  OBVIOUS
<1>1. ASSUME NEW c \in Checkouts, Opening(c) PROVE IInv'
  BY <1>1, OpeningStep
<1>2. ASSUME NEW c \in Checkouts, Playing(c) PROVE IInv'
  BY <1>2, PlayingStep
<1>3. ASSUME NEW c \in Checkouts, Reconnecting(c) PROVE IInv'
  BY <1>3, ReconnectingStep
<1>4. ASSUME NEW c \in Checkouts, Closing(c) PROVE IInv'
  BY <1>4, ClosingStep
<1>5. ASSUME NEW c \in Checkouts, Register(c) PROVE IInv'
  BY <1>5, RegisterStep
<1>6. ASSUME NEW c \in Checkouts, Kill(c) PROVE IInv'
  BY <1>6, KillStep
<1>7. ASSUME NEW h \in helpers, HelperChecks(h) \/ HelperStarts(h) \/ HelperRecords(h)
      PROVE  IInv'
  BY <1>7, HelperStep
<1>8. ASSUME NEW s \in sockets, SocketExpires(s) PROVE IInv'
  <2>1. sockets' \subseteq Sockets /\ registered' \in [Checkouts -> Sockets \cup {None}]
    BY <1>8 DEF SocketExpires, IInv, TypeOK
  <2> QED
    BY <1>8, <2>1, Unnoticed DEF SocketExpires
<1>9. ASSUME NEW g \in games, GameDies(g) PROVE IInv'
  BY <1>9, GameDiesStep
<1>10. CASE UNCHANGED vars
  <2>1. sockets' \subseteq Sockets /\ registered' \in [Checkouts -> Sockets \cup {None}]
    BY <1>10 DEF vars, connectionVars, IInv, TypeOK
  <2> QED
    BY <1>10, <2>1, Unnoticed DEF vars
<1>11. ASSUME NEW c \in Checkouts, OperatorStops(c) PROVE IInv'
  BY <1>11, OperatorStopsStep
<1>12. ASSUME NEW c \in Checkouts, OperatorLaunches(c) PROVE IInv'
  BY <1>12, OperatorLaunchStep
<1> QED
  BY <1>1, <1>2, <1>3, <1>4, <1>5, <1>6, <1>7, <1>8, <1>9, <1>10, <1>11, <1>12 DEF Next

(* The invariant holds in every reachable state. *)
THEOREM Inductive == Spec => []IInv
<1> QED
  BY InitInv, StepInv, PTL DEF Spec

(* Every reachable state is well typed. *)
THEOREM TypeCorrect == Spec => []TypeOK
<1>1. IInv => TypeOK
  BY DEF IInv
<1> QED
  BY <1>1, Inductive, PTL

(* For any number of checkouts, shells, launches and mishaps a command takes,
   stops and suspends only a game that it launched itself, and a restart only
   the one it owns, the recorded game it took over or its own. *)
THEOREM OwnGameOnly == Spec => []OnlyItsOwnGame
<1>1. IInv => OnlyItsOwnGame
  <2> SUFFICES ASSUME IInv, NEW c \in Checkouts
               PROVE  LET cmd == command[c] IN
                      IF cmd.kind # "restart"
                      THEN cmd.touched \subseteq {cmd.owned} \cap LaunchedIt(c)
                      ELSE cmd.owned # None => cmd.touched \subseteq {cmd.owned}
    BY DEF OnlyItsOwnGame
  <2>1. PICK cmd \in Commands : cmd = command[c]
    BY CommandType
  <2>2. OwnOK(c, cmd.kind, cmd.since, cmd.owned, cmd.touched)
    BY <2>1, CommandType DEF CommandOK
  <2>3. cmd.kind # "restart" /\ cmd.owned # None => cmd.owned \in LaunchedIt(c)
    <3> SUFFICES ASSUME cmd.kind # "restart", cmd.owned # None
                 PROVE  cmd.owned \in LaunchedIt(c)
      OBVIOUS
    <3>1. cmd.owned \in Nonces /\ cmd.since \in Nat /\ launched[c] \in Nat
      BY IdleOK DEF Commands
    <3>2. cmd.owned[1] = c /\ cmd.owned[2] > cmd.since /\ cmd.owned[2] <= launched[c]
      BY <2>2 DEF OwnOK, Drawn
    <3>3. PICK n \in Nat : n = cmd.owned[2]
      BY <3>1 DEF Nonces
    <3>4. cmd.owned = <<c, n>>
      BY <3>1, <3>2, <3>3 DEF Nonces
    <3>5. n \in cmd.since + 1 .. launched[c]
      BY <3>1, <3>2, <3>3
    <3> QED
      BY <2>1, <3>4, <3>5 DEF LaunchedIt
  <2>4. cmd.kind # "restart" => None \notin cmd.touched
    BY NoNonce DEF Commands
  <2> QED
    BY <2>1, <2>2, <2>3, <2>4 DEF OwnOK
<1> QED
  BY <1>1, Inductive, PTL

-----------------------------------------------------------------------------
(* What a diagnostic leaves behind. *)
THEOREM InitTrace == Init => TraceInv
<1> SUFFICES ASSUME Init PROVE TraceInv
  OBVIOUS
<1> USE ConstantsOK DEF Init
<1>1. ReportsOK
  BY DEF ReportsOK, Sockets
<1>2. ASSUME NEW c \in Checkouts
      PROVE  PlaceOK(command[c]) /\ Returned(c) /\ Settled(c) /\ Reported(c)
  BY DEF PlaceOK, Idle, Reconnections, Unlent, Returned, Lent, Settled, Reported
<1> QED
  BY <1>1, <1>2 DEF TraceInv

(* What the invariant says of one checkout. *)
LEMMA TraceFacts ==
    ASSUME IInv, TraceInv, NEW c \in Checkouts
    PROVE  /\ command \in [Checkouts -> Commands] /\ command[c] \in Commands
           /\ CommandOK(c, command[c])
           /\ registered \in [Checkouts -> Sockets \cup {None}]
           /\ launched \in [Launchers -> Nat]
           /\ ReportsOK
           /\ PlaceOK(command[c]) /\ Returned(c) /\ Settled(c) /\ Reported(c)
  BY DEF IInv, TypeOK, TraceInv

(* It is preserved when every checkout keeps its part. *)
LEMMA TraceParts ==
    ASSUME ReportsOK', \A c \in Checkouts : PlaceOK(command[c])', \A c \in Checkouts : Returned(c)',
           \A c \in Checkouts : Settled(c)', \A c \in Checkouts : Reported(c)'
    PROVE  TraceInv'
  BY DEF TraceInv

(* A checkout is not disturbed while nothing of its own changes and no helper
   of its nonces comes to start a game or starts one. *)
Aside(c) ==
    /\ command'[c] = command[c] /\ registered'[c] = registered[c] /\ chosen'[c] = chosen[c]
    /\ report'[c] = report[c] /\ killed'[c] = killed[c] /\ launched'[c] = launched[c]

HelpersOn == \A h \in helpers' : h.at # "record" =>
                \E g \in helpers : g.nonce = h.nonce /\ g.at # "record"
GamesOn == \A g \in games' : g \in games \/ Starting(g)

(* What such a step keeps of the checkout. *)
LEMMA AsideKeeps ==
    ASSUME IInv, TraceInv, NEW c \in Checkouts, Aside(c),
           \A h \in helpers' : h.at # "record" =>
              h.nonce[1] # c \/ \E g \in helpers : g.nonce = h.nonce /\ g.at # "record",
           GamesOn
    PROVE  PlaceOK(command[c])' /\ Returned(c)' /\ Settled(c)' /\ Reported(c)'
<1>1. PlaceOK(command[c]) /\ Returned(c) /\ Settled(c) /\ Reported(c)
  BY TraceFacts
<1>2. PlaceOK(command[c])' /\ Returned(c)'
  BY <1>1 DEF Aside, PlaceOK, Returned, Lent
<1>3. Settled(c)'
  <2>1. Owing(c)' = Owing(c)
    BY DEF Aside, Owing
  <2>2. \A nonce \in Owing(c) : nonce[1] = c
    BY DEF Owing
  <2> QED
    BY <1>1, <2>1, <2>2 DEF Aside, Settled
<1>4. Reported(c)'
  <2>1. Since(c)' = Since(c)
    BY DEF Aside, Since
  <2>2. \A nonce \in Since(c) : nonce[1] = c
    BY DEF Since
  <2> QED
    BY <1>1, <2>1, <2>2 DEF Aside, Reported, GamesOn, Starting
<1> QED
  BY <1>2, <1>3, <1>4

(* A step of one command that launches nothing: its session stays lent or not,
   and it may still pass only if it could before and its game answers. *)
Moves(c) ==
    /\ \A d \in Checkouts : d # c => command'[d] = command[d] /\ registered'[d] = registered[d]
    /\ UNCHANGED <<helpers, launched, chosen, report, killed>>
    /\ games' \subseteq games

MayPass(c) == command[c].kind \in Diagnostics /\ command[c].ok
OkKept(c) ==
    MayPass(c)' =>
       /\ MayPass(c) /\ command'[c].since = command[c].since
       /\ \/ command[c].pc # "await"
          \/ ~Starting(command[c].nonce)
          \/ command'[c].pc = "await" /\ command'[c].nonce = command[c].nonce

(* What such a step keeps. *)
LEMMA MovesKeep ==
    ASSUME IInv, TraceInv, NEW c \in Checkouts, Moves(c), OkKept(c), command[c].pc # "idle",
           PlaceOK(command[c])', Returned(c)'
    PROVE  TraceInv'
<1>1. /\ ReportsOK /\ Settled(c) /\ Reported(c)
  BY TraceFacts
<1>2. ReportsOK'
  BY <1>1 DEF ReportsOK, Moves
<1>3. ~report[c].passed
  BY <1>1 DEF Reported
<1>4. Reported(c)'
  BY <1>3 DEF Moves, Reported
<1>5. Settled(c)'
  <2> SUFFICES ASSUME MayPass(c)' PROVE Settled(c)'
    BY DEF Settled, MayPass
  <2>1. MayPass(c) /\ Owing(c)' = Owing(c) /\ helpers' = helpers
    BY DEF OkKept, Owing, Moves
  <2> QED
    BY <1>1, <2>1 DEF OkKept, Settled, MayPass, Starting
<1>6. ASSUME NEW d \in Checkouts, d # c
      PROVE  PlaceOK(command[d])' /\ Returned(d)' /\ Settled(d)' /\ Reported(d)'
  <2>1. Aside(d) /\ GamesOn /\ helpers' = helpers
    BY <1>6 DEF Moves, Aside, GamesOn
  <2> QED
    BY <2>1, AsideKeeps
<1> QED
  BY <1>2, <1>4, <1>5, <1>6, TraceParts

(* What the step makes of the command, and that its registration is still the
   operator's or lent as before. *)
Kept(c, cmd) ==
    /\ cmd.kind = command[c].kind /\ cmd.since = command[c].since
    /\ cmd.saved = command[c].saved

Passing(c, cmd) ==
    cmd.ok /\ cmd.kind \in Diagnostics =>
       /\ command[c].ok
       /\ \/ command[c].pc # "await"
          \/ ~Starting(command[c].nonce)
          \/ cmd.pc = "await" /\ cmd.nonce = command[c].nonce

(* The same, where the registration does not change. *)
LEMMA Walks ==
    ASSUME IInv, TraceInv, NEW c \in Checkouts, NEW cmd,
           command' = [command EXCEPT ![c] = cmd],
           UNCHANGED <<helpers, launched, chosen, report, killed, registered>>,
           games' \subseteq games, command[c].pc # "idle",
           Kept(c, cmd), PlaceOK(cmd), Lent(cmd) <=> Lent(command[c]), Passing(c, cmd)
    PROVE  TraceInv'
<1>1. command \in [Checkouts -> Commands] /\ Returned(c)
  BY TraceFacts
<1>2. command'[c] = cmd /\ Moves(c)
  BY <1>1 DEF Moves
<1>3. PlaceOK(command[c])'
  BY <1>2 DEF PlaceOK
<1>4. Returned(c)'
  BY <1>1, <1>2 DEF Returned, Lent, Kept, Moves
<1>5. OkKept(c)
  BY <1>2 DEF OkKept, MayPass, Kept, Passing
<1> QED
  BY <1>2, <1>3, <1>4, <1>5, MovesKeep

(* The same, where nothing but the command changes. *)
LEMMA QuietWalks ==
    ASSUME IInv, TraceInv, NEW c \in Checkouts, NEW cmd, Quietly(c, cmd),
           command[c].pc # "idle",
           Kept(c, cmd), PlaceOK(cmd), Lent(cmd) <=> Lent(command[c]), Passing(c, cmd)
    PROVE  TraceInv'
<1>1. /\ command' = [command EXCEPT ![c] = cmd]
      /\ UNCHANGED <<helpers, launched, chosen, report, killed, registered, games>>
  BY DEF Quietly, Step, connectionVars, gameVars, launchVars, restVars
<1> QED
  BY <1>1, Walks

(* Between its launch and its end a command neither lends its registration nor
   takes it back, whatever its calls come to. *)
Underway == {"launch", "await", "lease", "reset", "settle", "play", "status", "stop", "after",
             "adopt", "takeover"}

(* What the steps under way keep. *)
LEMMA PlaysOn ==
    ASSUME IInv, TraceInv, NEW c \in Checkouts, NEW cmd, Quietly(c, cmd),
           command[c].pc \in Underway \cup {"menu", "register"},
           cmd.pc \in Underway \cup {"menu", "unregister"},
           cmd.pc \in Underway \/ command[c].kind = "connection",
           Kept(c, cmd), Passing(c, cmd)
    PROVE  TraceInv'
<1>1. PlaceOK(command[c])
  BY TraceFacts
<1>2. PlaceOK(cmd) /\ (Lent(cmd) <=> Lent(command[c]))
  BY <1>1 DEF Underway, PlaceOK, Lent, Kept, Reconnections, Unlent
<1> QED
  BY <1>2, QuietWalks DEF Underway

(* Stopping carries the session over and makes nothing pass. *)
LEMMA StoppingFields ==
    ASSUME IInv, NEW c \in Checkouts, NEW ok \in BOOLEAN
    PROVE  /\ Kept(c, Stopping(c, ok)) /\ Stopping(c, ok).pc = "stop"
           /\ Stopping(c, ok).nonce = command[c].nonce
           /\ Stopping(c, ok).ok /\ command[c].kind \in Diagnostics => command[c].ok /\ ok
<1>1. command[c] \in Commands
  BY CommandType
<1> QED
  BY <1>1 DEF Stopping, StillOk, Kept, Commands

(* A command that stops, well or not. *)
LEMMA StopsTrace ==
    ASSUME IInv, TraceInv, NEW c \in Checkouts, NEW ok \in BOOLEAN, Quietly(c, Stopping(c, ok)),
           command[c].pc \in Underway \cup {"menu", "register"},
           ok => command[c].pc # "await"
    PROVE  TraceInv'
<1>1. PICK cmd : cmd = Stopping(c, ok)
  OBVIOUS
<1>2. Kept(c, cmd) /\ cmd.pc \in Underway /\ Passing(c, cmd)
  BY <1>1, StoppingFields DEF Underway, Passing, Kept
<1> QED
  BY <1>1, <1>2, PlaysOn

(* A game that answers has no helper left that could start it. *)
LEMMA AcceptsTrace ==
    ASSUME IInv, TraceInv, NEW c \in Checkouts, NEW pc \in Underway \cup {"menu", "unregister"},
           Accepts(c, pc), pc \in Underway \/ command[c].kind = "connection",
           command[c].pc \in Underway \cup {"menu", "register"}
    PROVE  TraceInv'
<1>1. command[c] \in Commands /\ CommandOK(c, command[c])
  BY CommandType
<1>2. PICK cmd : cmd = [command[c] EXCEPT !.pc = pc, !.pipe = TRUE, !.hit = {},
                                         !.touched = @ \cup command[c].hit]
  OBVIOUS
<1>3. port = command[c].nonce /\ port # None /\ Quietly(c, cmd)
  BY <1>2 DEF Accepts, Identified
<1>4. ~Starting(command[c].nonce)
  BY <1>3 DEF IInv, TypeOK, LaunchesOK, Starting
<1>5. Kept(c, cmd) /\ cmd.pc = pc /\ Passing(c, cmd)
  BY <1>1, <1>2, <1>4 DEF Kept, Passing, Commands
<1> QED
  BY <1>3, <1>5, PlaysOn

(* A call, answered or lost. *)
LEMMA CallTrace ==
    ASSUME IInv, TraceInv, NEW c \in Checkouts, NEW cmd \in Commands, NEW lost \in Commands,
           Call(c, cmd, lost), command[c].pc \in {"reset", "play"},
           cmd.pc \in Underway, Kept(c, cmd), cmd.ok => command[c].ok,
           lost.pc \in Underway, Kept(c, lost),
           lost.ok /\ lost.kind \in Diagnostics => command[c].ok
    PROVE  TraceInv'
<1>1. CASE Quietly(c, [cmd EXCEPT !.pipe = TRUE, !.hit = @ \cup {port}])
  <2>1. PICK new : new = [cmd EXCEPT !.pipe = TRUE, !.hit = @ \cup {port}]
    OBVIOUS
  <2>2. Kept(c, new) /\ new.pc \in Underway /\ Passing(c, new)
    BY <2>1 DEF Kept, Passing, Commands
  <2> QED
    BY <1>1, <2>1, <2>2, PlaysOn DEF Underway
<1>2. ASSUME NEW reached, Quietly(c, [lost EXCEPT !.pipe = FALSE, !.hit = @ \cup reached])
      PROVE  TraceInv'
  <2>1. PICK new : new = [lost EXCEPT !.pipe = FALSE, !.hit = @ \cup reached]
    OBVIOUS
  <2>2. Kept(c, new) /\ new.pc \in Underway /\ Passing(c, new)
    BY <2>1 DEF Kept, Passing, Commands
  <2> QED
    BY <1>2, <2>1, <2>2, PlaysOn DEF Underway
<1> QED
  BY <1>1, <1>2 DEF Call

-----------------------------------------------------------------------------
(* A new command starts with a clean slate. *)
LEMMA BeginTrace ==
    ASSUME IInv, TraceInv, NEW c \in Checkouts, NEW kind \in Kinds, Begin(c, kind)
    PROVE  TraceInv'
<1>1. PICK cmd : cmd = [Idle EXCEPT !.kind = kind,
                                    !.pc = FirstPlace(kind), !.since = launched[c]]
  OBVIOUS
<1>2. /\ command' = [command EXCEPT ![c] = cmd]
      /\ report' = [report EXCEPT ![c] = [passed |-> FALSE, since |-> 0]]
      /\ UNCHANGED <<helpers, launched, chosen, killed, registered, games>>
  BY <1>1 DEF Begin, connectionVars, gameVars, launchVars
<1>3. /\ command \in [Checkouts -> Commands] /\ launched[c] \in Nat /\ ReportsOK
      /\ PlaceOK(command[c]) /\ Returned(c) /\ command[c] = Idle
  BY TraceFacts, IdleOK DEF Begin
<1>4. /\ cmd.kind = kind /\ cmd.since = launched[c]
      /\ cmd.pc \in {"child", "adopt", "launch"}
      /\ cmd.pc = "child" <=> kind = "expiry"
  BY <1>1 DEF Idle, FirstPlace
<1>5. command'[c] = cmd /\ report'[c] = [passed |-> FALSE, since |-> 0]
  BY <1>2, <1>3 DEF ReportsOK
<1>6. ReportsOK'
  BY <1>2, <1>3 DEF ReportsOK
<1>7. PlaceOK(command[c])'
  BY <1>4, <1>5 DEF PlaceOK, Reconnections, Unlent
<1>8. Returned(c)'
  <2>1. ~Lent(Idle)
    BY DEF Lent, Idle
  <2>2. ~Lent(cmd)
    BY <1>4 DEF Lent, Unlent
  <2> QED
    BY <1>2, <1>3, <1>5, <2>1, <2>2 DEF Returned, Lent
<1>9. Settled(c)'
  <2>1. kind \in Diagnostics => Owing(c)' = {}
    BY <1>2, <1>3, <1>4, <1>5 DEF Owing
  <2> QED
    BY <1>4, <1>5, <2>1 DEF Settled
<1>10. Reported(c)'
  BY <1>5 DEF Reported
<1>11. ASSUME NEW d \in Checkouts, d # c
       PROVE  PlaceOK(command[d])' /\ Returned(d)' /\ Settled(d)' /\ Reported(d)'
  <2>1. Aside(d) /\ GamesOn /\ helpers' = helpers
    BY <1>2, <1>3, <1>11 DEF Aside, GamesOn, ReportsOK
  <2> QED
    BY <2>1, AsideKeeps
<1> QED
  BY <1>6, <1>7, <1>8, <1>9, <1>10, <1>11, TraceParts

(* A launch adds the one helper its command waits for. *)
LEMMA LaunchTrace ==
    ASSUME IInv, TraceInv, NEW c \in Checkouts, Launch(c)
    PROVE  TraceInv'
<1>1. /\ command \in [Checkouts -> Commands] /\ launched \in [Launchers -> Nat]
      /\ command[c] \in Commands /\ ReportsOK /\ PlaceOK(command[c]) /\ Returned(c)
      /\ Settled(c) /\ Reported(c) /\ command[c].pc = "launch"
  BY TraceFacts DEF Launch
<1>2. PICK nonce : nonce = <<c, launched[c] + 1>>
  OBVIOUS
<1>3. PICK owning : owning = [command[c] EXCEPT !.pc = "await", !.nonce = nonce,
                                                !.owned = nonce, !.closed = FALSE,
                                                !.touched = {}]
  OBVIOUS
<1>4. PICK failing : failing = [owning EXCEPT !.pc = "stop", !.ok = StillOk(c, FALSE)]
  OBVIOUS
<1>5. /\ launched' = [launched EXCEPT ![c] = @ + 1]
      /\ UNCHANGED <<chosen, report, killed, registered, games>>
  BY DEF Launch, Step, restVars, connectionVars, gameVars
<1>6. /\ Kept(c, owning) /\ owning.pc = "await" /\ owning.nonce = nonce
      /\ owning.ok = command[c].ok
  BY <1>1, <1>3 DEF Kept, Commands
<1>7. /\ Kept(c, failing) /\ failing.pc = "stop"
      /\ failing.kind \in Diagnostics => failing.ok = FALSE
  BY <1>1, <1>3, <1>4 DEF Kept, StillOk, Commands
<1>8. PICK cmd \in {owning, failing} :
        /\ command' = [command EXCEPT ![c] = cmd]
        /\ cmd = failing => helpers' = helpers
        /\ helpers' \subseteq helpers \cup {[nonce |-> nonce, at |-> "check"]}
  <2>1. owning # failing
    BY <1>6, <1>7
  <2>2. \/ helpers' = helpers \cup {[nonce |-> nonce, at |-> "check"]} /\ Step(c, owning)
        \/ helpers' = helpers /\ Step(c, failing)
    BY <1>2, <1>3, <1>4 DEF Launch
  <2> QED
    BY <2>1, <2>2 DEF Step
<1>9. command'[c] = cmd /\ Kept(c, cmd) /\ cmd.pc \in {"await", "stop"}
  BY <1>1, <1>8, <1>6, <1>7
<1>10. PlaceOK(command[c])' /\ Returned(c)'
  BY <1>1, <1>5, <1>9 DEF PlaceOK, Returned, Lent, Kept, Reconnections, Unlent
<1>11. Settled(c)'
  <2> SUFFICES ASSUME cmd.kind \in Diagnostics, cmd.ok, NEW h \in helpers',
                      h.nonce \in Owing(c)', h.at # "record"
               PROVE  cmd.pc = "await" /\ h.nonce = cmd.nonce
    BY <1>9 DEF Settled
  <2>1. cmd = owning /\ command[c].kind \in Diagnostics /\ command[c].ok
    BY <1>8, <1>6, <1>7, <1>9 DEF Kept
  <2>2. CASE h \in helpers
    <3>1. h.nonce \in {c} \X (command[c].since + 1 .. launched[c] + 1)
      <4>1. launched'[c] = launched[c] + 1
        BY <1>5, TraceFacts DEF Launchers
      <4> QED
        BY <4>1, <1>9 DEF Owing, Kept
    <3>2. h.nonce \notin Owing(c)
      BY <1>1, <2>1, <2>2 DEF Settled
    <3>3. Drawn(h.nonce)
      BY <2>2 DEF IInv, LaunchesOK
    <3>4. h.nonce[1] = c /\ h.nonce[2] \in command[c].since + 1 .. launched[c] + 1
      BY <3>1
    <3>5. h.nonce = <<c, h.nonce[2]>>
      BY <3>1
    <3>6. launched[c] \in Nat /\ command[c].since \in Nat
      BY <1>1, IdleOK DEF Commands
    <3>7. h.nonce[2] \in command[c].since + 1 .. launched[c]
      BY <3>3, <3>4, <3>6 DEF Drawn
    <3> QED
      BY <3>2, <3>5, <3>7 DEF Owing
  <2>3. CASE h \notin helpers
    BY <1>8, <1>6, <2>1, <2>3
  <2> QED
    BY <2>2, <2>3
<1>12. Reported(c)'
  BY <1>1, <1>5 DEF Reported
<1>13. ASSUME NEW d \in Checkouts, d # c
       PROVE  PlaceOK(command[d])' /\ Returned(d)' /\ Settled(d)' /\ Reported(d)'
  <2>1. Aside(d) /\ GamesOn
    BY <1>1, <1>8, <1>5, <1>13 DEF Aside, GamesOn
  <2>2. \A h \in helpers' : h \in helpers \/ h.nonce[1] = c
    BY <1>2, <1>8
  <2> QED
    BY <1>13, <2>1, <2>2, AsideKeeps
<1>14. ReportsOK'
  BY <1>1, <1>5 DEF ReportsOK
<1> QED
  BY <1>10, <1>11, <1>12, <1>13, <1>14, TraceParts

(* Opening a game. *)
LEMMA OpeningTrace ==
    ASSUME IInv, TraceInv, NEW c \in Checkouts, Opening(c)
    PROVE  TraceInv'
<1>1. command[c] \in Commands /\ CommandOK(c, command[c])
  BY CommandType
<1>2. CASE \E kind \in Kinds : Begin(c, kind)
  BY <1>2, BeginTrace
<1>3. CASE Launch(c)
  BY <1>3, LaunchTrace
<1>4. CASE LaunchRefused(c)
  <2>1. PICK cmd : cmd = [Stopping(c, FALSE) EXCEPT !.owned = None, !.touched = {}]
    OBVIOUS
  <2>2. PICK stopping \in Commands : stopping = Stopping(c, FALSE)
    BY StoppingOK
  <2>3. /\ cmd.kind = stopping.kind /\ cmd.since = stopping.since
        /\ cmd.saved = stopping.saved /\ cmd.pc = stopping.pc /\ cmd.ok = stopping.ok
    BY <2>1, <2>2 DEF Commands
  <2>4. Kept(c, cmd) /\ cmd.pc = "stop" /\ Passing(c, cmd)
    BY <2>2, <2>3, StoppingFields DEF Kept, Passing
  <2> QED
    BY <1>4, <2>1, <2>4, PlaysOn DEF LaunchRefused, Underway
<1>5. CASE Poll(c)
  <2>1. PICK cmd : cmd = [command[c] EXCEPT !.pipe = TRUE]
    OBVIOUS
  <2>2. Kept(c, cmd) /\ cmd.pc = command[c].pc /\ Passing(c, cmd)
    BY <1>1, <2>1 DEF Kept, Passing, Commands
  <2> QED
    BY <1>5, <2>1, <2>2, PlaysOn DEF Poll, Underway
<1>6. CASE Handshake(c)
  <2>1. command[c].kind \in Kinds
    BY <1>1, <1>6 DEF Handshake, CommandOK
  <2>2. CASE command[c].kind = "connection"
    BY <1>6, <2>2, AcceptsTrace DEF Handshake, AfterLaunch, Underway
  <2>3. CASE command[c].kind # "connection"
    <3>1. AfterLaunch[command[c].kind] \in Underway
      BY <2>1, <2>3 DEF AfterLaunch, Kinds, Diagnostics, Underway
    <3> QED
      BY <1>6, <3>1, AcceptsTrace DEF Handshake, Underway
  <2> QED
    BY <2>2, <2>3
<1>7. CASE Lease(c)
  <2>1. PICK cmd : cmd = [command[c] EXCEPT !.pc = "reset", !.pipe = TRUE]
    OBVIOUS
  <2>2. Kept(c, cmd) /\ cmd.pc = "reset" /\ Passing(c, cmd)
    BY <1>1, <1>7, <2>1 DEF Lease, Kept, Passing, Commands
  <2> QED
    BY <1>7, <2>1, <2>2, PlaysOn DEF Lease, Underway
<1>8. CASE StartRun(c)
  <2>1. PICK cmd \in Commands : cmd = [command[c] EXCEPT !.pc = "settle"]
    BY <1>1, WithPlace DEF Places
  <2>2. /\ Kept(c, cmd) /\ cmd.pc \in Underway /\ cmd.ok = command[c].ok
    BY <1>1, <2>1 DEF Kept, Commands, Underway
  <2>3. PICK lost \in Commands : lost = Stopping(c, FALSE)
    BY <1>1, <1>8, StoppingOK DEF StartRun, Bound, Verified, CommandOK
  <2>4. /\ Kept(c, lost) /\ lost.pc \in Underway
        /\ lost.ok /\ lost.kind \in Diagnostics => command[c].ok
    BY <2>3, StoppingFields DEF Kept, Underway
  <2> QED
    BY <1>8, <2>1, <2>2, <2>3, <2>4, CallTrace DEF StartRun
<1>9. CASE Ready(c)
  BY <1>9, AcceptsTrace DEF Ready, Underway
<1> QED
  BY <1>2, <1>3, <1>4, <1>5, <1>6, <1>7, <1>8, <1>9 DEF Opening

(* Playing. *)
LEMMA RefusalFields ==
    ASSUME IInv, NEW c \in Checkouts, command[c].kind \in Kinds,
           command[c].pc \in {"play", "status"}
    PROVE  /\ Refusal(c) \in Commands
           /\ Kept(c, Refusal(c)) /\ Refusal(c).pc \in Underway
           /\ Refusal(c).ok /\ Refusal(c).kind \in Diagnostics => command[c].ok
<1>1. command[c] \in Commands
  BY CommandType
<1>2. Refusal(c) \in Commands
  BY RefusalOK
<1>3. CASE Refusal(c) = Stopping(c, FALSE)
  BY <1>2, <1>3, StoppingFields DEF Underway, Kept
<1>4. CASE Refusal(c) # Stopping(c, FALSE)
  BY <1>1, <1>2, <1>4 DEF Refusal, Kept, Underway, Commands
<1> QED
  BY <1>3, <1>4

(* Every step of a played game. *)
LEMMA PlayingTrace ==
    ASSUME IInv, TraceInv, NEW c \in Checkouts, Playing(c)
    PROVE  TraceInv'
<1>1. command[c] \in Commands /\ CommandOK(c, command[c]) /\ PlaceOK(command[c])
  BY CommandType, TraceFacts
<1>2. command[c].pc # "idle" => command[c].kind \in Kinds
  BY <1>1 DEF CommandOK
<1>3. CASE Move(c) \/ Load(c)
  <2>1. command[c].pc = "play" /\ command[c].kind \in Kinds
    BY <1>2, <1>3 DEF Move, Load
  <2>2. PICK moved \in Commands : moved = Moved(c)
    <3>1. command[c].moves + 1 \in Nat
      BY <1>1 DEF Commands
    <3> QED
      BY <1>1, <3>1, WithMoves DEF Moved
  <2>3. Kept(c, moved) /\ moved.ok = command[c].ok
    BY <1>1, <2>2 DEF Moved, Kept, Commands
  <2>4. PICK next \in Commands : next = [moved EXCEPT !.pc = "settle"]
    BY WithPlace DEF Places
  <2>5. PICK asking \in Commands : asking = [moved EXCEPT !.pc = "status"]
    BY WithPlace DEF Places
  <2>6. PICK stopping \in Commands : stopping = Stopping(c, FALSE)
    BY <2>1, StoppingOK
  <2>7. /\ Kept(c, next) /\ next.pc \in Underway /\ next.ok = command[c].ok
        /\ Kept(c, asking) /\ asking.pc \in Underway /\ asking.ok = command[c].ok
    BY <2>3, <2>4, <2>5 DEF Kept, Underway, Commands
  <2>8. /\ Kept(c, stopping) /\ stopping.pc \in Underway
        /\ stopping.ok /\ stopping.kind \in Diagnostics => command[c].ok
    BY <2>6, StoppingFields DEF Kept, Underway
  <2>9. Call(c, next, asking) \/ Call(c, next, stopping)
    BY <1>3, <2>2, <2>4, <2>5, <2>6 DEF Move, Load
  <2> QED
    BY <2>1, <2>7, <2>8, <2>9, CallTrace
<1>4. CASE MoveRefused(c)
  <2>1. command[c].pc = "play" /\ command[c].kind \in Kinds
    BY <1>2, <1>4 DEF MoveRefused
  <2>2. PICK refusal \in Commands : refusal = Refusal(c)
    BY <2>1, RefusalFields
  <2>3. PICK cmd : cmd = [refusal EXCEPT !.moves = @ + 1]
    OBVIOUS
  <2>4. /\ cmd.kind = refusal.kind /\ cmd.since = refusal.since
        /\ cmd.saved = refusal.saved /\ cmd.pc = refusal.pc /\ cmd.ok = refusal.ok
    BY <2>3 DEF Commands
  <2>5. /\ Kept(c, refusal) /\ refusal.pc \in Underway
        /\ refusal.ok /\ refusal.kind \in Diagnostics => command[c].ok
    BY <2>1, <2>2, RefusalFields
  <2>6. ASSUME NEW new \in {refusal, cmd}
        PROVE  Kept(c, new) /\ new.pc \in Underway /\ Passing(c, new)
    BY <2>1, <2>4, <2>5 DEF Kept, Passing
  <2>7. Quietly(c, refusal) \/ Quietly(c, cmd)
    BY <1>4, <2>2, <2>3 DEF MoveRefused
  <2> QED
    BY <2>1, <2>6, <2>7, PlaysOn DEF Underway
<1>5. CASE StatusAnswered(c)
  <2>1. command[c].pc = "status" /\ command[c].kind \in Kinds
    BY <1>2, <1>5 DEF StatusAnswered
  <2>2. PICK waiting : waiting = [command[c] EXCEPT !.pc = "settle", !.pipe = TRUE]
    OBVIOUS
  <2>3. PICK refused : refused = Refusal(c)
    OBVIOUS
  <2>4. Kept(c, waiting) /\ waiting.pc \in Underway /\ Passing(c, waiting)
    BY <1>1, <2>1, <2>2 DEF Kept, Passing, Commands, Underway
  <2>5. Kept(c, refused) /\ refused.pc \in Underway /\ Passing(c, refused)
    BY <2>1, <2>3, RefusalFields DEF Kept, Passing, Commands
  <2>6. \/ Quietly(c, waiting) \/ Quietly(c, refused)
        \/ Quietly(c, Stopping(c, FALSE))
    BY <1>5, <2>2, <2>3 DEF StatusAnswered
  <2> QED
    BY <2>1, <2>4, <2>5, <2>6, PlaysOn, StopsTrace DEF Underway
<1>6. CASE StatusUnknown(c)
  BY <1>6, StopsTrace DEF StatusUnknown, Underway
<1>7. CASE Hold(c)
  <2>1. PICK stopping \in Commands : stopping = Stopping(c, TRUE)
    BY <1>2, <1>7, StoppingOK DEF Hold
  <2>2. PICK cmd : cmd = [stopping EXCEPT !.touched = @ \cup Victim(command[c].nonce)]
    OBVIOUS
  <2>3. /\ Kept(c, stopping) /\ stopping.pc = "stop"
        /\ stopping.ok /\ command[c].kind \in Diagnostics => command[c].ok
    BY <2>1, StoppingFields
  <2>4. Kept(c, cmd) /\ cmd.pc \in Underway /\ Passing(c, cmd)
    BY <1>7, <2>1, <2>2, <2>3 DEF Hold, Kept, Passing, Commands, Underway
  <2> QED
    BY <1>7, <2>1, <2>2, <2>4, PlaysOn DEF Hold, Underway
<1>8. CASE Release(c)
  <2>1. PICK cmd : cmd = [command[c] EXCEPT !.pc = "lease", !.pipe = FALSE]
    OBVIOUS
  <2>2. Kept(c, cmd) /\ cmd.pc \in Underway /\ Passing(c, cmd)
    BY <1>1, <1>8, <2>1 DEF Release, Kept, Passing, Commands, Underway
  <2> QED
    BY <1>8, <2>1, <2>2, PlaysOn DEF Release, Underway
<1>9. CASE EndPlay(c)
  BY <1>9, StopsTrace DEF EndPlay, Underway
<1>10. CASE GivesUp(c)
  BY <1>10, StopsTrace DEF GivesUp, Underway
<1> QED
  BY <1>3, <1>4, <1>5, <1>6, <1>7, <1>8, <1>9, <1>10 DEF Playing

-----------------------------------------------------------------------------
(* The connection and the expiry check lend the registration and give it back. *)
LEMMA LendsOrReturns ==
    ASSUME IInv, TraceInv, NEW c \in Checkouts, NEW cmd, NEW socket \in Sockets \cup {None},
           Step(c, cmd), registered' = [registered EXCEPT ![c] = socket],
           UNCHANGED <<chosen, gameVars, launchVars>>,
           command[c].pc \notin {"idle", "await"}, cmd.pc # "idle",
           PlaceOK(cmd), cmd.kind = command[c].kind, cmd.since = command[c].since,
           cmd.ok /\ cmd.kind \in Diagnostics => command[c].ok,
           ~killed[c] => chosen[c] = IF Lent(cmd) THEN cmd.saved ELSE socket
    PROVE  TraceInv'
<1>1. command \in [Checkouts -> Commands] /\ registered \in [Checkouts -> Sockets \cup {None}]
  BY TraceFacts
<1>2. /\ command' = [command EXCEPT ![c] = cmd]
      /\ UNCHANGED <<helpers, launched, chosen, report, killed, games>>
  BY DEF Step, gameVars, launchVars, restVars
<1>3. command'[c] = cmd /\ registered'[c] = socket /\ Moves(c)
  BY <1>1, <1>2 DEF Moves
<1>4. PlaceOK(command[c])'
  BY <1>3 DEF PlaceOK
<1>5. Returned(c)'
  BY <1>2, <1>3 DEF Returned, Lent
<1>6. OkKept(c)
  BY <1>3 DEF OkKept, MayPass
<1> QED
  BY <1>3, <1>4, <1>5, <1>6, MovesKeep

(* Every step of the two checks. *)
LEMMA ReconnectingTrace ==
    ASSUME IInv, TraceInv, NEW c \in Checkouts, Reconnecting(c)
    PROVE  TraceInv'
<1>1. /\ command[c] \in Commands /\ PlaceOK(command[c]) /\ Returned(c)
      /\ registered \in [Checkouts -> Sockets \cup {None}]
      /\ registered[c] \in Sockets \cup {None}
      /\ command[c].saved \in Sockets \cup {None} /\ ChildSocket(c) \in Sockets
  BY TraceFacts DEF Commands, Sockets
<1>2. CASE AtMenu(c)
  BY <1>1, <1>2, AcceptsTrace DEF AtMenu, PlaceOK, Reconnections
<1>3. CASE Unregister(c)
  <2>1. PICK cmd : cmd = [command[c] EXCEPT !.pc = "refused", !.pipe = FALSE,
                                           !.saved = registered[c]]
    OBVIOUS
  <2>2. /\ cmd.kind = command[c].kind /\ cmd.since = command[c].since
        /\ cmd.ok = command[c].ok /\ cmd.pc = "refused" /\ cmd.saved = registered[c]
    BY <1>1, <2>1 DEF Commands
  <2>3. command[c].pc = "unregister" /\ command[c].kind = "connection"
    BY <1>1, <1>3 DEF Unregister, PlaceOK, Reconnections
  <2>4. PlaceOK(cmd) /\ Lent(cmd) /\ ~Lent(command[c])
    BY <2>2, <2>3 DEF PlaceOK, Lent, Reconnections, Unlent
  <2> QED
    BY <1>1, <1>3, <2>1, <2>2, <2>3, <2>4, LendsOrReturns DEF Unregister, Returned
<1>4. CASE Refused(c)
  <2>1. PICK cmd \in {Stopping(c, FALSE), [command[c] EXCEPT !.pc = "register"]} : Step(c, cmd)
    BY <1>4 DEF Refused
  <2>2. /\ cmd.kind = command[c].kind /\ cmd.since = command[c].since
        /\ cmd.ok /\ cmd.kind \in Diagnostics => command[c].ok
        /\ cmd.pc \in {"stop", "register"}
    <3>1. CASE cmd = Stopping(c, FALSE)
      BY <3>1, StoppingFields DEF Kept
    <3>2. CASE cmd = [command[c] EXCEPT !.pc = "register"]
      BY <1>1, <3>2 DEF Commands
    <3> QED
      BY <2>1, <3>1, <3>2
  <2>3. command[c].pc = "refused" /\ command[c].kind = "connection"
    BY <1>1, <1>4 DEF Refused, PlaceOK, Reconnections
  <2>4. PlaceOK(cmd) /\ ~Lent(cmd) /\ Lent(command[c])
    BY <2>2, <2>3 DEF PlaceOK, Lent, Reconnections, Unlent
  <2> QED
    BY <1>1, <1>4, <2>1, <2>2, <2>3, <2>4, LendsOrReturns DEF Refused, Returned
<1>5. CASE Reconnected(c)
  BY <1>5, AcceptsTrace DEF Reconnected, Underway
<1>6. CASE ChildStarts(c)
  <2>1. PICK cmd \in {[command[c] EXCEPT !.pc = "swap"],
                      [command[c] EXCEPT !.pc = "reap", !.ok = FALSE]} : Step(c, cmd)
    BY <1>6 DEF ChildStarts
  <2>2. Kept(c, cmd) /\ cmd.pc \in {"swap", "reap"} /\ (cmd.ok => command[c].ok)
    BY <1>1, <2>1 DEF Kept, Commands
  <2>3. command[c].pc = "child" /\ command[c].kind = "expiry"
    BY <1>1, <1>6 DEF ChildStarts, PlaceOK, Unlent
  <2>4. PlaceOK(cmd) /\ (Lent(cmd) <=> Lent(command[c])) /\ Passing(c, cmd)
    BY <2>2, <2>3 DEF PlaceOK, Lent, Passing, Kept, Reconnections, Unlent
  <2>5. /\ command' = [command EXCEPT ![c] = cmd]
        /\ UNCHANGED <<helpers, launched, chosen, report, killed, registered, games>>
    BY <1>6, <2>1 DEF ChildStarts, Step, gameVars, launchVars, restVars
  <2> QED
    BY <2>2, <2>3, <2>4, <2>5, Walks
<1>7. CASE Swap(c)
  <2>0. command[c].pc = "swap" /\ command[c].kind = "expiry" /\ ~Lent(command[c])
    BY <1>1, <1>7 DEF Swap, PlaceOK, Lent, Unlent
  <2>1. CASE Usable(c) /\ ChildSocket(c) \in sockets
    <3>1. PICK cmd : cmd = [command[c] EXCEPT
                              !.pc = IF RuntimeIdle THEN "launch" ELSE "restore",
                              !.ok = @ /\ RuntimeIdle, !.saved = registered[c]]
      OBVIOUS
    <3>2. /\ cmd.kind = command[c].kind /\ cmd.since = command[c].since
          /\ cmd.ok => command[c].ok
          /\ cmd.pc \in {"launch", "restore"} /\ cmd.saved = registered[c]
      BY <1>1, <3>1 DEF Commands
    <3>3. PlaceOK(cmd) /\ Lent(cmd)
      BY <2>0, <3>2 DEF PlaceOK, Lent, Reconnections, Unlent
    <3>4. /\ registered' = [registered EXCEPT ![c] = ChildSocket(c)]
          /\ Step(c, cmd) /\ UNCHANGED <<chosen, gameVars, launchVars>>
      BY <1>7, <2>1, <3>1 DEF Swap
    <3>5. ~killed[c] => chosen[c] = cmd.saved
      BY <1>1, <2>0, <3>2 DEF Returned
    <3> QED
      BY <1>1, <2>0, <3>2, <3>3, <3>4, <3>5, LendsOrReturns
  <2>2. CASE ~(Usable(c) /\ ChildSocket(c) \in sockets)
    <3>1. PICK cmd : cmd = [command[c] EXCEPT !.pc = "reap", !.ok = FALSE]
      OBVIOUS
    <3>2. Kept(c, cmd) /\ cmd.ok = FALSE /\ cmd.pc = "reap"
      BY <1>1, <3>1 DEF Kept, Commands
    <3>3. PlaceOK(cmd) /\ ~Lent(cmd) /\ Passing(c, cmd)
      BY <2>0, <3>2 DEF PlaceOK, Lent, Passing, Kept, Reconnections, Unlent
    <3>4. /\ command' = [command EXCEPT ![c] = cmd]
          /\ UNCHANGED <<helpers, launched, chosen, report, killed, registered, games>>
      BY <1>7, <2>2, <3>1 DEF Swap, Step, gameVars, launchVars, restVars
    <3> QED
      BY <2>0, <3>2, <3>3, <3>4, Walks
  <2> QED
    BY <2>1, <2>2
<1>8. CASE ExpireChild(c)
  <2>1. PICK cmd \in {[command[c] EXCEPT !.pc = "refuse"],
                      [command[c] EXCEPT !.pc = "restore", !.ok = FALSE]} : Step(c, cmd)
    BY <1>8 DEF ExpireChild
  <2>2. Kept(c, cmd) /\ cmd.pc \in {"refuse", "restore"} /\ (cmd.ok => command[c].ok)
    BY <1>1, <2>1 DEF Kept, Commands
  <2>3. command[c].pc = "expire" /\ command[c].kind = "expiry"
    BY <1>1, <1>8 DEF ExpireChild, PlaceOK
  <2>4. PlaceOK(cmd) /\ (Lent(cmd) <=> Lent(command[c])) /\ Passing(c, cmd)
    BY <2>2, <2>3 DEF PlaceOK, Lent, Passing, Kept, Reconnections, Unlent
  <2>5. /\ command' = [command EXCEPT ![c] = cmd]
        /\ UNCHANGED <<helpers, launched, chosen, report, killed, registered, games>>
    BY <1>8, <2>1 DEF ExpireChild, Step, gameVars, launchVars, restVars
  <2> QED
    BY <2>2, <2>3, <2>4, <2>5, Walks
<1>9. CASE RefusedBeforeLaunch(c)
  <2>1. PICK cmd : cmd = [command[c] EXCEPT !.pc = "restore", !.ok = @ /\ ~Usable(c)]
    OBVIOUS
  <2>2. Kept(c, cmd) /\ cmd.pc = "restore" /\ (cmd.ok => command[c].ok)
    BY <1>1, <2>1 DEF Kept, Commands
  <2>3. command[c].pc = "refuse" /\ command[c].kind = "expiry"
    BY <1>1, <1>9 DEF RefusedBeforeLaunch, PlaceOK
  <2>4. PlaceOK(cmd) /\ (Lent(cmd) <=> Lent(command[c])) /\ Passing(c, cmd)
    BY <2>2, <2>3 DEF PlaceOK, Lent, Passing, Kept, Reconnections, Unlent
  <2> QED
    BY <1>9, <2>1, <2>2, <2>3, <2>4, QuietWalks DEF RefusedBeforeLaunch
<1>10. CASE RestoreRegistration(c)
  <2>1. PICK cmd : cmd = [command[c] EXCEPT !.pc = "reap",
                                           !.ok = @ /\ command[c].saved \in sockets]
    OBVIOUS
  <2>2. /\ cmd.kind = command[c].kind /\ cmd.since = command[c].since
        /\ cmd.ok => command[c].ok
        /\ cmd.pc = "reap"
    BY <1>1, <2>1 DEF Commands
  <2>3. command[c].pc = "restore" /\ command[c].kind = "expiry" /\ Lent(command[c])
    BY <1>1, <1>10 DEF RestoreRegistration, PlaceOK, Lent, Unlent
  <2>4. PlaceOK(cmd) /\ ~Lent(cmd)
    BY <2>2, <2>3 DEF PlaceOK, Lent, Reconnections, Unlent
  <2> QED
    BY <1>1, <1>10, <2>1, <2>2, <2>3, <2>4, LendsOrReturns DEF RestoreRegistration, Returned
<1>11. CASE ReapChild(c)
  <2>1. PICK cmd \in {[command[c] EXCEPT !.pc = "recover"],
                      [command[c] EXCEPT !.pc = "recover", !.ok = FALSE]} : Step(c, cmd)
    BY <1>11 DEF ReapChild
  <2>2. Kept(c, cmd) /\ cmd.pc = "recover" /\ (cmd.ok => command[c].ok)
    BY <1>1, <2>1 DEF Kept, Commands
  <2>3. command[c].pc = "reap" /\ command[c].kind = "expiry"
    BY <1>1, <1>11 DEF ReapChild, PlaceOK, Unlent
  <2>4. PlaceOK(cmd) /\ (Lent(cmd) <=> Lent(command[c])) /\ Passing(c, cmd)
    BY <2>2, <2>3 DEF PlaceOK, Lent, Passing, Kept, Reconnections, Unlent
  <2>5. /\ command' = [command EXCEPT ![c] = cmd]
        /\ UNCHANGED <<helpers, launched, chosen, report, killed, registered, games>>
    BY <1>11, <2>1 DEF ReapChild, Step, gameVars, launchVars, restVars
  <2> QED
    BY <2>2, <2>3, <2>4, <2>5, Walks
<1> QED
  BY <1>2, <1>3, <1>4, <1>5, <1>6, <1>7, <1>8, <1>9, <1>10, <1>11 DEF Reconnecting

-----------------------------------------------------------------------------
(* The end of a command.  Only a command that may still pass, with no helper
   left to wait for, reports success, and only on an idle runtime. *)
LEMMA EndsTrace ==
    ASSUME IInv, TraceInv, NEW c \in Checkouts, Ends(c, Checked(c)),
           command[c].pc \in {"after", "final"},
           command[c].kind # "expiry" \/ command[c].pc = "final"
    PROVE  TraceInv'
<1>1. /\ command \in [Checkouts -> Commands] /\ command[c] \in Commands /\ ReportsOK
      /\ PlaceOK(command[c]) /\ Returned(c) /\ Settled(c)
  BY TraceFacts
<1>2. PICK passed \in BOOLEAN : passed = Checked(c)
  BY DEF Checked
<1>3. PICK said \in [passed : BOOLEAN, since : Nat] :
        said = IF command[c].kind \in Diagnostics
               THEN [passed |-> passed, since |-> command[c].since]
               ELSE [passed |-> FALSE, since |-> 0]
  <2>1. [passed |-> passed, since |-> command[c].since] \in [passed : BOOLEAN, since : Nat]
    BY <1>1 DEF Commands
  <2>2. [passed |-> FALSE, since |-> 0] \in [passed : BOOLEAN, since : Nat]
    OBVIOUS
  <2> QED
    BY <2>1, <2>2
<1>4. /\ command' = [command EXCEPT ![c] = Idle]
      /\ report' = [report EXCEPT ![c] = said]
      /\ UNCHANGED <<helpers, launched, chosen, killed, registered, games>>
  BY <1>2, <1>3 DEF Ends, connectionVars, gameVars, launchVars
<1>5. command'[c] = Idle /\ report'[c] = said
  BY <1>1, <1>4 DEF ReportsOK
<1>6. ReportsOK'
  BY <1>1, <1>4 DEF ReportsOK
<1>7. PlaceOK(command[c])' /\ Settled(c)'
  BY <1>5 DEF PlaceOK, Settled, Idle, Reconnections, Unlent, Diagnostics
<1>8. Returned(c)'
  <2>1. ~Lent(Idle) /\ ~Lent(command[c])
    BY DEF Lent, Idle, Unlent
  <2> QED
    BY <1>1, <1>4, <1>5, <2>1 DEF Returned, Lent
<1>9. Reported(c)'
  <2> SUFFICES ASSUME said.passed
               PROVE  /\ Idle.pc = "idle" /\ Since(c)' \cap games' = {}
                      /\ \A h \in helpers' : h.nonce \in Since(c)' => h.at = "record"
    BY <1>5 DEF Reported
  <2>1. /\ command[c].kind \in Diagnostics /\ Checked(c)
        /\ said.since = command[c].since
    BY <1>2, <1>3
  <2>2. games = {} /\ command[c].ok
    BY <2>1 DEF Checked, RuntimeIdle
  <2>3. Since(c)' = Owing(c)
    BY <1>4, <1>5, <2>1 DEF Since, Owing
  <2>4. \A h \in helpers : h.nonce \in Owing(c) => h.at = "record"
    BY <1>1, <2>1, <2>2 DEF Settled
  <2> QED
    BY <1>4, <2>2, <2>3, <2>4 DEF Idle
<1>10. ASSUME NEW d \in Checkouts, d # c
       PROVE  PlaceOK(command[d])' /\ Returned(d)' /\ Settled(d)' /\ Reported(d)'
  <2>1. Aside(d) /\ GamesOn /\ helpers' = helpers
    BY <1>1, <1>4, <1>10 DEF Aside, GamesOn, ReportsOK
  <2> QED
    BY <2>1, AsideKeeps
<1> QED
  BY <1>6, <1>7, <1>8, <1>9, <1>10, TraceParts

(* Stop mode, done or failed. *)
LEMMA StopModeTrace ==
    ASSUME IInv, TraceInv, NEW c \in Checkouts, NEW nonce,
           NEW done \in Commands, NEW failed \in Commands, StopMode(c, nonce, done, failed),
           command[c].pc \in {"stop", "recover", "takeover"},
           \A cmd \in {done, failed} :
              /\ Kept(c, cmd) /\ PlaceOK(cmd) /\ (Lent(cmd) <=> Lent(command[c]))
              /\ cmd.ok /\ cmd.kind \in Diagnostics => command[c].ok
    PROVE  TraceInv'
<1>1. UNCHANGED <<helpers, launched, chosen, report, killed, registered>> /\ games' \subseteq games
  BY DEF StopMode, Step, connectionVars, gameVars, launchVars, restVars
<1>2. ASSUME NEW cmd \in {done, failed}, NEW victim,
             Step(c, [cmd EXCEPT !.touched = @ \cup victim])
      PROVE  TraceInv'
  <2>1. PICK new : new = [cmd EXCEPT !.touched = @ \cup victim]
    OBVIOUS
  <2>2. /\ Kept(c, cmd) /\ PlaceOK(cmd) /\ (Lent(cmd) <=> Lent(command[c]))
        /\ cmd.ok /\ cmd.kind \in Diagnostics => command[c].ok
    OBVIOUS
  <2>3. /\ new.kind = cmd.kind /\ new.since = cmd.since /\ new.saved = cmd.saved
        /\ new.pc = cmd.pc /\ new.ok = cmd.ok
    BY <2>1 DEF Commands
  <2>4. /\ Kept(c, new) /\ PlaceOK(new) /\ (Lent(new) <=> Lent(command[c]))
        /\ Passing(c, new)
    BY <2>2, <2>3 DEF Kept, PlaceOK, Lent, Passing
  <2>5. command' = [command EXCEPT ![c] = new]
    BY <1>2, <2>1 DEF Step
  <2> QED
    BY <1>1, <2>4, <2>5, Walks
<1>3. CASE Step(c, failed)
  <2>1. /\ Kept(c, failed) /\ PlaceOK(failed) /\ (Lent(failed) <=> Lent(command[c]))
        /\ Passing(c, failed)
    BY DEF Passing
  <2>2. command' = [command EXCEPT ![c] = failed]
    BY <1>3 DEF Step
  <2> QED
    BY <1>1, <2>1, <2>2, Walks
<1> QED
  BY <1>2, <1>3 DEF StopMode

(* Every step of the end of a command. *)
LEMMA ClosingTrace ==
    ASSUME IInv, TraceInv, NEW c \in Checkouts, Closing(c)
    PROVE  TraceInv'
<1>1. command[c] \in Commands /\ PlaceOK(command[c])
  BY TraceFacts
<1>2. \A pc \in {AfterStop(c, TRUE), AfterStop(c, FALSE)} :
         pc = "after" \/ (pc = "restore" /\ command[c].kind = "expiry")
  BY DEF AfterStop
<1>3. CASE Stop(c)
  <2>1. PICK stopped \in Commands :
          stopped = [command[c] EXCEPT !.nonce = None, !.pipe = FALSE, !.hit = {}]
    BY <1>1 DEF Commands
  <2>2. PICK ok \in BOOLEAN : ok = StillOk(c, FALSE)
    BY <1>1 DEF StillOk, Commands
  <2>3. PICK done \in Commands :
          done = [stopped EXCEPT !.pc = AfterStop(c, TRUE), !.closed = TRUE]
    BY <1>2, ZenonT(40) DEF Commands, Places
  <2>4. PICK failed \in Commands :
          failed = [stopped EXCEPT !.pc = AfterStop(c, FALSE), !.ok = ok]
    BY <1>2, ZenonT(40) DEF Commands, Places
  <2>5. Kept(c, stopped) /\ stopped.ok = command[c].ok
    BY <1>1, <2>1 DEF Kept, Commands
  <2>6. /\ Kept(c, done) /\ done.ok = command[c].ok /\ done.pc = AfterStop(c, TRUE)
        /\ Kept(c, failed) /\ failed.ok = ok /\ failed.pc = AfterStop(c, FALSE)
    BY <2>3, <2>4, <2>5 DEF Kept, Commands
  <2>7. ok /\ command[c].kind \in Diagnostics => command[c].ok
    BY <2>2 DEF StillOk
  <2>8. ASSUME NEW cmd \in {done, failed}
        PROVE  /\ Kept(c, cmd) /\ PlaceOK(cmd) /\ (Lent(cmd) <=> Lent(command[c]))
               /\ cmd.ok /\ cmd.kind \in Diagnostics => command[c].ok
    <3>1. /\ Kept(c, cmd) /\ cmd.kind = command[c].kind
          /\ cmd.ok /\ cmd.kind \in Diagnostics => command[c].ok
      BY <2>6, <2>7 DEF Kept
    <3>2. cmd.pc = "after" \/ (cmd.pc = "restore" /\ command[c].kind = "expiry")
      BY <1>2, <2>6
    <3> QED
      BY <1>3, <3>1, <3>2 DEF Stop, PlaceOK, Lent, Reconnections, Unlent
  <2>9. StopMode(c, command[c].nonce, done, failed) /\ command[c].pc = "stop"
    BY <1>3, <2>1, <2>2, <2>3, <2>4 DEF Stop
  <2> QED
    BY <2>8, <2>9, StopModeTrace
<1>4. CASE NothingToStop(c)
  <2>1. PICK cmd : cmd = [command[c] EXCEPT !.pc = AfterStop(c, TRUE), !.closed = TRUE]
    OBVIOUS
  <2>2. Kept(c, cmd) /\ cmd.pc = AfterStop(c, TRUE) /\ cmd.ok = command[c].ok
    BY <1>1, <2>1 DEF Kept, Commands
  <2>3. /\ PlaceOK(cmd) /\ (Lent(cmd) <=> Lent(command[c])) /\ Passing(c, cmd)
        /\ command[c].pc = "stop"
    BY <1>2, <1>4, <2>2
    DEF NothingToStop, PlaceOK, Lent, Passing, Kept, Reconnections, Unlent
  <2> QED
    BY <1>4, <2>1, <2>2, <2>3, QuietWalks DEF NothingToStop
<1>5. CASE RecoverOwned(c)
  <2>1. PICK checked \in Commands : checked = [command[c] EXCEPT !.pc = "final", !.closed = TRUE]
    BY <1>1 DEF Commands, Places
  <2>2. PICK failed \in Commands : failed = [checked EXCEPT !.ok = FALSE]
    BY DEF Commands
  <2>3. command[c].pc = "recover" /\ command[c].kind = "expiry"
    BY <1>1, <1>5 DEF RecoverOwned, PlaceOK, Unlent
  <2>4. /\ Kept(c, checked) /\ checked.pc = "final" /\ checked.ok = command[c].ok
        /\ Kept(c, failed) /\ failed.pc = "final" /\ failed.ok = FALSE
    BY <1>1, <2>1, <2>2 DEF Kept, Commands
  <2>5. ASSUME NEW cmd \in {checked, failed}
        PROVE  /\ Kept(c, cmd) /\ PlaceOK(cmd) /\ (Lent(cmd) <=> Lent(command[c]))
               /\ cmd.ok /\ cmd.kind \in Diagnostics => command[c].ok
    BY <2>3, <2>4 DEF PlaceOK, Lent, Kept, Reconnections, Unlent
  <2>6. CASE Quietly(c, checked)
    BY <2>3, <2>5, <2>6, QuietWalks DEF Passing
  <2>7. CASE StopMode(c, command[c].owned, checked, failed)
    BY <2>3, <2>5, <2>7, StopModeTrace
  <2> QED
    BY <1>5, <2>1, <2>2, <2>6, <2>7 DEF RecoverOwned
<1>6. CASE After(c)
  <2>1. CASE command[c].kind # "expiry" /\ Ends(c, Checked(c))
    BY <1>6, <2>1, EndsTrace DEF After
  <2>2. CASE /\ command[c].kind = "expiry"
             /\ Quietly(c, [command[c] EXCEPT
                               !.pc = IF Checked(c) THEN "expire" ELSE "restore",
                               !.ok = Checked(c)])
    <3>1. PICK pc \in {"expire", "restore"} : pc = IF Checked(c) THEN "expire" ELSE "restore"
      OBVIOUS
    <3>2. PICK cmd : cmd = [command[c] EXCEPT !.pc = pc, !.ok = Checked(c)]
      OBVIOUS
    <3>3. /\ Kept(c, cmd) /\ cmd.pc \in {"expire", "restore"}
          /\ cmd.ok => command[c].ok
      BY <1>1, <3>2 DEF Kept, Checked, Commands
    <3>4. PlaceOK(cmd) /\ (Lent(cmd) <=> Lent(command[c])) /\ Passing(c, cmd)
      BY <1>6, <2>2, <3>3 DEF After, PlaceOK, Lent, Passing, Kept, Reconnections, Unlent
    <3> QED
      BY <1>6, <2>2, <3>1, <3>2, <3>3, <3>4, QuietWalks DEF After
  <2>3. CASE Quietly(c, [command[c] EXCEPT !.pc = "launch"])
    <3>1. PICK cmd : cmd = [command[c] EXCEPT !.pc = "launch"]
      OBVIOUS
    <3>2. Kept(c, cmd) /\ cmd.pc \in Underway /\ Passing(c, cmd)
      BY <1>1, <1>6, <3>1 DEF After, Kept, Passing, Commands, Underway
    <3> QED
      BY <1>6, <2>3, <3>1, <3>2, PlaysOn DEF After, Underway
  <2> QED
    BY <1>6, <2>1, <2>2, <2>3 DEF After
<1>7. CASE Final(c)
  BY <1>7, EndsTrace DEF Final
<1>8. CASE Adopt(c)
  <2>1. command[c].pc = "adopt" /\ command[c].kind = "restart"
    BY <1>8, CommandType DEF Adopt, CommandOK
  <2> DEFINE Alone == [command[c] EXCEPT !.pc = "launch"]
             Taken == [command[c] EXCEPT !.pc = "takeover", !.nonce = record, !.owned = record]
             Ended == [command[c] EXCEPT !.pc = "after"]
  <2>2. PICK cmd : Quietly(c, cmd) /\ cmd \in {Alone, Taken, Ended}
    BY <1>8 DEF Adopt
  <2>3. Kept(c, cmd) /\ cmd.pc \in Underway
    BY <1>1, <2>2 DEF Kept, Underway, Commands
  <2> QED
    BY <2>1, <2>2, <2>3, PlaysOn DEF Underway, Passing, Kept, Diagnostics
<1>9. CASE TakeOver(c)
  <2>1. PICK stopped \in Commands : stopped = [command[c] EXCEPT !.nonce = None]
    BY <1>1 DEF Commands
  <2>2. PICK done \in Commands : done = [stopped EXCEPT !.pc = "launch"]
    BY WithPlace DEF Places
  <2>3. PICK failed \in Commands : failed = [stopped EXCEPT !.pc = "after"]
    BY WithPlace DEF Places
  <2>4. command[c].pc = "takeover" /\ command[c].kind = "restart"
    BY <1>9, CommandType DEF TakeOver, CommandOK
  <2>5. /\ Kept(c, done) /\ done.pc = "launch" /\ done.ok = command[c].ok
        /\ Kept(c, failed) /\ failed.pc = "after" /\ failed.ok = command[c].ok
    BY <1>1, <2>1, <2>2, <2>3 DEF Kept, Commands
  <2>6. ASSUME NEW cmd \in {done, failed}
        PROVE  /\ Kept(c, cmd) /\ PlaceOK(cmd) /\ (Lent(cmd) <=> Lent(command[c]))
               /\ cmd.ok /\ cmd.kind \in Diagnostics => command[c].ok
    BY <2>4, <2>5 DEF PlaceOK, Lent, Kept, Reconnections, Unlent
  <2>7. StopMode(c, command[c].nonce, done, failed)
    BY <1>9, <2>1, <2>2, <2>3 DEF TakeOver
  <2> QED
    BY <2>4, <2>6, <2>7, StopModeTrace
<1> QED
  BY <1>3, <1>4, <1>5, <1>6, <1>7, <1>8, <1>9 DEF Closing

-----------------------------------------------------------------------------
(* A kill, a registration, the helpers and the world. *)
LEMMA KillTrace ==
    ASSUME IInv, TraceInv, NEW c \in Checkouts, Kill(c)
    PROVE  TraceInv'
<1>1. /\ command \in [Checkouts -> Commands] /\ ReportsOK /\ Reported(c)
      /\ command[c].pc # "idle"
  BY TraceFacts DEF Kill
<1>2. /\ command' = [command EXCEPT ![c] = Idle]
      /\ killed' = [killed EXCEPT ![c] = TRUE]
      /\ UNCHANGED <<helpers, launched, chosen, report, registered, games>>
  BY DEF Kill, gameVars, launchVars
<1>3. command'[c] = Idle /\ killed'[c]
  BY <1>1, <1>2 DEF ReportsOK
<1>4. ReportsOK'
  BY <1>1, <1>2 DEF ReportsOK
<1>5. PlaceOK(command[c])' /\ Settled(c)' /\ Returned(c)'
  BY <1>3 DEF PlaceOK, Settled, Returned, Idle, Reconnections, Unlent, Diagnostics
<1>6. Reported(c)'
  BY <1>1, <1>2 DEF Reported
<1>7. ASSUME NEW d \in Checkouts, d # c
      PROVE  PlaceOK(command[d])' /\ Returned(d)' /\ Settled(d)' /\ Reported(d)'
  <2>1. Aside(d) /\ GamesOn /\ helpers' = helpers
    BY <1>1, <1>2, <1>7 DEF Aside, GamesOn, ReportsOK
  <2> QED
    BY <2>1, AsideKeeps
<1> QED
  BY <1>4, <1>5, <1>6, <1>7, TraceParts

(* The operator registers a session: from now on it is the chosen one. *)
LEMMA RegisterTrace ==
    ASSUME IInv, TraceInv, NEW c \in Checkouts, Register(c)
    PROVE  TraceInv'
<1>1. /\ command[c].pc = "idle" /\ PlaceOK(command[c]) /\ ReportsOK
      /\ registered \in [Checkouts -> Sockets \cup {None}]
      /\ Settled(c) /\ Reported(c)
  BY TraceFacts DEF Register, LockFree
<1>2. PICK shell \in Sockets :
        /\ registered' = [registered EXCEPT ![c] = shell]
        /\ chosen' = [chosen EXCEPT ![c] = shell]
  BY DEF Register, Sockets
<1>3. /\ killed' = [killed EXCEPT ![c] = FALSE]
      /\ UNCHANGED <<helpers, launched, games, command, report>>
  BY DEF Register, gameVars, launchVars
<1>4. ReportsOK'
  BY <1>1, <1>2, <1>3 DEF ReportsOK
<1>5. Returned(c)'
  <2>1. ~Lent(command[c])
    BY <1>1 DEF PlaceOK, Lent
  <2> QED
    BY <1>1, <1>2, <1>3, <2>1 DEF Returned, Lent, ReportsOK
<1>6. PlaceOK(command[c])' /\ Settled(c)' /\ Reported(c)'
  BY <1>1, <1>3 DEF PlaceOK, Settled, Reported, Owing, Since
<1>7. ASSUME NEW d \in Checkouts, d # c
      PROVE  PlaceOK(command[d])' /\ Returned(d)' /\ Settled(d)' /\ Reported(d)'
  <2>1. Aside(d) /\ GamesOn /\ helpers' = helpers
    BY <1>1, <1>2, <1>3, <1>7 DEF Aside, GamesOn, ReportsOK
  <2> QED
    BY <2>1, AsideKeeps
<1> QED
  BY <1>4, <1>5, <1>6, <1>7, TraceParts

(* Neither a helper's step nor an expired socket nor a game that dies touches a
   command; only a helper starts a game, and it starts its own. *)
LEMMA WorldTrace ==
    ASSUME IInv, TraceInv, UNCHANGED <<registered, chosen, launched, command, report, killed>>,
           HelpersOn, GamesOn
    PROVE  TraceInv'
<1>1. ReportsOK'
  BY DEF TraceInv, ReportsOK
<1>2. ASSUME NEW d \in Checkouts
      PROVE  PlaceOK(command[d])' /\ Returned(d)' /\ Settled(d)' /\ Reported(d)'
  <2>1. Aside(d)
    BY DEF Aside
  <2> QED
    BY <2>1, AsideKeeps DEF HelpersOn
<1> QED
  BY <1>1, <1>2, TraceParts

(* Every step of a launch helper. *)
LEMMA HelperTrace ==
    ASSUME IInv, TraceInv, NEW h \in helpers,
           HelperChecks(h) \/ HelperStarts(h) \/ HelperRecords(h)
    PROVE  TraceInv'
<1>1. /\ h \in [nonce : Nonces, at : {"check", "start", "record"}]
      /\ UNCHANGED <<registered, chosen, launched, command, report, killed>>
  BY DEF IInv, TypeOK, HelperChecks, HelperStarts, HelperRecords, World, connectionVars,
         restVars
<1>2. HelpersOn
  BY <1>1 DEF HelpersOn, HelperChecks, HelperStarts, HelperRecords
<1>3. GamesOn
  BY <1>1 DEF GamesOn, Starting, HelperChecks, HelperStarts, HelperRecords, gameVars
<1> QED
  BY <1>1, <1>2, <1>3, WorldTrace

(* A game launched without a command bears nobody's nonce. *)
LEMMA OperatorLaunchTrace ==
    ASSUME IInv, TraceInv, NEW c \in Checkouts, OperatorLaunches(c)
    PROVE  TraceInv'
<1>1. /\ UNCHANGED <<registered, chosen, command, report, killed, games>>
      /\ launched' = [launched EXCEPT ![Operator] = @ + 1]
      /\ helpers' = helpers \cup
            {[nonce |-> <<Operator, launched[Operator] + 1>>, at |-> "check"]}
  BY DEF OperatorLaunches, connectionVars, gameVars
<1>2. launched \in [Launchers -> Nat] /\ ReportsOK
  BY TraceFacts
<1>3. ReportsOK'
  BY <1>1, <1>2 DEF ReportsOK
<1>4. ASSUME NEW d \in Checkouts
      PROVE  PlaceOK(command[d])' /\ Returned(d)' /\ Settled(d)' /\ Reported(d)'
  <2>1. d # Operator
    BY ConstantsOK
  <2>2. Aside(d)
    BY <1>1, <1>2, <2>1 DEF Aside, Launchers
  <2>3. \A h \in helpers' : h \in helpers \/ h.nonce[1] # d
    BY <1>1, <2>1
  <2>4. GamesOn
    BY <1>1 DEF GamesOn
  <2> QED
    BY <2>2, <2>3, <2>4, AsideKeeps
<1> QED
  BY <1>3, <1>4, TraceParts

(* Every step preserves it. *)
THEOREM StepTrace == IInv /\ TraceInv /\ [Next]_vars => TraceInv'
<1> SUFFICES ASSUME IInv, TraceInv, [Next]_vars PROVE TraceInv'
  OBVIOUS
<1>1. ASSUME NEW c \in Checkouts,
             \/ Opening(c) \/ Playing(c) \/ Reconnecting(c)
             \/ Closing(c) \/ Register(c) \/ Kill(c)
      PROVE  TraceInv'
  BY <1>1, OpeningTrace, PlayingTrace, ReconnectingTrace, ClosingTrace, RegisterTrace, KillTrace
<1>2. ASSUME NEW h \in helpers, HelperChecks(h) \/ HelperStarts(h) \/ HelperRecords(h)
      PROVE  TraceInv'
  BY <1>2, HelperTrace
<1>3. ASSUME NEW s \in sockets, SocketExpires(s) PROVE TraceInv'
  <2>1. HelpersOn /\ GamesOn
    BY <1>3 DEF SocketExpires, gameVars, launchVars, HelpersOn, GamesOn
  <2> QED
    BY <1>3, <2>1, WorldTrace DEF SocketExpires, launchVars
<1>4. ASSUME NEW g \in games, GameDies(g) PROVE TraceInv'
  <2>1. HelpersOn /\ GamesOn
    BY <1>4 DEF GameDies, launchVars, HelpersOn, GamesOn
  <2> QED
    BY <1>4, <2>1, WorldTrace DEF GameDies, connectionVars, launchVars
<1>5. CASE UNCHANGED vars
  <2>1. HelpersOn /\ GamesOn
    BY <1>5 DEF vars, gameVars, launchVars, HelpersOn, GamesOn
  <2> QED
    BY <1>5, <2>1, WorldTrace DEF vars, connectionVars, launchVars, restVars
<1>6. ASSUME NEW c \in Checkouts, OperatorStops(c) PROVE TraceInv'
  <2>1. HelpersOn /\ GamesOn
    BY <1>6 DEF OperatorStops, launchVars, HelpersOn, GamesOn
  <2> QED
    BY <1>6, <2>1, WorldTrace DEF OperatorStops, connectionVars, launchVars
<1>7. ASSUME NEW c \in Checkouts, OperatorLaunches(c) PROVE TraceInv'
  BY <1>7, OperatorLaunchTrace
<1> QED
  BY <1>1, <1>2, <1>3, <1>4, <1>5, <1>6, <1>7 DEF Next

(* The strengthening of LeavesNoTrace holds in every reachable state. *)
THEOREM TraceInductive == Spec => []TraceInv
<1> QED
  BY InitInv, StepInv, InitTrace, StepTrace, PTL DEF Spec

(* For any number of checkouts, shells, launches and mishaps: what a diagnostic
   that reports success launched is neither running nor about to, and an idle
   checkout that was not killed has the operator's own session registered. *)
THEOREM NoTraceLeft == Spec => []LeavesNoTrace
<1>1. TraceInv => LeavesNoTrace
  <2> SUFFICES ASSUME TraceInv, NEW c \in Checkouts
               PROVE  /\ report[c].passed =>
                            /\ Since(c) \cap games = {}
                            /\ \A h \in helpers : h.nonce \in Since(c) => h.at = "record"
                      /\ command[c].pc = "idle" /\ ~killed[c] => registered[c] = chosen[c]
    BY DEF LeavesNoTrace
  <2>1. PlaceOK(command[c]) /\ Returned(c) /\ Reported(c)
    BY DEF TraceInv
  <2> QED
    BY <2>1 DEF PlaceOK, Returned, Lent, Reported
<1> QED
  BY <1>1, TraceInductive, PTL
=============================================================================
