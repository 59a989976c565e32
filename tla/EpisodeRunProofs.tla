--------------------------- MODULE EpisodeRunProofs ---------------------------
(***************************************************************************)
(* Proofs about EpisodeRun, for every number of episodes, calls and        *)
(* actions, every price and every cap, in three parts.                     *)
(*                                                                         *)
(* Histories: types, terminals, and one action at a time.                  *)
(*                                                                         *)
(* Counts: the allowances hold for every limit, and, where recovery runs   *)
(* alone, no terminal without an admitted ambiguity hides an action of the *)
(* game.  Each step of Next is first sorted into one of a few shapes; the  *)
(* invariants are then carried through the shapes.                         *)
(*                                                                         *)
(* Money: neither cap is exceeded by more than the overage of one call,    *)
(* and, where recovery runs alone, every terminal reports what the shared  *)
(* ledger holds for its episode, but for the row in doubt.                 *)
(***************************************************************************)
EXTENDS EpisodeRun, FiniteSetTheorems, TLAPS

-----------------------------------------------------------------------------
(***************************************************************************)
(* Type correctness.                                                       *)
(***************************************************************************)

\* A worker and a recovery at rest are well typed.
LEMMA RestTypes ==
  /\ Idle \in RunState /\ Idle.pc = "idle"
  /\ NotRecovering \in RecState /\ NotRecovering.pc = "idle"
<1>0. 0 \in Attempts
  BY LimitAssumption DEF Attempts
<1>1. Idle \in RunState
  BY <1>0 DEF Idle, RunState, Working, Appending
<1>2. NotRecovering \in RecState
  BY DEF NotRecovering, RecState
<1> QED
  BY <1>1, <1>2 DEF Idle, NotRecovering

\* Every initial state is well typed: nothing created, reserved or billed.
LEMMA TypeInit == Init => TypeOK
<1> SUFFICES ASSUME Init PROVE TypeOK
  OBVIOUS
<1> QED
  BY RestTypes DEF Init, TypeOK, DiskOK, RunOK, RecOK, NoRow, Row

\* An exception unwinds the worker into a well-typed "finish".
LEMMA ExitTypes ==
  ASSUME RunOK, NEW reason \in Reasons
  PROVE  /\ Exit(reason) \in RunState
         /\ Exit(reason).pc = "finish" /\ Exit(reason).reason = reason
         /\ Exit(reason).episode = run.episode
<1>1. "finish" \in Working \cup {"idle"}
  BY DEF Working, Appending
<1> QED
  BY <1>1 DEF Exit, RunState, RunOK

\* Every reason the model's actions name is one a terminal may carry.
LEMMA KnownReasons ==
  /\ CapRefusal \subseteq Reasons /\ ProviderBudget \subseteq Reasons /\ LoopExit \subseteq Reasons
  /\ \A log : Placeholder(log).reason \in Reasons /\ RecoveredSummary(log).reason \in Reasons
  /\ {"INTERNAL_ERROR", "NATIVE_FAILURE", "PROVIDER_FAILURE", "PROVIDER_USAGE_UNKNOWN",
      "TOKEN_COUNT_UNAVAILABLE", "NATIVE_PUBLIC_LEGALITY_MISMATCH", "AGENT_ENDED",
      "OPERATOR_REQUEST"} \subseteq Reasons
<1> USE DEF Reasons, RecoveryReasons, FailureReasons, PlayReasons
<1>1. CapRefusal \subseteq Reasons
  BY DEF CapRefusal
<1>2. ProviderBudget \subseteq Reasons /\ LoopExit \subseteq Reasons
  BY DEF ProviderBudget, LoopExit
<1>3. \A log : Placeholder(log).reason \in Reasons
  BY DEF Placeholder
<1>4. \A log : RecoveredSummary(log).reason \in Reasons
  BY DEF RecoveredSummary, RecoveredReason
<1> QED
  BY <1>1, <1>2, <1>3, <1>4

\* A journal append keeps the journals well typed, and leads where it was
\* meant to or out.
LEMMA AppendTypes ==
  ASSUME TypeOK, NEW ev \in Events, NEW next, AppendThen(ev, next), run.pc # "idle",
         created' = created, ledger' = ledger, summary' = summary
  PROVE  /\ DiskOK'
         /\ run' = next \/ run' = Exit("INTERNAL_ERROR")
<1>1. run.episode \in Episodes
  BY DEF TypeOK, RunOK
<1>2. journal' \in [Episodes -> SUBSET Events]
  BY <1>1 DEF AppendThen, TypeOK, DiskOK
<1>3. torn' \subseteq Episodes
  BY <1>1 DEF AppendThen, TypeOK, DiskOK, Tear
<1> QED
  BY <1>2, <1>3 DEF AppendThen, TypeOK, DiskOK

(***************************************************************************)
(* Every step of the worker, of recovery and of the environment keeps each *)
(* variable in its type.                                                   *)
(***************************************************************************)
LEMMA TypeStep == TypeOK /\ [Next]_vars => TypeOK'
<1> SUFFICES ASSUME TypeOK, [Next]_vars PROVE TypeOK'
  OBVIOUS
<1> USE LimitAssumption, MoneyAssumption, SwitchAssumption
<1>0. RunOK /\ RecOK /\ DiskOK
  BY DEF TypeOK
<1>f. \A reason \in Reasons : run' = Exit(reason) /\ run.pc # "idle" => RunOK'
  BY <1>0, ExitTypes DEF RunOK
<1>1. ASSUME NEW e \in Episodes, Create(e) PROVE TypeOK'
  <2>1. [Idle EXCEPT !.pc = "start", !.episode = e] \in RunState
    BY RestTypes DEF RunState, Working, Appending
  <2>2. RunOK'
    BY <1>1, <2>1, RestTypes DEF Create, RunOK, RunState
  <2> QED
    BY <1>1, <2>2 DEF Create, TypeOK, DiskOK, RecOK
<1>2. CASE LaunchFails
  <2>1. DiskOK'
    BY <1>2, <1>0, KnownReasons DEF LaunchFails, FinishFailedExecution, DiskOK, RunOK
  <2>2. RunOK'
    BY <1>2, RestTypes DEF LaunchFails, RunOK
  <2> QED
    BY <1>2, <2>1, <2>2 DEF LaunchFails, TypeOK, RecOK
<1>3. CASE LogStart
  <2>1. Start \in Events
    BY <1>3, <1>0 DEF LogStart, Start, Event, Events, RunOK
  <2>2. [run EXCEPT !.pc = "loop"] \in RunState
    BY <1>0 DEF RunOK, RunState, Working, Appending
  <2>3. DiskOK' /\ (run' = [run EXCEPT !.pc = "loop"] \/ run' = Exit("INTERNAL_ERROR"))
    BY <1>3, <2>1, AppendTypes DEF LogStart
  <2>4. RunOK'
    BY <1>3, <2>2, <2>3, <1>0, <1>f, KnownReasons DEF LogStart, RunOK, RunState
  <2> QED
    BY <1>3, <2>3, <2>4 DEF LogStart, TypeOK, RecOK
<1>4. CASE EndPlay
  <2>1. RunOK'
    BY <1>4, <1>f, KnownReasons DEF EndPlay
  <2> QED
    BY <1>4, <2>1 DEF EndPlay, TypeOK, DiskOK, RecOK
<1>5. CASE BeginDecision
  <2>1. [run EXCEPT !.pc = "decide"] \in RunState
    BY <1>0 DEF RunOK, RunState, Working, Appending
  <2>2. RunOK'
    BY <1>5, <2>1, <1>0 DEF BeginDecision, RunOK, RunState
  <2> QED
    BY <1>5, <2>2 DEF BeginDecision, TypeOK, DiskOK, RecOK
<1>6. CASE CheckInput
  <2>0. 0 \in Attempts
    BY DEF Attempts
  <2>1. [run EXCEPT !.pc = "reserve", !.attempt = 0] \in RunState
    BY <2>0, <1>0 DEF RunOK, RunState, Working, Appending
  <2>2. CASE run' = [run EXCEPT !.pc = "reserve", !.attempt = 0]
    <3>1. RunOK'
      BY <1>6, <2>1, <2>2, <1>0 DEF CheckInput, RunOK, RunState
    <3> QED
      BY <1>6, <3>1 DEF CheckInput, TypeOK, DiskOK, RecOK
  <2>3. CASE \E reason \in Reasons : run' = Exit(reason)
    <3>1. RunOK'
      BY <1>6, <2>3, <1>f DEF CheckInput
    <3> QED
      BY <1>6, <3>1 DEF CheckInput, TypeOK, DiskOK, RecOK
  <2> QED
    BY <1>6, <2>2, <2>3, KnownReasons DEF CheckInput
<1>7. CASE RefuseCall
  <2>1. RunOK'
    BY <1>7, <1>f, KnownReasons DEF RefuseCall
  <2> QED
    BY <1>7, <2>1 DEF RefuseCall, TypeOK, DiskOK, RecOK
<1>8. CASE LogRequest
  <2>1. Event("provider_request", run.call) \in Events
    BY <1>8, <1>0 DEF LogRequest, Event, CallKinds, Events, RunOK
  <2>2. [run EXCEPT !.pc = "send"] \in RunState
    BY <1>0 DEF RunOK, RunState, Working, Appending
  <2>3. DiskOK' /\ (run' = [run EXCEPT !.pc = "send"] \/ run' = Exit("INTERNAL_ERROR"))
    BY <1>8, <2>1, AppendTypes DEF LogRequest
  <2>4. RunOK'
    BY <1>8, <2>2, <2>3, <1>0, <1>f, KnownReasons DEF LogRequest, RunOK, RunState
  <2> QED
    BY <1>8, <2>3, <2>4 DEF LogRequest, TypeOK, RecOK
<1>9. ASSUME NEW c \in Calls, ReserveCall(c) PROVE TypeOK'
  <2> DEFINE next == [run EXCEPT !.pc = "request", !.call = c, !.calls = @ + 1, !.cost = @ + Reserve]
  <2>0. run.calls + 1 \in Nat /\ run.cost + Reserve \in Int
    BY <1>0 DEF RunOK, RunState
  <2>1. next \in RunState
    BY <2>0, <1>0 DEF RunOK, RunState, Working, Appending
  <2>2. RunOK'
    BY <1>9, <2>1, <1>0 DEF ReserveCall, RunOK, RunState
  <2>3. ReservedRow(run.episode) \in Row
    BY <1>9, <1>0 DEF ReserveCall, ReservedRow, RunOK, Row
  <2>4. DiskOK'
    BY <1>9, <2>3, <1>0 DEF ReserveCall, DiskOK
  <2> QED
    BY <1>9, <2>2, <2>4 DEF ReserveCall, TypeOK, RecOK
<1>10. CASE SendAnswered
  <2>1. PICK charge \in Charges, usage \in Usages :
          /\ usage \in {charge, None}
          /\ billed' = [billed EXCEPT ![run.call] = charge]
          /\ run' = [run EXCEPT !.pc = "settle", !.usage = usage]
    BY <1>10 DEF SendAnswered
  <2>2. [run EXCEPT !.pc = "settle", !.usage = usage] \in RunState
    BY <2>1, <1>0 DEF RunOK, RunState, Working, Appending
  <2>3. RunOK'
    BY <1>10, <2>1, <2>2, <1>0 DEF SendAnswered, RunOK, RunState
  <2>4. billed' \in [Calls -> Nat]
    BY <2>1 DEF TypeOK
  <2> QED
    BY <1>10, <2>3, <2>4 DEF SendAnswered, TypeOK, DiskOK, RecOK
<1>11. CASE SendFails
  <2>1. PICK next \in AfterFailure : AppendThen(Event("provider_error", run.call), next)
    BY <1>11 DEF SendFails
  <2>2. Event("provider_error", run.call) \in Events
    BY <1>11, <1>0 DEF SendFails, Event, CallKinds, Events, RunOK
  <2>3. ledger' = ledger
    BY <1>11, <1>0 DEF SendFails, RetainedRow, DiskOK, RunOK
  <2>4. DiskOK' /\ (run' = next \/ run' = Exit("INTERNAL_ERROR"))
    BY <1>11, <2>1, <2>2, <2>3, AppendTypes DEF SendFails
  <2>5. ASSUME NEW reason \in Reasons, run' = Exit(reason) PROVE RunOK'
    BY <1>11, <2>5, <1>f DEF SendFails
  <2>6. ASSUME run.attempt + 1 < MaxAttempts,
               run' = [run EXCEPT !.pc = "reserve", !.attempt = @ + 1]
        PROVE  RunOK'
    <3>0. run.attempt \in Attempts
      BY <1>0 DEF RunOK, RunState
    <3>1. run.attempt + 1 \in Attempts
      BY <2>6, <3>0 DEF Attempts
    <3>2. [run EXCEPT !.pc = "reserve", !.attempt = @ + 1] \in RunState
      BY <3>1, <1>0 DEF RunOK, RunState, Working, Appending
    <3>3. run'.pc = "reserve" /\ run'.episode = run.episode
      BY <2>6, <1>0 DEF RunOK, RunState
    <3> QED
      BY <1>11, <3>2, <3>3, <2>6, <1>0 DEF SendFails, RunOK
  <2>7. RunOK'
    <3>1. \/ next = Exit("PROVIDER_FAILURE") \/ next = Exit("OPERATOR_REQUEST")
          \/ /\ run.attempt + 1 < MaxAttempts
             /\ next = [run EXCEPT !.pc = "reserve", !.attempt = @ + 1]
      BY <2>1 DEF AfterFailure
    <3>2. CASE run' = Exit("PROVIDER_FAILURE") \/ run' = Exit("OPERATOR_REQUEST")
               \/ run' = Exit("INTERNAL_ERROR")
      BY <3>2, <2>5, KnownReasons
    <3> QED
      BY <2>4, <2>6, <3>1, <3>2
  <2>8. billed' \in [Calls -> Nat]
    BY <1>11 DEF SendFails, TypeOK
  <2> QED
    BY <1>11, <2>4, <2>7, <2>8 DEF SendFails, TypeOK, RecOK
<1>12. CASE SettleCall
  <2>1. CASE run.usage = None
    <3>1. [run EXCEPT !.pc = "response"] \in RunState
      BY <1>0 DEF RunOK, RunState, Working, Appending
    <3>2. RunOK'
      BY <1>12, <2>1, <3>1, <1>0 DEF SettleCall, RunOK, RunState
    <3>3. DiskOK'
      BY <1>12, <2>1, <1>0 DEF SettleCall, RetainedRow, DiskOK, RunOK
    <3> QED
      BY <1>12, <3>2, <3>3 DEF SettleCall, TypeOK, RecOK
  <2>2. CASE run.usage # None
    <3>0. run.usage \in Nat
      BY <2>2, <1>0 DEF RunOK, RunState
    <3>4. run.cost + run.usage - Reserve \in Int
      BY <3>0, <1>0 DEF RunOK, RunState
    <3>1. [run EXCEPT !.pc = "response", !.cost = @ + run.usage - Reserve] \in RunState
      BY <3>4, <1>0 DEF RunOK, RunState, Working, Appending
    <3>2. RunOK'
      BY <1>12, <2>2, <3>1, <1>0 DEF SettleCall, RunOK, RunState
    <3>3. DiskOK'
      <4>1. run.call \in Calls
        BY <1>12, <1>0 DEF SettleCall, RunOK
      <4>2. SettledRow(ledger[run.call], run.usage) \in Row
        BY <3>0, <4>1, <1>0, ZenonT(40) DEF SettledRow, DiskOK, Row
      <4> QED
        BY <1>12, <2>2, <4>1, <4>2, <1>0 DEF SettleCall, DiskOK
    <3> QED
      BY <1>12, <3>2, <3>3 DEF SettleCall, TypeOK, RecOK
  <2> QED
    BY <2>1, <2>2
<1>13. CASE LogResponse
  <2> DEFINE next == IF run.usage = None THEN Exit("PROVIDER_USAGE_UNKNOWN")
                     ELSE [run EXCEPT !.pc = "parse"]
  <2>1. Response(run.call, run.usage) \in Events
    BY <1>13, <1>0 DEF LogResponse, Response, Events, RunOK, RunState
  <2>2. DiskOK' /\ (run' = next \/ run' = Exit("INTERNAL_ERROR"))
    BY <1>13, <2>1, AppendTypes DEF LogResponse
  <2>3. CASE run' = [run EXCEPT !.pc = "parse"]
    <3>1. [run EXCEPT !.pc = "parse"] \in RunState
      BY <1>0 DEF RunOK, RunState, Working, Appending
    <3>2. RunOK'
      BY <1>13, <2>3, <3>1, <1>0 DEF LogResponse, RunOK, RunState
    <3> QED
      BY <1>13, <2>2, <3>2 DEF LogResponse, TypeOK, RecOK
  <2>4. CASE \E reason \in Reasons : run' = Exit(reason)
    <3>1. RunOK'
      BY <1>13, <2>4, <1>f DEF LogResponse
    <3> QED
      BY <1>13, <2>2, <3>1 DEF LogResponse, TypeOK, RecOK
  <2> QED
    BY <2>2, <2>3, <2>4, KnownReasons
<1>14. CASE TakeOperation
  <2>1. CASE \E pc \in {"decide", "intent"} : run' = [run EXCEPT !.pc = pc]
    <3>1. PICK pc \in {"decide", "intent"} : run' = [run EXCEPT !.pc = pc]
      BY <2>1
    <3>2. [run EXCEPT !.pc = pc] \in RunState
      BY <1>0 DEF RunOK, RunState, Working, Appending
    <3>3. RunOK'
      BY <1>14, <3>1, <3>2, <1>0 DEF TakeOperation, RunOK, RunState
    <3> QED
      BY <1>14, <3>3 DEF TakeOperation, TypeOK, DiskOK, RecOK
  <2>2. CASE \E reason \in Reasons : run' = Exit(reason)
    <3>1. RunOK'
      BY <1>14, <2>2, <1>f DEF TakeOperation
    <3> QED
      BY <1>14, <3>1 DEF TakeOperation, TypeOK, DiskOK, RecOK
  <2> QED
    BY <1>14, <2>1, <2>2, KnownReasons DEF TakeOperation
<1>15. ASSUME NEW m \in Moves, LogIntent(m) PROVE TypeOK'
  <2>1. Event("action_intent", m) \in Events
    BY <1>15, <1>0 DEF LogIntent, Event, MoveKinds, Events, RunOK
  <2>2. [run EXCEPT !.pc = "apply", !.move = m] \in RunState
    BY <1>0 DEF RunOK, RunState, Working, Appending
  <2>3. DiskOK' /\ (run' = [run EXCEPT !.pc = "apply", !.move = m] \/ run' = Exit("INTERNAL_ERROR"))
    BY <1>15, <2>1, AppendTypes DEF LogIntent
  <2>4. RunOK'
    BY <1>15, <2>2, <2>3, <1>0, <1>f, KnownReasons, ZenonT(40) DEF LogIntent, RunOK, RunState
  <2> QED
    BY <1>15, <2>3, <2>4 DEF LogIntent, TypeOK, RecOK
<1>16. CASE ApplyAccepted
  <2>0. run.committed + 1 \in Nat
    BY <1>0 DEF RunOK, RunState
  <2>1. [run EXCEPT !.pc = "commit", !.committed = @ + 1] \in RunState
    BY <2>0, <1>0 DEF RunOK, RunState, Working, Appending
  <2>2. RunOK'
    BY <1>16, <2>1, <1>0 DEF ApplyAccepted, RunOK, RunState
  <2> QED
    BY <1>16, <2>2, <1>0 DEF ApplyAccepted, TypeOK, DiskOK, RecOK, RunOK
<1>17. CASE ApplyRejected
  <2>1. [run EXCEPT !.pc = "reject"] \in RunState
    BY <1>0 DEF RunOK, RunState, Working, Appending
  <2>2. RunOK'
    BY <1>17, <2>1, <1>0 DEF ApplyRejected, RunOK, RunState
  <2> QED
    BY <1>17, <2>2 DEF ApplyRejected, TypeOK, DiskOK, RecOK
<1>18. CASE ApplyUnknown
  <2>1. RunOK'
    BY <1>18, <1>f, KnownReasons DEF ApplyUnknown
  <2> QED
    BY <1>18, <2>1, <1>0 DEF ApplyUnknown, TypeOK, DiskOK, RecOK, RunOK
<1>19. CASE LogCommit
  <2>1. Event("action_commit", run.move) \in Events
    BY <1>19, <1>0 DEF LogCommit, Event, MoveKinds, Events, RunOK
  <2>2. [run EXCEPT !.pc = "loop"] \in RunState
    BY <1>0 DEF RunOK, RunState, Working, Appending
  <2>3. DiskOK' /\ (run' = [run EXCEPT !.pc = "loop"] \/ run' = Exit("INTERNAL_ERROR"))
    BY <1>19, <2>1, AppendTypes DEF LogCommit
  <2>4. RunOK'
    BY <1>19, <2>2, <2>3, <1>0, <1>f, KnownReasons DEF LogCommit, RunOK, RunState
  <2> QED
    BY <1>19, <2>3, <2>4 DEF LogCommit, TypeOK, RecOK
<1>20. CASE LogRejected
  <2>1. Event("action_rejected", run.move) \in Events
    BY <1>20, <1>0 DEF LogRejected, Event, MoveKinds, Events, RunOK
  <2>2. DiskOK' /\ \E reason \in Reasons : run' = Exit(reason)
    BY <1>20, <2>1, AppendTypes, KnownReasons DEF LogRejected
  <2>3. RunOK'
    BY <1>20, <2>2, <1>f DEF LogRejected
  <2> QED
    BY <1>20, <2>2, <2>3 DEF LogRejected, TypeOK, RecOK
<1>21. CASE Finish
  <2>1. summary' \in {summary, [summary EXCEPT ![run.episode] = RunSummary],
                      [summary EXCEPT ![run.episode] = Placeholder(journal[run.episode])]}
    BY <1>21 DEF Finish, FinishFailedExecution
  <2>2. RunSummary.reason \in Reasons
    BY <1>21, <1>0 DEF Finish, RunSummary, RunOK
  <2>3. torn' \subseteq Episodes
    BY <1>21, <1>0 DEF Finish, Tear, DiskOK, RunOK
  <2>4. DiskOK'
    BY <1>21, <2>1, <2>2, <2>3, <1>0, KnownReasons DEF Finish, DiskOK, RunOK
  <2>5. RunOK'
    BY <1>21, RestTypes DEF Finish, RunOK
  <2> QED
    BY <1>21, <2>4, <2>5 DEF Finish, TypeOK, RecOK
<1>22. CASE RecoverStart
  <2>1. RecOK'
    BY <1>22, <1>0, RestTypes DEF RecoverStart, RecOK, RecState, DiskOK
  <2> QED
    BY <1>22, <2>1 DEF RecoverStart, TypeOK, DiskOK, RunOK
<1>23. ASSUME NEW e \in Episodes, RecoverRead(e) PROVE TypeOK'
  <2>1. RecOK'
    BY <1>23, <1>0, RestTypes DEF RecoverRead, RecOK, RecState, DiskOK
  <2> QED
    BY <1>23, <2>1 DEF RecoverRead, TypeOK, DiskOK, RunOK
<1>24. CASE RecoverWrite
  <2>1. rec.todo \in SUBSET Episodes
    BY <1>0 DEF RecOK, RecState
  <2>2. [NotRecovering EXCEPT !.pc = "raised"] \in RecState
    BY RestTypes DEF RecState
  <2>3. [NotRecovering EXCEPT !.pc = "scan", !.todo = rec.todo \ {rec.episode}] \in RecState
    BY <2>1, RestTypes DEF RecState
  <2>4. rec' \in RecState /\ rec'.pc # "write"
    BY <1>24, <2>2, <2>3, RestTypes DEF RecoverWrite, RecState
  <2>5. RecOK'
    BY <2>4 DEF RecOK
  <2>6. DiskOK'
    BY <1>24, <1>0, KnownReasons DEF RecoverWrite, DiskOK, RecOK
  <2> QED
    BY <1>24, <2>5, <2>6 DEF RecoverWrite, TypeOK, RunOK
<1>25. CASE RecoverDone
  <2> QED
    BY <1>25, <1>0, RestTypes DEF RecoverDone, TypeOK, DiskOK, RunOK, RecOK
<1>26. CASE RequestStop
  BY <1>26 DEF RequestStop, TypeOK, DiskOK, RunOK, RecOK
<1>27. CASE Crash
  <2>1. torn' \subseteq Episodes
    BY <1>27, <1>0 DEF Crash, Quiet, Tear, DiskOK, RunOK
  <2> QED
    BY <1>27, <2>1, RestTypes DEF Crash, TypeOK, DiskOK, RunOK, RecOK
<1>28. CASE RecoverDies
  <2>1. torn' \subseteq Episodes
    BY <1>28, <1>0 DEF RecoverDies, Tear, DiskOK, RecOK
  <2> QED
    BY <1>28, <2>1, RestTypes DEF RecoverDies, TypeOK, DiskOK, RunOK, RecOK
<1>29. CASE UNCHANGED vars
  BY <1>29 DEF vars, TypeOK, DiskOK, RunOK, RecOK
<1> QED
  BY <1>1, <1>2, <1>3, <1>4, <1>5, <1>6, <1>7, <1>8, <1>9, <1>10, <1>11, <1>12, <1>13, <1>14, <1>15, <1>16, <1>17, <1>18, <1>19, <1>20, <1>21, <1>22, <1>23, <1>24, <1>25, <1>26, <1>27, <1>28, <1>29 DEF Next, WorkerNext, RecoverNext

\* Type correctness: whatever crashes, fails or is recovered, no ledger row
\* goes negative or loses its owner, and no state is malformed.
THEOREM TypeCorrect == Spec => []TypeOK
  BY TypeInit, TypeStep, PTL DEF Spec

-----------------------------------------------------------------------------
(***************************************************************************)
(* What one more event does to the ids a journal holds.                    *)
(***************************************************************************)

\* An event adds its id to the ids of its own kind and to no other.
LEMMA IdsOfAppend ==
  ASSUME NEW log, NEW ev, NEW kind
  PROVE  Ids(log \cup {ev}, kind) = Ids(log, kind) \cup (IF ev.kind = kind THEN {ev.id} ELSE {})
  BY DEF Ids

\* In particular it leaves the ids of every other kind alone.
LEMMA IdsOfOther ==
  ASSUME NEW log, NEW ev, NEW kind, ev.kind # kind
  PROVE  Ids(log \cup {ev}, kind) = Ids(log, kind)
  BY IdsOfAppend

\* Only a priced response prices a call.
LEMMA PricedOfAppend ==
  ASSUME NEW log, NEW ev
  PROVE  PricedIds(log \cup {ev}) =
           PricedIds(log) \cup
           (IF ev.kind = "provider_response" /\ ev.cost # None THEN {ev.id} ELSE {})
  BY DEF PricedIds

\* An empty journal holds no id.
LEMMA IdsOfEmpty == PricedIds({}) = {} /\ \A kind : Ids({}, kind) = {}
  BY DEF Ids, PricedIds

-----------------------------------------------------------------------------
(***************************************************************************)
(* The inductive invariant.  A step that leaves alone what a conjunct      *)
(* reads keeps it; these lemmas say so once for each part.                 *)
(***************************************************************************)
SameCallEvidence ==
  \A e \in Episodes :
    /\ Ids(journal'[e], "provider_request") = Ids(journal[e], "provider_request")
    /\ PricedIds(journal'[e]) = PricedIds(journal[e])

SameMoveEvidence ==
  \A e \in Episodes : \A kind \in MoveKinds : Ids(journal'[e], kind) = Ids(journal[e], kind)

\* An append writes its event to the running episode's journal and goes on,
\* or unwinds, with or without having written it.
LEMMA AppendCases ==
  ASSUME NEW ev, NEW next, AppendThen(ev, next)
  PROVE  \/ run' = Exit("INTERNAL_ERROR") /\ journal' = journal
         \/ /\ run' = next \/ run' = Exit("INTERNAL_ERROR")
            /\ journal' = [journal EXCEPT ![run.episode] = @ \cup {ev}]
  BY DEF AppendThen

\* What an event says nothing about stays as it was.
LEMMA LoggedEvidence ==
  ASSUME TypeOK, run.pc # "idle", NEW ev,
         journal' = [journal EXCEPT ![run.episode] = @ \cup {ev}]
  PROVE  /\ run.episode \in Episodes
         /\ \A e \in Episodes \ {run.episode} : journal'[e] = journal[e]
         /\ journal'[run.episode] = journal[run.episode] \cup {ev}
         /\ ev.kind \notin {"provider_request", "provider_response"} => SameCallEvidence
         /\ ev.kind \notin MoveKinds => SameMoveEvidence
<1>1. run.episode \in Episodes
  BY DEF TypeOK, RunOK
<1>2. /\ \A e \in Episodes \ {run.episode} : journal'[e] = journal[e]
      /\ journal'[run.episode] = journal[run.episode] \cup {ev}
  BY <1>1 DEF TypeOK, DiskOK
<1>3. ASSUME ev.kind \notin {"provider_request", "provider_response"} PROVE SameCallEvidence
  <2>1. Ids(journal[run.episode] \cup {ev}, "provider_request")
          = Ids(journal[run.episode], "provider_request")
    BY <1>3, IdsOfAppend, SMTT(30)
  <2>2. PricedIds(journal[run.episode] \cup {ev}) = PricedIds(journal[run.episode])
    BY <1>3, PricedOfAppend
  <2> QED
    BY <1>2, <2>1, <2>2 DEF SameCallEvidence
<1>4. ASSUME ev.kind \notin MoveKinds PROVE SameMoveEvidence
  <2>1. ASSUME NEW kind \in MoveKinds
        PROVE  Ids(journal[run.episode] \cup {ev}, kind) = Ids(journal[run.episode], kind)
    BY <1>4, <2>1, IdsOfAppend
  <2> QED
    BY <1>2, <2>1 DEF SameMoveEvidence
<1> QED
  BY <1>1, <1>2, <1>3, <1>4

\* A step of the worker changes only its own episode.
LEMMA OnlyCreatedKept ==
  ASSUME TypeOK, OnlyCreatedEpisodes, run.pc # "idle", created' = created,
         run'.pc = "idle" \/ run'.episode = run.episode,
         \A e \in Episodes \ {run.episode} : Rows(e)' = Rows(e) /\ journal'[e] = journal[e]
  PROVE  OnlyCreatedEpisodes'
  BY DEF OnlyCreatedEpisodes, TypeOK, DiskOK

\* A step that neither touches a row, a bill nor the evidence about calls,
\* and leaves no call in hand.
LEMMA CallsKept ==
  ASSUME RowsExplainRequests, DoubtIsInHand, ledger' = ledger, billed' = billed,
         SameCallEvidence,
         run'.pc \notin {"request", "send", "settle", "response"},
         \/ run'.pc \in {"idle", "finish"}
         \/ /\ run.pc \notin {"idle", "request", "response", "finish"}
            /\ run'.episode = run.episode /\ run.episode \in Episodes
  PROVE  RowsExplainRequests' /\ CallInHand' /\ DoubtIsInHand'
<1>1. \A e \in Episodes : Rows(e)' = Rows(e) /\ Requested(e)' = Requested(e)
  BY DEF Rows, Requested, SameCallEvidence
<1>2. \A e \in Episodes : InDoubt(e)' = InDoubt(e)
  BY <1>1 DEF InDoubt, SameCallEvidence
<1>3. RowsExplainRequests'
  BY <1>1 DEF RowsExplainRequests, Reserved
<1>4. CallInHand'
  BY DEF CallInHand
<1>5. DoubtIsInHand'
  BY <1>2 DEF DoubtIsInHand
<1> QED
  BY <1>3, <1>4, <1>5

\* A step that neither applies an action nor touches the evidence about
\* actions, and leaves no action in hand.
LEMMA MovesKept ==
  ASSUME ActionInHand, applied' = applied, SameMoveEvidence,
         run'.pc \notin {"apply", "commit", "reject"}
  PROVE  ActionInHand'
<1>1. \A e \in Episodes : /\ Intents(e)' = Intents(e) /\ Commits(e)' = Commits(e)
                          /\ Rejections(e)' = Rejections(e)
  BY DEF SameMoveEvidence, MoveKinds, Intents, Commits, Rejections
<1>2. UNION {Intents(e)' : e \in Episodes} = UNION {Intents(e) : e \in Episodes}
  BY <1>1
<1> QED
  BY <1>1, <1>2 DEF ActionInHand

\* Nothing is reserved, journaled or applied at the start.
LEMMA IndInit == Init => IInv
<1> SUFFICES ASSUME Init PROVE IInv
  OBVIOUS
<1>1. \A e \in Episodes : Rows(e) = {} /\ journal[e] = {}
  BY NoneAssumption DEF Init, Rows, NoRow
<1>2. \A e \in Episodes : InDoubt(e) = {} /\ Requested(e) = {}
  BY <1>1, IdsOfEmpty DEF InDoubt, Requested
<1>3. \A e \in Episodes : Intents(e) = {} /\ Commits(e) = {} /\ Rejections(e) = {}
  BY <1>1, IdsOfEmpty DEF Intents, Commits, Rejections
<1>4. OnlyCreatedEpisodes
  BY <1>1, RestTypes DEF Init, OnlyCreatedEpisodes
<1>5. RowsExplainRequests
  BY <1>1, <1>2 DEF Init, RowsExplainRequests, Reserved, NoRow
<1>6. CallInHand /\ DoubtIsInHand
  BY <1>2, RestTypes DEF Init, CallInHand, DoubtIsInHand
<1>7. ActionInHand
  BY <1>3, RestTypes DEF Init, ActionInHand
<1> QED
  BY <1>4, <1>5, <1>6, <1>7 DEF IInv

Resting == {"idle", "finish"}
Between == {"loop", "decide", "reserve", "parse", "intent"}
MidCall == {"request", "response"}

\* A step that only moves the worker on, between calls and actions.
LEMMA CalmStep ==
  ASSUME TypeOK, IInv, run.pc # "idle",
         created' = created, ledger' = ledger, applied' = applied, billed' = billed,
         SameCallEvidence, SameMoveEvidence,
         \A e \in Episodes \ {run.episode} : journal'[e] = journal[e],
         \/ run'.pc = "idle"
         \/ run'.pc = "finish" /\ run'.episode = run.episode
         \/ /\ run.pc \notin MidCall \cup Resting /\ run'.pc \in Between
            /\ run'.episode = run.episode
  PROVE  IInv'
<1>1. run.episode \in Episodes
  BY DEF TypeOK, RunOK
<1>2. OnlyCreatedEpisodes'
  BY OnlyCreatedKept DEF IInv, Rows
<1>3. RowsExplainRequests' /\ CallInHand' /\ DoubtIsInHand'
  BY <1>1, CallsKept DEF IInv, Resting, Between, MidCall
<1>4. ActionInHand'
  BY MovesKept DEF IInv, Between
<1> QED
  BY <1>2, <1>3, <1>4 DEF IInv

\* The same when no journal changes.
LEMMA CalmSilentStep ==
  ASSUME TypeOK, IInv, run.pc # "idle",
         created' = created, ledger' = ledger, journal' = journal,
         applied' = applied, billed' = billed,
         \/ run'.pc = "idle"
         \/ run'.pc = "finish" /\ run'.episode = run.episode
         \/ /\ run.pc \notin MidCall \cup Resting /\ run'.pc \in Between
            /\ run'.episode = run.episode
  PROVE  IInv'
<1>1. SameCallEvidence /\ SameMoveEvidence
  BY DEF SameCallEvidence, SameMoveEvidence
<1> QED
  BY <1>1, CalmStep

\* A failed append unwinds the run without touching anything IInv reads.
LEMMA UnwindStep ==
  ASSUME TypeOK, IInv, run.pc # "idle", NEW reason \in Reasons, run' = Exit(reason),
         created' = created, ledger' = ledger, journal' = journal,
         applied' = applied, billed' = billed
  PROVE  IInv'
<1>1. run'.pc = "finish" /\ run'.episode = run.episode
  BY ExitTypes DEF TypeOK
<1> QED
  BY <1>1, CalmSilentStep

\* Steps of recovery, the operator and the clock: nothing IInv reads moves.
LEMMA ElsewhereStep ==
  ASSUME IInv, created' = created, ledger' = ledger, journal' = journal,
         applied' = applied, billed' = billed, run' = run
  PROVE  IInv'
<1>1. \A e \in Episodes : /\ Rows(e)' = Rows(e) /\ Requested(e)' = Requested(e)
                          /\ InDoubt(e)' = InDoubt(e) /\ Intents(e)' = Intents(e)
                          /\ Commits(e)' = Commits(e) /\ Rejections(e)' = Rejections(e)
  BY DEF Rows, Requested, InDoubt, Intents, Commits, Rejections
<1>2. UNION {Intents(e)' : e \in Episodes} = UNION {Intents(e) : e \in Episodes}
  BY <1>1
<1>3. OnlyCreatedEpisodes' /\ RowsExplainRequests'
  BY <1>1 DEF IInv, OnlyCreatedEpisodes, RowsExplainRequests, Reserved
<1>4. CallInHand'
  BY DEF IInv, CallInHand, Rows, Requested
<1>5. DoubtIsInHand'
  BY DEF IInv, DoubtIsInHand, InDoubt, Rows, Requested
<1>6. ActionInHand'
  BY DEF IInv, ActionInHand, Intents, Commits, Rejections
<1> QED
  BY <1>3, <1>4, <1>5, <1>6 DEF IInv

\* The facts every step of the worker starts from.
LEMMA InHand ==
  ASSUME TypeOK, run.pc # "idle"
  PROVE  /\ run.episode \in Episodes
         /\ run.pc \in {"request", "send", "settle", "response"} => run.call \in Calls
         /\ run.pc \in {"apply", "commit", "reject"} => run.move \in Moves
         /\ \A reason \in Reasons :
              Exit(reason).pc = "finish" /\ Exit(reason).episode = run.episode
         /\ "INTERNAL_ERROR" \in Reasons
  BY ExitTypes, KnownReasons DEF TypeOK, RunOK

-----------------------------------------------------------------------------
(***************************************************************************)
(* The inductive step, the worker's actions first.                         *)
(***************************************************************************)

\* Reserving puts a fresh, unbilled row of the running episode in hand.
LEMMA ReserveKeeps ==
  ASSUME TypeOK, IInv, NEW c \in Calls, ReserveCall(c)
  PROVE  IInv'
<1>1. /\ run.pc = "reserve" /\ run.episode \in Episodes
      /\ run'.pc = "request" /\ run'.episode = run.episode /\ run'.call = c
  BY InHand DEF ReserveCall, TypeOK, RunOK, RunState
<1>2. /\ ledger'[c] = ReservedRow(run.episode)
      /\ \A d \in Calls \ {c} : ledger'[d] = ledger[d]
  BY DEF ReserveCall, TypeOK, DiskOK
<1>3. \A e \in Episodes : c \notin Rows(e) /\ c \notin Requested(e)
  BY NoneAssumption DEF ReserveCall, Reserved, Rows, IInv, RowsExplainRequests
<1>4. \A e \in Episodes : Rows(e)' = Rows(e) \cup (IF e = run.episode THEN {c} ELSE {})
  BY <1>1, <1>2, <1>3 DEF Rows, ReservedRow
<1>5. \A e \in Episodes : Requested(e)' = Requested(e)
  BY DEF ReserveCall, Requested
<1>6. OnlyCreatedEpisodes'
  BY <1>1, <1>4, OnlyCreatedKept DEF ReserveCall, IInv
<1>7. RowsExplainRequests'
  <2>1. billed[c] = 0
    BY <1>3 DEF TypeOK, IInv, RowsExplainRequests
  <2>2. \A d \in Calls : Reserved(d)' =>
          ledger'[d].cost = IF ledger'[d].settled THEN billed'[d] ELSE Reserve
    BY <1>2 DEF ReserveCall, ReservedRow, Reserved, IInv, RowsExplainRequests
  <2>3. \A e \in Episodes : \A d \in Rows(e)' \ Requested(e)' : ~ledger'[d].settled
    <3> SUFFICES ASSUME NEW e \in Episodes, NEW d \in Rows(e)' \ Requested(e)'
                 PROVE  ~ledger'[d].settled
      OBVIOUS
    <3>1. d \in Calls
      BY DEF Rows
    <3>2. CASE d = c
      BY <1>2, <3>2 DEF ReservedRow
    <3>3. CASE d # c
      BY <1>2, <1>4, <1>5, <3>1, <3>3 DEF IInv, RowsExplainRequests
    <3> QED
      BY <3>2, <3>3
  <2>4. \A e \in Episodes : Requested(e)' \subseteq Rows(e)'
    BY <1>4, <1>5 DEF IInv, RowsExplainRequests
  <2>5. \A d \in Calls : billed'[d] > 0 =>
          \E e \in Episodes : d \in Rows(e)' /\ d \in Requested(e)'
    BY <1>4, <1>5 DEF ReserveCall, IInv, RowsExplainRequests
  <2> QED
    BY <2>2, <2>3, <2>4, <2>5 DEF RowsExplainRequests
<1>8. CallInHand'
  BY <1>1, <1>3, <1>4, <1>5 DEF CallInHand, Rows, Requested
<1>9. DoubtIsInHand'
  <2>1. InDoubt(run.episode) = {}
    BY <1>1 DEF IInv, DoubtIsInHand
  <2>2. \A e \in Episodes : InDoubt(e)' \subseteq InDoubt(e) \cup (IF e = run.episode THEN {c} ELSE {})
    BY <1>2, <1>3, <1>4, <1>5 DEF InDoubt, ReserveCall
  <2>4. \A e \in Episodes : \A x, y \in InDoubt(e)' : x = y
    BY <2>1, <2>2 DEF IInv, DoubtIsInHand
  <2> QED
    BY <1>1, <2>1, <2>2, <2>4 DEF DoubtIsInHand
<1>10. ActionInHand'
  <2>1. SameMoveEvidence
    BY DEF SameMoveEvidence, ReserveCall
  <2> QED
    BY <1>1, <2>1, MovesKept DEF IInv, ReserveCall
<1> QED
  BY <1>6, <1>7, <1>8, <1>9, <1>10 DEF IInv

\* Journaling the request clears the doubt about the call in hand.
LEMMA RequestKeeps ==
  ASSUME TypeOK, IInv, LogRequest
  PROVE  IInv'
<1> DEFINE ev == Event("provider_request", run.call)
<1>1. /\ run.pc = "request" /\ run.episode \in Episodes /\ run.call \in Calls
  BY InHand DEF LogRequest
<1>2. CASE run' = Exit("INTERNAL_ERROR") /\ journal' = journal
  BY <1>1, <1>2, InHand, UnwindStep DEF LogRequest
<1>3. CASE /\ run' = [run EXCEPT !.pc = "send"] \/ run' = Exit("INTERNAL_ERROR")
           /\ journal' = [journal EXCEPT ![run.episode] = @ \cup {ev}]
  <2>1. /\ run'.episode = run.episode /\ run'.pc \in {"send", "finish"}
        /\ run'.pc = "send" => run'.call = run.call
    BY <1>1, <1>3, InHand DEF TypeOK, RunOK, RunState
  <2>2. ev.kind = "provider_request" /\ ev.id = run.call
    BY DEF Event
  <2>3. /\ \A e \in Episodes \ {run.episode} : journal'[e] = journal[e]
        /\ journal'[run.episode] = journal[run.episode] \cup {ev}
        /\ SameMoveEvidence
    BY <1>1, <1>3, <2>2, LoggedEvidence DEF MoveKinds
  <2>4. \A e \in Episodes :
          Requested(e)' = Requested(e) \cup (IF e = run.episode THEN {run.call} ELSE {})
    BY <2>2, <2>3, IdsOfAppend DEF Requested
  <2>5. \A e \in Episodes : PricedIds(journal'[e]) = PricedIds(journal[e])
    BY <2>2, <2>3, PricedOfAppend
  <2>6. \A e \in Episodes : Rows(e)' = Rows(e)
    BY DEF LogRequest, Rows
  <2>7. run.call \in Rows(run.episode) /\ ~ledger[run.call].settled
    BY <1>1 DEF IInv, CallInHand, RowsExplainRequests
  <2>8. OnlyCreatedEpisodes'
    BY <1>1, <2>1, <2>3, <2>6, OnlyCreatedKept DEF IInv, LogRequest
  <2>9. RowsExplainRequests'
    BY <2>4, <2>6, <2>7 DEF IInv, RowsExplainRequests, LogRequest, Reserved
  <2>10. CallInHand'
    <3>1. PICK here \in Episodes, it \in Calls : here = run.episode /\ it = run.call
      BY <1>1
    <3>2. it \in Rows(here)' /\ it \in Requested(here)' /\ ~ledger'[it].settled
      BY <2>4, <2>6, <2>7, <3>1 DEF LogRequest
    <3> QED
      BY <2>1, <3>1, <3>2 DEF CallInHand, Rows, Requested
  <2>11. DoubtIsInHand'
    <3>1. \A e \in Episodes : InDoubt(e)' \subseteq InDoubt(e)
      BY <2>4, <2>5, <2>6 DEF InDoubt, LogRequest
    <3>2. PICK here \in Episodes, it \in Calls : here = run.episode /\ it = run.call
      BY <1>1
    <3>3. InDoubt(here) \subseteq {it}
      BY <1>1, <3>2 DEF IInv, DoubtIsInHand
    <3>4. it \notin InDoubt(here)'
      BY <3>2, <2>4, <2>7 DEF InDoubt, LogRequest
    <3>5. InDoubt(here)' = {} /\ run'.episode = here
      BY <2>1, <3>1, <3>2, <3>3, <3>4
    <3> QED
      BY <2>1, <3>1, <3>5 DEF IInv, DoubtIsInHand
  <2>12. ActionInHand'
    BY <2>1, <2>3, MovesKept DEF IInv, LogRequest
  <2> QED
    BY <2>8, <2>9, <2>10, <2>11, <2>12 DEF IInv
<1> QED
  BY <1>2, <1>3, AppendCases DEF LogRequest

\* A charge lands on the unsettled, requested call in hand.
LEMMA AnswerKeeps ==
  ASSUME TypeOK, IInv, SendAnswered
  PROVE  IInv'
<1>1. PICK charge \in Charges, usage \in Usages :
        /\ usage \in {charge, None}
        /\ billed' = [billed EXCEPT ![run.call] = charge]
        /\ run' = [run EXCEPT !.pc = "settle", !.usage = usage]
  BY DEF SendAnswered
<1>2. /\ run.pc = "send" /\ run.episode \in Episodes /\ run.call \in Calls
      /\ run'.pc = "settle" /\ run'.episode = run.episode /\ run'.call = run.call
      /\ run'.usage = usage
  BY <1>1, InHand DEF SendAnswered, TypeOK, RunOK, RunState
<1>3. billed'[run.call] = charge /\ \A d \in Calls \ {run.call} : billed'[d] = billed[d]
  BY <1>1, <1>2 DEF TypeOK
<1>4. \A e \in Episodes : Rows(e)' = Rows(e) /\ Requested(e)' = Requested(e) /\ InDoubt(e)' = InDoubt(e)
  BY DEF SendAnswered, Rows, Requested, InDoubt
<1>5. /\ run.call \in Rows(run.episode) /\ run.call \in Requested(run.episode)
      /\ ~ledger[run.call].settled
  BY <1>2 DEF IInv, CallInHand
<1>6. OnlyCreatedEpisodes'
  BY <1>2, <1>4, OnlyCreatedKept DEF IInv, SendAnswered
<1>7. RowsExplainRequests'
  <2>1. \A d \in Calls : billed'[d] > 0 =>
          \E e \in Episodes : d \in Rows(e)' /\ d \in Requested(e)'
    BY <1>2, <1>3, <1>4, <1>5 DEF IInv, RowsExplainRequests
  <2>2. \A d \in Calls : Reserved(d)' =>
          ledger'[d].cost = IF ledger'[d].settled THEN billed'[d] ELSE Reserve
    BY <1>3, <1>5 DEF SendAnswered, Reserved, IInv, RowsExplainRequests
  <2> QED
    BY <1>4, <2>1, <2>2 DEF IInv, RowsExplainRequests, SendAnswered
<1>8. CallInHand'
  BY <1>1, <1>2, <1>3, <1>4, <1>5 DEF CallInHand, SendAnswered, Rows, Requested
<1>9. DoubtIsInHand'
  BY <1>2, <1>4 DEF IInv, DoubtIsInHand
<1>10. ActionInHand'
  <2>1. SameMoveEvidence
    BY DEF SameMoveEvidence, SendAnswered
  <2> QED
    BY <1>2, <2>1, MovesKept DEF IInv, SendAnswered
<1> QED
  BY <1>6, <1>7, <1>8, <1>9, <1>10 DEF IInv

\* A failed call may have been charged all the same; its row is retained.
LEMMA FailureKeeps ==
  ASSUME TypeOK, IInv, SendFails
  PROVE  IInv'
<1> DEFINE ev == Event("provider_error", run.call)
<1>1. /\ run.pc = "send" /\ run.episode \in Episodes /\ run.call \in Calls
  BY InHand DEF SendFails
<1>2. ledger' = ledger
  BY <1>1 DEF SendFails, RetainedRow, TypeOK, DiskOK
<1>3. PICK next \in AfterFailure : AppendThen(ev, next)
  BY DEF SendFails
<1>4. ev.kind = "provider_error"
  BY DEF Event
<1>5. SameCallEvidence /\ SameMoveEvidence /\ \A e \in Episodes \ {run.episode} : journal'[e] = journal[e]
  <2>1. CASE journal' = journal
    BY <2>1 DEF SameCallEvidence, SameMoveEvidence
  <2>2. CASE journal' = [journal EXCEPT ![run.episode] = @ \cup {ev}]
    BY <1>1, <1>4, <2>2, LoggedEvidence DEF MoveKinds
  <2> QED
    BY <1>3, <2>1, <2>2, AppendCases
<1>6. run'.episode = run.episode /\ run'.pc \in {"finish", "reserve"}
  <2>1. \/ next = Exit("PROVIDER_FAILURE") \/ next = Exit("OPERATOR_REQUEST")
        \/ next = [run EXCEPT !.pc = "reserve", !.attempt = @ + 1]
    BY <1>3 DEF AfterFailure
  <2>2. next.episode = run.episode /\ next.pc \in {"finish", "reserve"}
    BY <1>1, <2>1, InHand, KnownReasons, ZenonT(40) DEF TypeOK, RunOK, RunState
  <2> QED
    BY <1>1, <1>3, <2>2, AppendCases, InHand
<1>7. PICK charge \in Charges : billed' = [billed EXCEPT ![run.call] = charge]
  BY DEF SendFails
<1>8. \A d \in Calls \ {run.call} : billed'[d] = billed[d]
  BY <1>7 DEF TypeOK
<1>9. \A e \in Episodes : Rows(e)' = Rows(e) /\ Requested(e)' = Requested(e) /\ InDoubt(e)' = InDoubt(e)
  BY <1>2, <1>5 DEF Rows, Requested, InDoubt, SameCallEvidence
<1>10. /\ run.call \in Rows(run.episode) /\ run.call \in Requested(run.episode)
       /\ ~ledger[run.call].settled
  BY <1>1 DEF IInv, CallInHand
<1>11. OnlyCreatedEpisodes'
  BY <1>1, <1>5, <1>6, <1>9, OnlyCreatedKept DEF IInv, SendFails
<1>12. RowsExplainRequests'
  <2>1. \A d \in Calls : billed'[d] > 0 =>
          \E e \in Episodes : d \in Rows(e)' /\ d \in Requested(e)'
    BY <1>1, <1>8, <1>9, <1>10 DEF IInv, RowsExplainRequests
  <2>2. \A d \in Calls : Reserved(d)' =>
          ledger'[d].cost = IF ledger'[d].settled THEN billed'[d] ELSE Reserve
    BY <1>2, <1>8, <1>10 DEF Reserved, IInv, RowsExplainRequests
  <2> QED
    BY <1>2, <1>9, <2>1, <2>2 DEF IInv, RowsExplainRequests
<1>13. CallInHand'
  BY <1>6 DEF CallInHand
<1>14. DoubtIsInHand'
  BY <1>1, <1>6, <1>9 DEF IInv, DoubtIsInHand
<1>15. ActionInHand'
  BY <1>5, <1>6, MovesKept DEF IInv, SendFails
<1> QED
  BY <1>11, <1>12, <1>13, <1>14, <1>15 DEF IInv

\* Settling puts the call in hand in doubt until its response is journaled.
LEMMA SettleKeeps ==
  ASSUME TypeOK, IInv, SettleCall
  PROVE  IInv'
<1>1. /\ run.pc = "settle" /\ run.episode \in Episodes /\ run.call \in Calls
      /\ run'.pc = "response" /\ run'.episode = run.episode /\ run'.call = run.call
      /\ run'.usage = run.usage
  BY InHand DEF SettleCall, TypeOK, RunOK, RunState
<1>2. \A d \in Calls \ {run.call} : ledger'[d] = ledger[d]
  BY <1>1 DEF SettleCall, TypeOK, DiskOK
<1>3. /\ run.call \in Rows(run.episode) /\ run.call \in Requested(run.episode)
      /\ ~ledger[run.call].settled /\ run.usage \in {None, billed[run.call]}
      /\ ledger[run.call].cost = Reserve
  BY <1>1, NoneAssumption DEF IInv, CallInHand, RowsExplainRequests, Rows, Reserved
<1>4. /\ ledger'[run.call].episode = ledger[run.call].episode
      /\ IF run.usage = None THEN ledger'[run.call] = ledger[run.call]
         ELSE ledger'[run.call].settled /\ ledger'[run.call].cost = billed[run.call]
  <2>1. ledger[run.call] \in Row
    BY <1>1 DEF TypeOK, DiskOK
  <2>2. CASE run.usage = None
    BY <1>1, <2>1, <2>2 DEF SettleCall, RetainedRow, TypeOK, DiskOK
  <2>3. CASE run.usage # None
    <3>1. ledger'[run.call] = SettledRow(ledger[run.call], run.usage)
      BY <1>1, <2>3 DEF SettleCall, TypeOK, DiskOK
    <3> QED
      BY <1>3, <2>1, <2>3, <3>1 DEF SettledRow, Row
  <2> QED
    BY <2>2, <2>3
<1>5. \A e \in Episodes : Rows(e)' = Rows(e)
  BY <1>2, <1>4 DEF Rows
<1>6. \A e \in Episodes : Requested(e)' = Requested(e)
  BY DEF SettleCall, Requested
<1>7. OnlyCreatedEpisodes'
  BY <1>1, <1>5, OnlyCreatedKept DEF IInv, SettleCall
<1>8. RowsExplainRequests'
  <2>1. \A d \in Calls : Reserved(d)' =>
          ledger'[d].cost = IF ledger'[d].settled THEN billed'[d] ELSE Reserve
    BY <1>1, <1>2, <1>3, <1>4 DEF SettleCall, Reserved, IInv, RowsExplainRequests
  <2>2. \A e \in Episodes : \A d \in Rows(e)' \ Requested(e)' : ~ledger'[d].settled
    <3> SUFFICES ASSUME NEW e \in Episodes, NEW d \in Rows(e)' \ Requested(e)'
                 PROVE  ~ledger'[d].settled
      OBVIOUS
    <3>1. d \in Rows(e) \ Requested(e) /\ d \in Calls
      BY <1>5, <1>6 DEF Rows
    <3>2. d # run.call
      BY <1>1, <1>3, <3>1 DEF Rows
    <3> QED
      BY <1>2, <3>1, <3>2 DEF IInv, RowsExplainRequests
  <2>3. \A d \in Calls : billed'[d] > 0 =>
          \E e \in Episodes : d \in Rows(e)' /\ d \in Requested(e)'
    BY <1>5, <1>6 DEF SettleCall, IInv, RowsExplainRequests
  <2> QED
    BY <1>5, <1>6, <2>1, <2>2, <2>3 DEF IInv, RowsExplainRequests
<1>9. CallInHand'
  BY <1>1, <1>3, <1>4, <1>5, <1>6 DEF CallInHand, Rows, Requested
<1>10. DoubtIsInHand'
  <2>1. InDoubt(run.episode) = {}
    BY <1>1 DEF IInv, DoubtIsInHand
  <2>2. \A e \in Episodes \ {run.episode} : run.call \notin Rows(e)
    BY <1>3 DEF Rows
  <2>3. \A e \in Episodes :
          InDoubt(e)' \subseteq InDoubt(e) \cup (IF e = run.episode THEN {run.call} ELSE {})
    <3> SUFFICES ASSUME NEW e \in Episodes, NEW d \in InDoubt(e)', d # run.call \/ e # run.episode
                 PROVE  d \in InDoubt(e)
      BY DEF InDoubt
    <3>1. d \in Rows(e) /\ d \in Calls
      BY <1>5 DEF InDoubt, Rows
    <3>2. ledger'[d] = ledger[d]
      BY <1>2, <2>2, <3>1
    <3> QED
      BY <1>6, <3>1, <3>2 DEF InDoubt, SettleCall
  <2>4. \A e \in Episodes : \A x, y \in InDoubt(e)' : x = y
    BY <2>1, <2>3 DEF IInv, DoubtIsInHand
  <2> QED
    BY <1>1, <2>1, <2>3, <2>4 DEF DoubtIsInHand
<1>11. ActionInHand'
  <2>1. SameMoveEvidence
    BY DEF SameMoveEvidence, SettleCall
  <2> QED
    BY <1>1, <2>1, MovesKept DEF IInv, SettleCall
<1> QED
  BY <1>7, <1>8, <1>9, <1>10, <1>11 DEF IInv

\* The journaled response, priced when the row is settled, clears the doubt.
LEMMA ResponseKeeps ==
  ASSUME TypeOK, IInv, LogResponse
  PROVE  IInv'
<1> DEFINE ev == Response(run.call, run.usage)
           next == IF run.usage = None THEN Exit("PROVIDER_USAGE_UNKNOWN")
                   ELSE [run EXCEPT !.pc = "parse"]
<1>1. /\ run.pc = "response" /\ run.episode \in Episodes /\ run.call \in Calls
  BY InHand DEF LogResponse
<1>2. CASE run' = Exit("INTERNAL_ERROR") /\ journal' = journal
  BY <1>1, <1>2, InHand, UnwindStep DEF LogResponse
<1>3. CASE /\ run' = next \/ run' = Exit("INTERNAL_ERROR")
           /\ journal' = [journal EXCEPT ![run.episode] = @ \cup {ev}]
  <2>1. run'.episode = run.episode /\ run'.pc \in {"parse", "finish"}
    BY <1>1, <1>3, InHand, KnownReasons DEF TypeOK, RunOK, RunState
  <2>2. ev.kind = "provider_response" /\ ev.id = run.call /\ ev.cost = run.usage
    BY DEF Response
  <2>3. /\ \A e \in Episodes \ {run.episode} : journal'[e] = journal[e]
        /\ journal'[run.episode] = journal[run.episode] \cup {ev}
        /\ SameMoveEvidence
    BY <1>1, <1>3, <2>2, LoggedEvidence DEF MoveKinds
  <2>4. \A e \in Episodes : Requested(e)' = Requested(e)
    <3>1. Ids(journal[run.episode] \cup {ev}, "provider_request") =
            Ids(journal[run.episode], "provider_request")
      BY <2>2, IdsOfOther
    <3> QED
      BY <2>3, <3>1 DEF Requested
  <2>5. PricedIds(journal'[run.episode]) =
          PricedIds(journal[run.episode]) \cup (IF run.usage # None THEN {run.call} ELSE {})
    BY <2>2, <2>3, PricedOfAppend
  <2>6. \A e \in Episodes : Rows(e)' = Rows(e)
    BY DEF LogResponse, Rows
  <2>7. /\ run.call \in Requested(run.episode)
        /\ run.usage = None => ~ledger[run.call].settled
    BY <1>1 DEF IInv, CallInHand
  <2>8. OnlyCreatedEpisodes'
    BY <1>1, <2>1, <2>3, <2>6, OnlyCreatedKept DEF IInv, LogResponse
  <2>9. RowsExplainRequests'
    BY <2>4, <2>6 DEF IInv, RowsExplainRequests, LogResponse, Reserved
  <2>10. CallInHand'
    BY <2>1 DEF CallInHand
  <2>11. DoubtIsInHand'
    <3>1. \A e \in Episodes : InDoubt(e)' \subseteq InDoubt(e)
      BY <2>3, <2>4, <2>5, <2>6 DEF InDoubt, LogResponse
    <3>2. PICK here \in Episodes, it \in Calls : here = run.episode /\ it = run.call
      BY <1>1
    <3>3. InDoubt(here) \subseteq {it}
      BY <1>1, <3>2 DEF IInv, DoubtIsInHand
    <3>4. it \notin InDoubt(here)'
      BY <3>2, <2>4, <2>5, <2>7 DEF InDoubt, LogResponse
    <3>5. InDoubt(here)' = {} /\ run'.episode = here
      BY <2>1, <3>1, <3>2, <3>3, <3>4
    <3> QED
      BY <2>1, <3>1, <3>5 DEF IInv, DoubtIsInHand
  <2>12. ActionInHand'
    BY <2>1, <2>3, MovesKept DEF IInv, LogResponse
  <2> QED
    BY <2>8, <2>9, <2>10, <2>11, <2>12 DEF IInv
<1> QED
  BY <1>2, <1>3, AppendCases DEF LogResponse

-----------------------------------------------------------------------------
(***************************************************************************)
(* The action lifecycle: intent, apply, commit or rejection.               *)
(***************************************************************************)

\* A step of an action that touches neither rows nor the evidence about
\* calls: what is left to show is ActionInHand'.
LEMMA ActionStep ==
  ASSUME TypeOK, IInv, run.pc \notin Resting \cup MidCall,
         created' = created, ledger' = ledger, billed' = billed, SameCallEvidence,
         \A e \in Episodes \ {run.episode} : journal'[e] = journal[e],
         run'.pc \notin {"idle", "request", "send", "settle", "response"},
         run'.episode = run.episode, ActionInHand'
  PROVE  IInv'
<1>1. run.episode \in Episodes /\ run.pc # "idle"
  BY DEF TypeOK, RunOK, Resting
<1>2. OnlyCreatedEpisodes'
  BY <1>1, OnlyCreatedKept DEF IInv, Rows
<1>3. RowsExplainRequests' /\ CallInHand' /\ DoubtIsInHand'
  BY <1>1, CallsKept DEF IInv, Resting, MidCall
<1> QED
  BY <1>2, <1>3 DEF IInv

\* A fresh intent, in the running episode's journal and in no other.
LEMMA IntentKeeps ==
  ASSUME TypeOK, IInv, NEW m \in Moves, LogIntent(m)
  PROVE  IInv'
<1> DEFINE ev == Event("action_intent", m)
<1>1. run.pc = "intent" /\ run.episode \in Episodes
  BY InHand DEF LogIntent
<1>2. CASE run' = Exit("INTERNAL_ERROR") /\ journal' = journal
  BY <1>1, <1>2, InHand, UnwindStep DEF LogIntent
<1>3. CASE /\ run' = [run EXCEPT !.pc = "apply", !.move = m] \/ run' = Exit("INTERNAL_ERROR")
           /\ journal' = [journal EXCEPT ![run.episode] = @ \cup {ev}]
  <2>1. /\ run'.episode = run.episode /\ run'.pc \in {"apply", "finish"}
        /\ run'.pc = "apply" => run'.move = m
    BY <1>1, <1>3, InHand DEF TypeOK, RunOK, RunState
  <2>2. ev.kind = "action_intent" /\ ev.id = m
    BY DEF Event
  <2>3. /\ \A e \in Episodes \ {run.episode} : journal'[e] = journal[e]
        /\ journal'[run.episode] = journal[run.episode] \cup {ev}
        /\ SameCallEvidence
    BY <1>1, <1>3, <2>2, LoggedEvidence
  <2>4. \A e \in Episodes :
          Intents(e)' = Intents(e) \cup (IF e = run.episode THEN {m} ELSE {})
    BY <2>2, <2>3, IdsOfAppend DEF Intents
  <2>5. \A e \in Episodes : Commits(e)' = Commits(e) /\ Rejections(e)' = Rejections(e)
    <3>1. \A kind \in {"action_commit", "action_rejected"} :
            Ids(journal[run.episode] \cup {ev}, kind) = Ids(journal[run.episode], kind)
      BY <2>2, IdsOfOther
    <3> QED
      BY <2>3, <3>1 DEF Commits, Rejections
  <2>6. \A e \in Episodes : m \notin Intents(e)
    BY DEF LogIntent, Intended, Intents
  <2>7. applied' = applied /\ m \notin applied
    BY <2>6 DEF LogIntent, IInv, ActionInHand
  <2>8. ActionInHand'
    <3>1. \A e \in Episodes : Commits(e)' \cup Rejections(e)' \subseteq Intents(e)'
      BY <2>4, <2>5 DEF IInv, ActionInHand
    <3>2. \A d, e \in Episodes : d # e => Intents(d)' \cap Intents(e)' = {}
      BY <2>4, <2>6 DEF IInv, ActionInHand
    <3>3. applied' \subseteq UNION {Intents(e)' : e \in Episodes}
      BY <2>4, <2>7 DEF IInv, ActionInHand
    <3>4. \A e \in Episodes : Commits(e)' \subseteq applied' /\ Rejections(e)' \cap applied' = {}
      BY <2>5, <2>7 DEF IInv, ActionInHand
    <3>5. PICK here \in Episodes : here = run.episode
      BY <1>1
    <3>6. m \in Intents(here)' /\ m \notin Rejections(here)' /\ run'.episode = here
      BY <2>1, <2>4, <2>5, <2>6, <3>5 DEF IInv, ActionInHand
    <3>7. run'.pc = "apply" =>
            /\ run'.move \in Ids(journal'[run'.episode], "action_intent")
            /\ run'.move \notin Ids(journal'[run'.episode], "action_rejected")
            /\ run'.move \notin applied'
      BY <2>1, <2>7, <3>6 DEF Intents, Rejections
    <3> QED
      BY <2>1, <3>1, <3>2, <3>3, <3>4, <3>7 DEF ActionInHand, Intents, Rejections
  <2> QED
    BY <1>1, <2>1, <2>3, <2>8, ActionStep DEF LogIntent, Resting, MidCall
<1> QED
  BY <1>2, <1>3, AppendCases DEF LogIntent

\* The game executed the action in hand: it is intended and not rejected.
LEMMA AcceptKeeps ==
  ASSUME TypeOK, IInv, run.pc = "apply", created' = created, ledger' = ledger,
         journal' = journal, billed' = billed, applied' = applied \cup {run.move},
         run'.pc \in {"commit", "finish"}, run'.episode = run.episode,
         run'.pc = "commit" => run'.move = run.move
  PROVE  IInv'
<1>1. run.episode \in Episodes /\ run.move \in Intents(run.episode)
  BY InHand DEF IInv, ActionInHand
<1>2. SameCallEvidence
  BY DEF SameCallEvidence
<1>3. \A e \in Episodes : /\ Intents(e)' = Intents(e) /\ Commits(e)' = Commits(e)
                          /\ Rejections(e)' = Rejections(e)
  BY DEF Intents, Commits, Rejections
<1>4. \A e \in Episodes : run.move \notin Rejections(e)
  <2> SUFFICES ASSUME NEW e \in Episodes, run.move \in Rejections(e) PROVE FALSE
    OBVIOUS
  <2>1. e = run.episode
    BY <1>1 DEF IInv, ActionInHand
  <2> QED
    BY <2>1 DEF IInv, ActionInHand
<1>5. ActionInHand'
  <2>1. \A e \in Episodes : Commits(e)' \cup Rejections(e)' \subseteq Intents(e)'
    BY <1>3 DEF IInv, ActionInHand
  <2>2. \A d, e \in Episodes : d # e => Intents(d)' \cap Intents(e)' = {}
    BY <1>3 DEF IInv, ActionInHand
  <2>3. applied' \subseteq UNION {Intents(e)' : e \in Episodes}
    BY <1>1, <1>3 DEF IInv, ActionInHand
  <2>4. \A e \in Episodes : Commits(e)' \subseteq applied' /\ Rejections(e)' \cap applied' = {}
    BY <1>3, <1>4 DEF IInv, ActionInHand
  <2>5. run'.pc = "commit" => run'.move \in applied'
                              /\ run'.move \in Ids(journal'[run'.episode], "action_intent")
    BY <1>1 DEF Intents
  <2> QED
    BY <2>1, <2>2, <2>3, <2>4, <2>5 DEF ActionInHand, Intents
<1> QED
  BY <1>2, <1>5, ActionStep DEF Resting, MidCall

\* A native rejection leaves the game as it was.
LEMMA RejectKeeps ==
  ASSUME TypeOK, IInv, ApplyRejected
  PROVE  IInv'
<1>1. /\ run.pc = "apply" /\ run.episode \in Episodes
      /\ run'.pc = "reject" /\ run'.episode = run.episode /\ run'.move = run.move
  BY InHand DEF ApplyRejected, TypeOK, RunOK, RunState
<1>2. SameCallEvidence
  BY DEF SameCallEvidence, ApplyRejected
<1>3. \A e \in Episodes : /\ Intents(e)' = Intents(e) /\ Commits(e)' = Commits(e)
                          /\ Rejections(e)' = Rejections(e)
  BY DEF ApplyRejected, Intents, Commits, Rejections
<1>4. run.move \notin applied
  BY <1>1 DEF IInv, ActionInHand
<1>5. ActionInHand'
  BY <1>1, <1>3, <1>4 DEF IInv, ActionInHand, ApplyRejected, Intents
<1> QED
  BY <1>1, <1>2, <1>5, ActionStep DEF ApplyRejected, Resting, MidCall

\* The commit follows the execution it reports.
LEMMA CommitKeeps ==
  ASSUME TypeOK, IInv, LogCommit
  PROVE  IInv'
<1> DEFINE ev == Event("action_commit", run.move)
<1>1. run.pc = "commit" /\ run.episode \in Episodes
  BY InHand DEF LogCommit
<1>2. CASE run' = Exit("INTERNAL_ERROR") /\ journal' = journal
  BY <1>1, <1>2, InHand, UnwindStep DEF LogCommit
<1>3. CASE /\ run' = [run EXCEPT !.pc = "loop"] \/ run' = Exit("INTERNAL_ERROR")
           /\ journal' = [journal EXCEPT ![run.episode] = @ \cup {ev}]
  <2>1. run'.episode = run.episode /\ run'.pc \in {"loop", "finish"}
    BY <1>1, <1>3, InHand DEF TypeOK, RunOK, RunState
  <2>2. ev.kind = "action_commit" /\ ev.id = run.move
    BY DEF Event
  <2>3. /\ \A e \in Episodes \ {run.episode} : journal'[e] = journal[e]
        /\ journal'[run.episode] = journal[run.episode] \cup {ev}
        /\ SameCallEvidence
    BY <1>1, <1>3, <2>2, LoggedEvidence
  <2>4. \A e \in Episodes :
          Commits(e)' = Commits(e) \cup (IF e = run.episode THEN {run.move} ELSE {})
    BY <2>2, <2>3, IdsOfAppend DEF Commits
  <2>5. \A e \in Episodes : Intents(e)' = Intents(e) /\ Rejections(e)' = Rejections(e)
    <3>1. \A kind \in {"action_intent", "action_rejected"} :
            Ids(journal[run.episode] \cup {ev}, kind) = Ids(journal[run.episode], kind)
      BY <2>2, IdsOfOther
    <3> QED
      BY <2>3, <3>1 DEF Intents, Rejections
  <2>6. run.move \in applied /\ run.move \in Intents(run.episode) /\ applied' = applied
    BY <1>1 DEF IInv, ActionInHand, LogCommit
  <2>7. ActionInHand'
    <3>1. \A e \in Episodes : Commits(e)' \cup Rejections(e)' \subseteq Intents(e)'
      BY <2>4, <2>5, <2>6 DEF IInv, ActionInHand
    <3>2. /\ \A d, e \in Episodes : d # e => Intents(d)' \cap Intents(e)' = {}
          /\ applied' \subseteq UNION {Intents(e)' : e \in Episodes}
      BY <2>5, <2>6 DEF IInv, ActionInHand
    <3>3. \A e \in Episodes : Commits(e)' \subseteq applied' /\ Rejections(e)' \cap applied' = {}
      BY <2>4, <2>5, <2>6 DEF IInv, ActionInHand
    <3> QED
      BY <2>1, <3>1, <3>2, <3>3 DEF ActionInHand
  <2> QED
    BY <1>1, <2>1, <2>3, <2>7, ActionStep DEF LogCommit, Resting, MidCall
<1> QED
  BY <1>2, <1>3, AppendCases DEF LogCommit

\* A journaled rejection names an action the game did not execute.
LEMMA RejectionKeeps ==
  ASSUME TypeOK, IInv, LogRejected
  PROVE  IInv'
<1> DEFINE ev == Event("action_rejected", run.move)
           next == Exit("NATIVE_PUBLIC_LEGALITY_MISMATCH")
<1>1. run.pc = "reject" /\ run.episode \in Episodes
  BY InHand DEF LogRejected
<1>2. CASE run' = Exit("INTERNAL_ERROR") /\ journal' = journal
  BY <1>1, <1>2, InHand, UnwindStep DEF LogRejected
<1>3. CASE /\ run' = next \/ run' = Exit("INTERNAL_ERROR")
           /\ journal' = [journal EXCEPT ![run.episode] = @ \cup {ev}]
  <2>1. run'.episode = run.episode /\ run'.pc = "finish"
    BY <1>1, <1>3, InHand, KnownReasons
  <2>2. ev.kind = "action_rejected" /\ ev.id = run.move
    BY DEF Event
  <2>3. /\ \A e \in Episodes \ {run.episode} : journal'[e] = journal[e]
        /\ journal'[run.episode] = journal[run.episode] \cup {ev}
        /\ SameCallEvidence
    BY <1>1, <1>3, <2>2, LoggedEvidence
  <2>4. \A e \in Episodes :
          Rejections(e)' = Rejections(e) \cup (IF e = run.episode THEN {run.move} ELSE {})
    BY <2>2, <2>3, IdsOfAppend DEF Rejections
  <2>5. \A e \in Episodes : Intents(e)' = Intents(e) /\ Commits(e)' = Commits(e)
    <3>1. \A kind \in {"action_intent", "action_commit"} :
            Ids(journal[run.episode] \cup {ev}, kind) = Ids(journal[run.episode], kind)
      BY <2>2, IdsOfOther
    <3> QED
      BY <2>3, <3>1 DEF Intents, Commits
  <2>6. run.move \notin applied /\ run.move \in Intents(run.episode) /\ applied' = applied
    BY <1>1 DEF IInv, ActionInHand, LogRejected
  <2>7. ActionInHand'
    <3>1. \A e \in Episodes : Commits(e)' \cup Rejections(e)' \subseteq Intents(e)'
      BY <2>4, <2>5, <2>6 DEF IInv, ActionInHand
    <3>2. /\ \A d, e \in Episodes : d # e => Intents(d)' \cap Intents(e)' = {}
          /\ applied' \subseteq UNION {Intents(e)' : e \in Episodes}
      BY <2>5, <2>6 DEF IInv, ActionInHand
    <3>3. \A e \in Episodes : Commits(e)' \subseteq applied' /\ Rejections(e)' \cap applied' = {}
      BY <2>4, <2>5, <2>6 DEF IInv, ActionInHand
    <3> QED
      BY <2>1, <3>1, <3>2, <3>3 DEF ActionInHand
  <2> QED
    BY <1>1, <2>1, <2>3, <2>7, ActionStep DEF LogRejected, Resting, MidCall
<1> QED
  BY <1>2, <1>3, AppendCases DEF LogRejected

-----------------------------------------------------------------------------
(***************************************************************************)
(* Every step.                                                             *)
(***************************************************************************)

\* Launching puts an episode that owns nothing in hand.
LEMMA CreateKeeps ==
  ASSUME TypeOK, IInv, NEW e \in Episodes, Create(e)
  PROVE  IInv'
<1>1. run'.pc = "start" /\ run'.episode = e
  BY RestTypes DEF Create, RunState
<1>2. Rows(e) = {} /\ journal[e] = {}
  BY DEF Create, IInv, OnlyCreatedEpisodes
<1>3. \A d \in Episodes : Rows(d)' = Rows(d) /\ Requested(d)' = Requested(d) /\ InDoubt(d)' = InDoubt(d)
  BY DEF Create, Rows, Requested, InDoubt
<1>4. OnlyCreatedEpisodes'
  BY <1>1, <1>3 DEF Create, IInv, OnlyCreatedEpisodes
<1>5. RowsExplainRequests' /\ CallInHand'
  BY <1>1, <1>3 DEF Create, IInv, RowsExplainRequests, CallInHand, Reserved
<1>6. DoubtIsInHand'
  <2>1. InDoubt(e)' = {}
    BY <1>2, <1>3 DEF InDoubt
  <2> QED
    BY <1>1, <1>3, <2>1 DEF IInv, DoubtIsInHand
<1>7. SameMoveEvidence
  BY DEF Create, SameMoveEvidence
<1>8. ActionInHand'
  BY <1>1, <1>7, MovesKept DEF IInv, Create
<1> QED
  BY <1>4, <1>5, <1>6, <1>8 DEF IInv

\* The start event says nothing about calls or actions.
LEMMA StartKeeps ==
  ASSUME TypeOK, IInv, LogStart
  PROVE  IInv'
<1>1. run.pc = "start" /\ run.episode \in Episodes
  BY InHand DEF LogStart
<1>2. CASE run' = Exit("INTERNAL_ERROR") /\ journal' = journal
  BY <1>1, <1>2, InHand, UnwindStep DEF LogStart
<1>3. CASE /\ run' = [run EXCEPT !.pc = "loop"] \/ run' = Exit("INTERNAL_ERROR")
           /\ journal' = [journal EXCEPT ![run.episode] = @ \cup {Start}]
  <2>1. run'.episode = run.episode /\ run'.pc \in {"loop", "finish"}
    BY <1>1, <1>3, InHand DEF TypeOK, RunOK, RunState
  <2>2. Start.kind = "episode_start"
    BY DEF Start, Event
  <2>3. /\ \A e \in Episodes \ {run.episode} : journal'[e] = journal[e]
        /\ SameCallEvidence /\ SameMoveEvidence
    BY <1>1, <1>3, <2>2, LoggedEvidence DEF MoveKinds
  <2> QED
    BY <1>1, <2>1, <2>3, CalmStep DEF LogStart, MidCall, Resting, Between
<1> QED
  BY <1>2, <1>3, AppendCases DEF LogStart

(***************************************************************************)
(* Every step keeps the inductive invariant: the lemmas above, one action  *)
(* of the worker or of recovery at a time.                                 *)
(***************************************************************************)
LEMMA IndStep == TypeOK /\ IInv /\ [Next]_vars => IInv'
<1> SUFFICES ASSUME TypeOK, IInv, [Next]_vars PROVE IInv'
  OBVIOUS
<1> USE DEF Resting, Between, MidCall
<1>1. ASSUME NEW e \in Episodes, Create(e) PROVE IInv'
  BY <1>1, CreateKeeps
<1>2. CASE LaunchFails
  BY <1>2, RestTypes, CalmSilentStep DEF LaunchFails
<1>3. CASE LogStart
  BY <1>3, StartKeeps
<1>4. CASE EndPlay
  BY <1>4, KnownReasons, UnwindStep DEF EndPlay
<1>5. CASE BeginDecision
  <2>1. run'.pc = "decide" /\ run'.episode = run.episode
    BY <1>5 DEF BeginDecision, TypeOK, RunOK, RunState
  <2> QED
    BY <1>5, <2>1, CalmSilentStep DEF BeginDecision
<1>6. CASE CheckInput
  <2>1. /\ run'.episode = run.episode /\ run'.pc \in {"finish", "reserve"} /\ run.pc = "decide"
    <3>1. \/ run' = [run EXCEPT !.pc = "reserve", !.attempt = 0]
          \/ \E reason \in Reasons : run' = Exit(reason)
      BY <1>6, KnownReasons DEF CheckInput
    <3> QED
      BY <1>6, <3>1, InHand DEF CheckInput, TypeOK, RunOK, RunState
  <2> QED
    BY <1>6, <2>1, CalmSilentStep DEF CheckInput
<1>7. CASE RefuseCall
  BY <1>7, KnownReasons, UnwindStep DEF RefuseCall
<1>8. CASE LogRequest
  BY <1>8, RequestKeeps
<1>9. ASSUME NEW c \in Calls, ReserveCall(c) PROVE IInv'
  BY <1>9, ReserveKeeps
<1>10. CASE SendAnswered
  BY <1>10, AnswerKeeps
<1>11. CASE SendFails
  BY <1>11, FailureKeeps
<1>12. CASE SettleCall
  BY <1>12, SettleKeeps
<1>13. CASE LogResponse
  BY <1>13, ResponseKeeps
<1>14. CASE TakeOperation
  <2>1. /\ run'.episode = run.episode /\ run'.pc \in {"finish", "decide", "intent"}
        /\ run.pc = "parse"
    BY <1>14, InHand, KnownReasons DEF TakeOperation, TypeOK, RunOK, RunState
  <2> QED
    BY <1>14, <2>1, CalmSilentStep DEF TakeOperation
<1>15. ASSUME NEW m \in Moves, LogIntent(m) PROVE IInv'
  BY <1>15, IntentKeeps
<1>16. CASE ApplyAccepted
  <2>1. run'.pc = "commit" /\ run'.episode = run.episode /\ run'.move = run.move
    BY <1>16 DEF ApplyAccepted, TypeOK, RunOK, RunState
  <2> QED
    BY <1>16, <2>1, AcceptKeeps DEF ApplyAccepted
<1>17. CASE ApplyRejected
  BY <1>17, RejectKeeps
<1>18. CASE ApplyUnknown
  <2>1. run'.pc = "finish" /\ run'.episode = run.episode /\ run.pc = "apply"
    BY <1>18, InHand, KnownReasons DEF ApplyUnknown
  <2>2. CASE applied' = applied
    BY <1>18, <2>1, <2>2, CalmSilentStep DEF ApplyUnknown
  <2>3. CASE applied' = applied \cup {run.move}
    BY <1>18, <2>1, <2>3, AcceptKeeps DEF ApplyUnknown
  <2> QED
    BY <1>18, <2>2, <2>3 DEF ApplyUnknown
<1>19. CASE LogCommit
  BY <1>19, CommitKeeps
<1>20. CASE LogRejected
  BY <1>20, RejectionKeeps
<1>21. CASE Finish
  BY <1>21, RestTypes, CalmSilentStep DEF Finish
<1>22. CASE RecoverStart \/ RecoverWrite \/ RecoverDone \/ RecoverDies \/ RequestStop
  BY <1>22, ElsewhereStep
  DEF RecoverStart, RecoverWrite, RecoverDone, RecoverDies, RequestStop
<1>23. ASSUME NEW e \in Episodes, RecoverRead(e) PROVE IInv'
  BY <1>23, ElsewhereStep DEF RecoverRead
<1>24. CASE Crash
  BY <1>24, RestTypes, CalmSilentStep DEF Crash, Quiet
<1>25. CASE UNCHANGED vars
  BY <1>25, ElsewhereStep DEF vars
<1> QED
  BY <1>1, <1>2, <1>3, <1>4, <1>5, <1>6, <1>7, <1>8, <1>9, <1>10, <1>11, <1>12, <1>13,
     <1>14, <1>15, <1>16, <1>17, <1>18, <1>19, <1>20, <1>21, <1>22, <1>23, <1>24, <1>25
  DEF Next, WorkerNext, RecoverNext

\* The strengthened invariant holds of every reachable state.
THEOREM Inductive == Spec => [](TypeOK /\ IInv)
<1>1. Init => TypeOK /\ IInv
  BY TypeInit, IndInit
<1>2. TypeOK /\ IInv /\ [Next]_vars => TypeOK' /\ IInv'
  BY TypeStep, IndStep
<1> QED
  BY <1>1, <1>2, PTL DEF Spec

\* A call the provider charged is reserved and requested by one episode, and
\* its row holds the charge, or the whole reservation until it is settled
\* (Spending.reserve before send, settle or retain after it).
THEOREM ChargesAreCovered == Spec => []ChargesCovered
<1>1. TypeOK /\ IInv => ChargesCovered
  <2> SUFFICES ASSUME TypeOK, IInv, NEW c \in Calls, billed[c] > 0
               PROVE  /\ \E e \in Episodes : c \in Rows(e) /\ c \in Requested(e)
                      /\ ledger[c].cost = IF ledger[c].settled THEN billed[c] ELSE Reserve
    BY DEF ChargesCovered
  <2>1. PICK e \in Episodes : c \in Rows(e) /\ c \in Requested(e)
    BY DEF IInv, RowsExplainRequests
  <2>2. Reserved(c)
    BY <2>1, NoneAssumption DEF Rows, Reserved
  <2> QED
    BY <2>1, <2>2 DEF IInv, RowsExplainRequests
<1> QED
  BY <1>1, Inductive, PTL

\* However a run ends, at most one row of its episode is unexplained by its
\* journal, and an unrequested row was neither charged nor settled.
THEOREM OneInDoubt == Spec => []AtMostOneInDoubt
<1>1. TypeOK /\ IInv => AtMostOneInDoubt
  <2> SUFFICES ASSUME TypeOK, IInv, NEW e \in Episodes
               PROVE  /\ \A c, d \in InDoubt(e) : c = d
                      /\ \A c \in Rows(e) \ Requested(e) : ~ledger[c].settled /\ billed[c] = 0
    BY DEF AtMostOneInDoubt
  <2>1. \A c, d \in InDoubt(e) : c = d
    BY DEF IInv, DoubtIsInHand
  <2>2. ASSUME NEW c \in Rows(e) \ Requested(e) PROVE ~ledger[c].settled /\ billed[c] = 0
    <3>1. c \in Calls /\ billed[c] \in Nat /\ \A d \in Episodes : c \in Rows(d) => d = e
      BY DEF Rows, TypeOK
    <3> QED
      BY <2>2, <3>1 DEF IInv, RowsExplainRequests
  <2> QED
    BY <2>1, <2>2
<1> QED
  BY <1>1, Inductive, PTL

\* The journals never misreport an action (intent before native execution,
\* commit or rejection after it, in Runner._commit_action).
THEOREM ActionsAreEvidenced == Spec => []ActionEvidence
<1>1. TypeOK /\ IInv => ActionEvidence
  <2> SUFFICES ASSUME TypeOK, IInv PROVE ActionEvidence
    OBVIOUS
  <2>1. \A e \in Episodes : Commits(e) \subseteq applied /\ Rejections(e) \cap applied = {}
    BY DEF IInv, ActionInHand
  <2>2. \A m \in applied : \E e \in Episodes :
          m \in Intents(e) /\ \A d \in Episodes \ {e} : m \notin Intents(d)
    BY DEF IInv, ActionInHand
  <2> QED
    BY <2>1, <2>2 DEF ActionEvidence, Commits, Rejections, Intents
<1> QED
  BY <1>1, Inductive, PTL

-----------------------------------------------------------------------------
(***************************************************************************)
(* What no step may do.                                                    *)
(***************************************************************************)
RowKept(c) ==
  \/ ledger'[c] = ledger[c]
  \/ /\ ledger'[c].episode = ledger[c].episode
     /\ ~ledger[c].settled /\ ledger'[c].settled
     /\ run.call = c /\ c \in Requested(run.episode)

\* No step refunds a row, reopens it, hands it to another episode or settles
\* it but for the request in flight.
LEMMA RefundStep ==
  ASSUME TypeOK, IInv, [Next]_vars, NEW c \in Calls, Reserved(c)
  PROVE  RowKept(c)
<1>1. CASE ledger' = ledger
  BY <1>1 DEF RowKept
<1>2. ASSUME NEW d \in Calls, ReserveCall(d) PROVE RowKept(c)
  <2>1. d # c
    BY <1>2 DEF ReserveCall
  <2> QED
    BY <1>2, <2>1 DEF ReserveCall, RowKept, TypeOK, DiskOK
<1>3. CASE SendFails
  <2>1. ledger' = ledger
    BY <1>3, InHand DEF SendFails, RetainedRow, TypeOK, DiskOK
  <2> QED
    BY <2>1 DEF RowKept
<1>4. CASE SettleCall
  <2>1. run.pc = "settle" /\ run.call \in Calls /\ ledger[run.call] \in Row
    BY <1>4, InHand DEF SettleCall, TypeOK, DiskOK
  <2>2. CASE run.call # c \/ run.usage = None
    BY <1>4, <2>1, <2>2 DEF SettleCall, RetainedRow, RowKept, TypeOK, DiskOK
  <2>3. CASE run.call = c /\ run.usage # None
    <3>1. ledger'[c] = SettledRow(ledger[c], run.usage)
      BY <1>4, <2>1, <2>3 DEF SettleCall, TypeOK, DiskOK
    <3>2. ledger'[c].episode = ledger[c].episode /\ ledger'[c].settled
      BY <2>1, <2>3, <3>1 DEF SettledRow, Row
    <3>3. ~ledger[c].settled /\ c \in Requested(run.episode)
      BY <2>1, <2>3 DEF IInv, CallInHand
    <3> QED
      BY <2>3, <3>2, <3>3 DEF RowKept
  <2> QED
    BY <2>2, <2>3
<1> QED
  BY <1>1, <1>2, <1>3, <1>4
  DEF Next, WorkerNext, RecoverNext, vars, Create, LaunchFails, LogStart, EndPlay,
      BeginDecision, CheckInput, RefuseCall, LogRequest, SendAnswered, LogResponse,
      TakeOperation, LogIntent, ApplyAccepted, ApplyRejected, ApplyUnknown, LogCommit,
      LogRejected, Finish, RecoverStart, RecoverRead, RecoverWrite, RecoverDone,
      RequestStop, Crash, RecoverDies

\* An interrupted, failed or crashed call is never refunded (Spending.retain
\* and Spending.settle).
THEOREM NeverRefunded == Spec => NoRefund
<1>1. TypeOK /\ IInv /\ [Next]_vars =>
        [\A c \in Calls : Reserved(c) =>
           \/ ledger'[c] = ledger[c]
           \/ /\ ledger'[c].episode = ledger[c].episode
              /\ ~ledger[c].settled /\ ledger'[c].settled
              /\ run.call = c /\ c \in Requested(run.episode)]_vars
  BY RefundStep DEF RowKept
<1> QED
  BY <1>1, Inductive, PTL DEF Spec, NoRefund

JournalKept(e) ==
  /\ journal[e] \subseteq journal'[e]
  /\ summary[e] # None => journal'[e] = journal[e] /\ summary'[e] = summary[e]

\* An append adds to a journal without a terminal, or to none.
LEMMA AppendRespectsTerminal ==
  ASSUME TypeOK, run.pc # "idle", NEW ev, NEW next, AppendThen(ev, next),
         summary' = summary, NEW e \in Episodes
  PROVE  JournalKept(e)
<1>1. CASE journal' = journal
  BY <1>1 DEF JournalKept
<1>2. CASE /\ ~Refused(run.episode)
           /\ journal' = [journal EXCEPT ![run.episode] = @ \cup {ev}]
  BY <1>2, InHand DEF JournalKept, Refused, TypeOK, DiskOK
<1> QED
  BY <1>1, <1>2 DEF AppendThen

\* No step replaces a terminal, writes after one or loses an event.
LEMMA TerminalStep ==
  ASSUME TypeOK, [Next]_vars, NEW e \in Episodes
  PROVE  JournalKept(e)
<1>1. CASE journal' = journal /\ summary' = summary
  BY <1>1 DEF JournalKept
<1>2. ASSUME run.pc # "idle", summary' = summary,
             \E ev, next : AppendThen(ev, next)
      PROVE  JournalKept(e)
  BY <1>2, AppendRespectsTerminal
<1>3. CASE LogStart \/ LogRequest \/ SendFails \/ LogResponse \/ LogCommit \/ LogRejected
           \/ \E m \in Moves : LogIntent(m)
  BY <1>2, <1>3
  DEF LogStart, LogRequest, SendFails, LogResponse, LogCommit, LogRejected, LogIntent
<1>4. CASE LaunchFails \/ Finish
  <2>1. run.pc # "idle" /\ journal' = journal
    BY <1>4 DEF LaunchFails, Finish
  <2>2. summary' = summary \/ /\ ~Refused(run.episode)
                              /\ \E s : summary' = [summary EXCEPT ![run.episode] = s]
    BY <1>4 DEF LaunchFails, Finish, FinishFailedExecution
  <2> QED
    BY <2>1, <2>2, InHand DEF JournalKept, Refused, TypeOK, DiskOK
<1>5. CASE RecoverWrite
  BY <1>5 DEF RecoverWrite, Refused, JournalKept, TypeOK, DiskOK, RecOK
<1> QED
  BY <1>1, <1>3, <1>4, <1>5
  DEF Next, WorkerNext, RecoverNext, vars, Create, EndPlay, BeginDecision, CheckInput,
      RefuseCall, ReserveCall, SendAnswered, SettleCall, TakeOperation, ApplyAccepted,
      ApplyRejected, ApplyUnknown, RecoverStart, RecoverRead, RecoverDone, RequestStop,
      Crash, RecoverDies

\* A terminal is final: the worker and recovery, even side by side, never
\* replace one, append after one or lose an event (Store.append).
THEOREM TerminalsAreFinal == Spec => TerminalIsFinal
<1>1. TypeOK /\ [Next]_vars =>
        [\A e \in Episodes :
           /\ journal[e] \subseteq journal'[e]
           /\ summary[e] # None => journal'[e] = journal[e] /\ summary'[e] = summary[e]]_vars
  BY TerminalStep DEF JournalKept
<1> QED
  BY <1>1, TypeCorrect, PTL DEF Spec, TerminalIsFinal

-----------------------------------------------------------------------------
(***************************************************************************)
(* The shapes of a step.                                                   *)
(***************************************************************************)

\* Nothing is reserved, performed or committed, nothing created or ended.
SameTallies ==
  /\ created' = created /\ summary' = summary
  /\ \A e \in Episodes : /\ Rows(e)' = Rows(e) /\ Performed(e)' = Performed(e)
                         /\ Commits(e)' = Commits(e)

\* The worker of an episode moves on, and only its own journal may grow.
Proceeds ==
  /\ run.pc \notin {"idle", "finish"} /\ rec' = rec
  /\ \A e \in Episodes \ {run.episode} : journal'[e] = journal[e]
  /\ journal[run.episode] \subseteq journal'[run.episode]
  /\ run'.pc \notin {"idle", "start"} /\ run'.episode = run.episode
  /\ run.pc = "start" => run'.pc = "finish" \/ Start \in journal'[run.episode]
  /\ run.pc = "start" => Intents(run.episode)' = Intents(run.episode)

\* Between two actions: no count moves.
Plays ==
  /\ Proceeds /\ SameTallies
  /\ run'.pc # "commit"
  /\ run'.calls = run.calls /\ run'.committed = run.committed
  /\ run'.pc \in Deciding => run.pc \in Deciding \/ run.committed < MaxActions
  /\ run.pc = "commit" => run'.pc = "finish" /\ run'.reason \in AmbiguousReasons

\* A call is reserved.
Reserves(c) ==
  /\ Proceeds /\ created' = created /\ summary' = summary
  /\ run.pc = "reserve" /\ run'.pc = "request" /\ run.calls < MaxCalls
  /\ run'.calls = run.calls + 1 /\ run'.committed = run.committed
  /\ ~Reserved(c)
  /\ \A e \in Episodes : /\ Rows(e)' = Rows(e) \cup (IF e = run.episode THEN {c} ELSE {})
                         /\ Performed(e)' = Performed(e) /\ Commits(e)' = Commits(e)

\* The game performs the action in hand, and the worker knows or does not.
Performs ==
  /\ Proceeds /\ created' = created /\ summary' = summary
  /\ run.pc = "apply" /\ run'.calls = run.calls
  /\ \A e \in Episodes :
       /\ Rows(e)' = Rows(e) /\ Commits(e)' = Commits(e)
       /\ Performed(e)' = Performed(e) \cup (IF e = run.episode THEN {run.move} ELSE {})
  /\ run.move \notin Performed(run.episode)
  /\ \/ run'.pc = "commit" /\ run'.committed = run.committed + 1 /\ run'.move = run.move
     \/ run'.pc = "finish" /\ run'.reason \in AmbiguousReasons

\* The action in hand is committed.
CommitsMove ==
  /\ Proceeds /\ created' = created /\ summary' = summary
  /\ run.pc = "commit" /\ run'.calls = run.calls /\ run'.committed = run.committed
  /\ \A e \in Episodes :
       /\ Rows(e)' = Rows(e) /\ Performed(e)' = Performed(e)
       /\ Commits(e)' = Commits(e) \cup (IF e = run.episode THEN {run.move} ELSE {})
  /\ \/ run'.pc = "loop"
     \/ run'.pc = "finish" /\ run'.reason \in AmbiguousReasons

\* A terminal the worker may write.
Written(s) ==
  \/ run.pc = "finish" /\ s = RunSummary
  \/ s = Placeholder(journal[run.episode])

\* The worker goes, with or without its terminal.
Leaves ==
  /\ run.pc # "idle" /\ run'.pc = "idle"
  /\ UNCHANGED <<created, ledger, journal, rec, applied>>
  /\ \/ summary' = summary
     \/ \E s : Written(s) /\ summary' = [summary EXCEPT ![run.episode] = s]

\* Only recovery moves, or nothing that a count or a terminal reads.
Aside ==
  /\ UNCHANGED <<created, ledger, journal, run, applied>>
  /\ \/ UNCHANGED <<rec, summary>>
     \/ RecoverNext
     \/ RecoverDies

-----------------------------------------------------------------------------
(***************************************************************************)
(* Every step has a shape.                                                 *)
(***************************************************************************)

\* What the worker does next keeps its numbers.
KeepsNumbers(next) ==
  /\ next.episode = run.episode /\ next.calls = run.calls /\ next.committed = run.committed

\* Going on to another place, or out, keeps them.
LEMMA NumbersKept ==
  ASSUME TypeOK
  PROVE  /\ \A pc \in Working : LET next == [run EXCEPT !.pc = pc]
                               IN  next.pc = pc /\ KeepsNumbers(next)
         /\ \A reason : /\ Exit(reason).pc = "finish" /\ Exit(reason).reason = reason
                        /\ KeepsNumbers(Exit(reason))
  BY DEF TypeOK, RunOK, RunState, KeepsNumbers, Exit

\* A step that writes no journal line and moves no count.
LEMMA SilentPlay ==
  ASSUME TypeOK, run.pc \notin {"idle", "finish", "commit"},
         UNCHANGED <<created, journal, summary, rec, applied>>,
         \A e \in Episodes : Rows(e)' = Rows(e),
         KeepsNumbers(run'), run'.pc \notin {"idle", "start", "commit"},
         run.pc = "start" => run'.pc = "finish",
         run'.pc \in Deciding => run.pc \in Deciding \/ run.committed < MaxActions
  PROVE  Plays
<1>1. \A e \in Episodes : /\ Performed(e)' = Performed(e) /\ Commits(e)' = Commits(e)
                          /\ Intents(e)' = Intents(e)
  BY DEF Performed, Commits, Intents
<1>2. Intents(run.episode)' = Intents(run.episode)
  BY DEF KeepsNumbers, Intents
<1> QED
  BY <1>1, <1>2 DEF Plays, Proceeds, SameTallies, KeepsNumbers

\* A step that journals a line other than a commit.
LEMMA LoggedPlay ==
  ASSUME TypeOK, NEW ev, NEW next, AppendThen(ev, next),
         run.pc \notin {"idle", "finish", "commit"},
         UNCHANGED <<created, summary, rec, applied>>,
         \A e \in Episodes : Rows(e)' = Rows(e),
         ev.kind # "action_commit", ev.kind = "action_intent" => ev.id \notin applied,
         run.pc = "start" => ev = Start,
         KeepsNumbers(next), next.pc \notin {"idle", "start", "commit"},
         next.pc \in Deciding => run.pc \in Deciding \/ run.committed < MaxActions
  PROVE  Plays
<1>1. /\ KeepsNumbers(run') /\ run'.pc \notin {"idle", "start", "commit"}
      /\ run'.pc \in Deciding => run.pc \in Deciding \/ run.committed < MaxActions
  <2>1. Exit("INTERNAL_ERROR").pc = "finish" /\ KeepsNumbers(Exit("INTERNAL_ERROR"))
    BY NumbersKept
  <2>2. "finish" \notin Deciding
    BY DEF Deciding
  <2> QED
    BY <2>1, <2>2, AppendCases
<1>2. CASE run' = Exit("INTERNAL_ERROR") /\ journal' = journal
  BY <1>1, <1>2, NumbersKept, SilentPlay
<1>3. CASE journal' = [journal EXCEPT ![run.episode] = @ \cup {ev}]
  <2>1. /\ run.episode \in Episodes
        /\ \A e \in Episodes \ {run.episode} : journal'[e] = journal[e]
        /\ journal'[run.episode] = journal[run.episode] \cup {ev}
    BY <1>3, LoggedEvidence
  <2>2. \A e \in Episodes : Commits(e)' = Commits(e)
    BY <2>1, IdsOfOther DEF Commits
  <2>3. \A e \in Episodes : Performed(e)' = Performed(e)
    <3>1. \A e \in Episodes :
            Intents(e)' = Intents(e) \/ \E m : m \notin applied /\ Intents(e)' = Intents(e) \cup {m}
      <4>1. Ids(journal[run.episode] \cup {ev}, "action_intent")
              = Ids(journal[run.episode], "action_intent")
                \cup (IF ev.kind = "action_intent" THEN {ev.id} ELSE {})
        BY IdsOfAppend
      <4> QED
        BY <2>1, <4>1 DEF Intents
    <3> QED
      BY <3>1 DEF Performed
  <2>4. run.pc = "start" => Intents(run.episode)' = Intents(run.episode)
    <3> SUFFICES ASSUME run.pc = "start"
                 PROVE  Ids(journal'[run.episode'], "action_intent")
                          = Ids(journal[run.episode], "action_intent")
      BY DEF Intents
    <3>1. ev.kind # "action_intent"
      BY DEF Start, Event
    <3> QED
      BY <1>1, <2>1, <3>1, IdsOfOther DEF KeepsNumbers
  <2>5. run.pc = "start" => Start \in journal'[run.episode]
    BY <2>1
  <2> QED
    BY <1>1, <2>1, <2>2, <2>3, <2>4, <2>5 DEF Plays, Proceeds, SameTallies, KeepsNumbers
<1> QED
  BY <1>2, <1>3, AppendCases

\* A row changed in place keeps its owner.
LEMMA RowsStay ==
  ASSUME TypeOK, NEW c \in Calls, NEW row, row.episode = ledger[c].episode,
         ledger' = [ledger EXCEPT ![c] = row]
  PROVE  \A e \in Episodes : Rows(e)' = Rows(e)
  BY DEF Rows, TypeOK, DiskOK

\* Between its calls the worker moves on or out.
LEMMA PlaySilently ==
  ASSUME TypeOK, IInv,
         EndPlay \/ BeginDecision \/ CheckInput \/ RefuseCall \/ TakeOperation \/ ApplyRejected
  PROVE  Plays
<1>1. /\ run.pc \in {"loop", "decide", "reserve", "parse", "apply"}
      /\ UNCHANGED <<created, journal, summary, rec, applied, ledger>>
  BY DEF EndPlay, BeginDecision, CheckInput, RefuseCall, TakeOperation, ApplyRejected
<1>2. \A e \in Episodes : Rows(e)' = Rows(e)
  BY <1>1 DEF Rows
<1>3. /\ run'.pc \in {"finish", "decide", "reserve", "intent", "reject"} /\ KeepsNumbers(run')
      /\ run'.pc \in Deciding => run.pc \in Deciding \/ run.committed < MaxActions
  <2> USE NumbersKept DEF Working, Appending, Deciding
  <2>1. CASE EndPlay \/ RefuseCall
    BY <2>1 DEF EndPlay, RefuseCall
  <2>2. CASE BeginDecision
    BY <2>2 DEF BeginDecision
  <2>3. CASE CheckInput
    <3>2. \/ run' = [run EXCEPT !.pc = "reserve", !.attempt = 0]
          \/ \E reason : run' = Exit(reason)
      BY <2>3 DEF CheckInput
    <3>3. run.pc = "decide"
      BY <2>3 DEF CheckInput
    <3>4. CASE run' = [run EXCEPT !.pc = "reserve", !.attempt = 0]
      <4>1. run'.pc = "reserve" /\ KeepsNumbers(run')
        BY <3>4 DEF TypeOK, RunOK, RunState, KeepsNumbers
      <4> QED
        BY <3>3, <4>1
    <3>5. ASSUME NEW reason, run' = Exit(reason)
          PROVE  run'.pc = "finish" /\ KeepsNumbers(run')
      BY <3>5
    <3> QED
      BY <3>2, <3>4, <3>5
  <2>4. CASE TakeOperation
    <3>1. \/ run' = [run EXCEPT !.pc = "decide"] \/ run' = [run EXCEPT !.pc = "intent"]
          \/ \E reason : run' = Exit(reason)
      BY <2>4 DEF TakeOperation
    <3> QED
      BY <2>4, <3>1 DEF TakeOperation
  <2>5. CASE ApplyRejected
    BY <2>5 DEF ApplyRejected
  <2> QED
    BY <2>1, <2>2, <2>3, <2>4, <2>5
<1> QED
  BY <1>1, <1>2, <1>3, SilentPlay

\* A call on its way: answered, failed, settled and journaled.
LEMMA PlayCall ==
  ASSUME TypeOK, IInv, LogRequest \/ SendAnswered \/ SendFails \/ SettleCall \/ LogResponse
  PROVE  Plays
<1> USE NumbersKept DEF Working, Appending, Deciding
<1>1. CASE LogRequest
  <2>1. Event("provider_request", run.call).kind = "provider_request"
    BY DEF Event
  <2>2. \A e \in Episodes : Rows(e)' = Rows(e)
    BY <1>1 DEF LogRequest, Rows
  <2> QED
    BY <1>1, <2>1, <2>2, LoggedPlay DEF LogRequest
<1>2. CASE SendAnswered
  <2>1. PICK usage : run' = [run EXCEPT !.pc = "settle", !.usage = usage]
    BY <1>2 DEF SendAnswered
  <2>2. run'.pc = "settle" /\ KeepsNumbers(run')
    BY <2>1 DEF TypeOK, RunOK, RunState, KeepsNumbers
  <2>3. \A e \in Episodes : Rows(e)' = Rows(e)
    BY <1>2 DEF SendAnswered, Rows
  <2> QED
    BY <1>2, <2>2, <2>3, SilentPlay DEF SendAnswered
<1>3. CASE SendFails
  <2>1. run.pc = "send" /\ run.call \in Calls
    BY <1>3, InHand DEF SendFails
  <2>2. RetainedRow(ledger[run.call]).episode = ledger[run.call].episode
    BY DEF RetainedRow
  <2>3. \A e \in Episodes : Rows(e)' = Rows(e)
    BY <1>3, <2>1, <2>2, RowsStay DEF SendFails
  <2>4. PICK next \in AfterFailure : AppendThen(Event("provider_error", run.call), next)
    BY <1>3 DEF SendFails
  <2>5. /\ [run EXCEPT !.pc = "reserve", !.attempt = @ + 1].pc = "reserve"
        /\ KeepsNumbers([run EXCEPT !.pc = "reserve", !.attempt = @ + 1])
    BY DEF TypeOK, RunOK, RunState, KeepsNumbers
  <2>6. next.pc \in {"finish", "reserve"} /\ KeepsNumbers(next)
    BY <2>5 DEF AfterFailure
  <2>7. Event("provider_error", run.call).kind = "provider_error"
    BY DEF Event
  <2> QED
    BY <1>3, <2>1, <2>3, <2>4, <2>6, <2>7, LoggedPlay DEF SendFails
<1>4. CASE SettleCall
  <2>1. run.pc = "settle" /\ run.call \in Calls
    BY <1>4, InHand DEF SettleCall
  <2>2. /\ RetainedRow(ledger[run.call]).episode = ledger[run.call].episode
        /\ SettledRow(ledger[run.call], run.usage).episode = ledger[run.call].episode
    BY <2>1 DEF RetainedRow, SettledRow, TypeOK, DiskOK, Row
  <2>3. \A e \in Episodes : Rows(e)' = Rows(e)
    <3>1. \/ ledger' = [ledger EXCEPT ![run.call] = RetainedRow(@)]
          \/ ledger' = [ledger EXCEPT ![run.call] = SettledRow(@, run.usage)]
      BY <1>4 DEF SettleCall
    <3> QED
      BY <2>1, <2>2, <3>1, RowsStay
  <2>4. run'.pc = "response" /\ KeepsNumbers(run')
    BY <1>4, ZenonT(40) DEF SettleCall, TypeOK, RunOK, RunState, KeepsNumbers
  <2> QED
    BY <1>4, <2>1, <2>3, <2>4, SilentPlay DEF SettleCall
<1>5. CASE LogResponse
  <2>1. Response(run.call, run.usage).kind = "provider_response"
    BY DEF Response
  <2>2. \A e \in Episodes : Rows(e)' = Rows(e)
    BY <1>5 DEF LogResponse, Rows
  <2> DEFINE next == IF run.usage = None THEN Exit("PROVIDER_USAGE_UNKNOWN")
                     ELSE [run EXCEPT !.pc = "parse"]
  <2>3. next.pc \in {"finish", "parse"} /\ KeepsNumbers(next)
    OBVIOUS
  <2>4. AppendThen(Response(run.call, run.usage), next)
    BY <1>5 DEF LogResponse
  <2> HIDE DEF next
  <2> QED
    BY <1>5, <2>1, <2>2, <2>3, <2>4, LoggedPlay DEF LogResponse
<1> QED
  BY <1>1, <1>2, <1>3, <1>4, <1>5

\* The start, an intent and a rejection are journaled.
LEMMA PlayLogged ==
  ASSUME TypeOK, IInv, LogStart \/ LogRejected \/ \E m \in Moves : LogIntent(m)
  PROVE  Plays
<1> USE NumbersKept DEF Working, Appending, Deciding
<1>1. CASE LogStart
  <2>1. Start.kind = "episode_start"
    BY DEF Start, Event
  <2>2. \A e \in Episodes : Rows(e)' = Rows(e)
    BY <1>1 DEF LogStart, Rows
  <2> QED
    BY <1>1, <2>1, <2>2, LoggedPlay DEF LogStart
<1>2. CASE LogRejected
  <2>1. Event("action_rejected", run.move).kind = "action_rejected"
    BY DEF Event
  <2>2. \A e \in Episodes : Rows(e)' = Rows(e)
    BY <1>2 DEF LogRejected, Rows
  <2> QED
    BY <1>2, <2>1, <2>2, LoggedPlay DEF LogRejected
<1>3. ASSUME NEW m \in Moves, LogIntent(m) PROVE Plays
  <2>1. /\ Event("action_intent", m).kind = "action_intent"
        /\ Event("action_intent", m).id = m
    BY DEF Event
  <2>2. m \notin applied
    <3>1. \A e \in Episodes : m \notin Intents(e)
      BY <1>3 DEF LogIntent, Intended, Intents
    <3> QED
      BY <3>1 DEF IInv, ActionInHand
  <2>3. /\ [run EXCEPT !.pc = "apply", !.move = m].pc = "apply"
        /\ KeepsNumbers([run EXCEPT !.pc = "apply", !.move = m])
    BY DEF TypeOK, RunOK, RunState, KeepsNumbers
  <2>4. \A e \in Episodes : Rows(e)' = Rows(e)
    BY <1>3 DEF LogIntent, Rows
  <2> QED
    BY <1>3, <2>1, <2>2, <2>3, <2>4, LoggedPlay, ZenonT(40) DEF LogIntent
<1> QED
  BY <1>1, <1>2, <1>3

\* A reserved call is a new row of the running episode.
LEMMA ReserveShape ==
  ASSUME TypeOK, IInv, NEW c \in Calls, ReserveCall(c)
  PROVE  Reserves(c)
<1>1. run.pc = "reserve" /\ run.episode \in Episodes
  BY InHand DEF ReserveCall
<1>2. /\ run'.episode = run.episode /\ run'.pc = "request"
      /\ run'.calls = run.calls + 1 /\ run'.committed = run.committed
  BY DEF ReserveCall, TypeOK, RunOK, RunState
<1>3. run.calls < MaxCalls
  BY LimitAssumption DEF ReserveCall, ProviderBudget, TypeOK, RunOK, RunState
<1>4. \A e \in Episodes : Rows(e)' = Rows(e) \cup (IF e = run.episode THEN {c} ELSE {})
  <2>1. /\ ledger[c].episode = None
        /\ ledger' = [ledger EXCEPT ![c] = ReservedRow(run.episode)]
        /\ ReservedRow(run.episode).episode = run.episode
    BY DEF ReserveCall, Reserved, ReservedRow
  <2> QED
    BY <1>1, <2>1, NoneAssumption DEF Rows, TypeOK, DiskOK
<1>5. \A e \in Episodes : /\ Performed(e)' = Performed(e) /\ Commits(e)' = Commits(e)
                          /\ Intents(e)' = Intents(e)
  BY DEF ReserveCall, Performed, Commits, Intents
<1> QED
  BY <1>1, <1>2, <1>3, <1>4, <1>5 DEF Reserves, Proceeds, ReserveCall

\* What the game performs is the intent in hand and was not performed before.
LEMMA PerformShape ==
  ASSUME TypeOK, IInv, ApplyAccepted \/ ApplyUnknown
  PROVE  Plays \/ Performs
<1>1. /\ run.pc = "apply" /\ run.episode \in Episodes
      /\ UNCHANGED <<created, journal, summary, rec, ledger>>
  BY InHand DEF ApplyAccepted, ApplyUnknown
<1>2. \A e \in Episodes : /\ Rows(e)' = Rows(e) /\ Commits(e)' = Commits(e)
                          /\ Intents(e)' = Intents(e)
  BY <1>1 DEF Rows, Commits, Intents
<1>3. /\ run.move \in Intents(run.episode) /\ run.move \notin applied
      /\ \A d, e \in Episodes : d # e => Intents(d) \cap Intents(e) = {}
  BY <1>1 DEF IInv, ActionInHand
<1>4. CASE applied' = applied /\ run' = Exit("NATIVE_FAILURE")
  <2>1. "finish" \notin Deciding
    BY DEF Deciding
  <2> QED
    BY <1>1, <1>2, <1>4, <2>1, NumbersKept, SilentPlay
<1>5. ASSUME applied' = applied \cup {run.move},
             run'.episode = run.episode /\ run'.calls = run.calls,
             \/ run'.pc = "commit" /\ run'.committed = run.committed + 1 /\ run'.move = run.move
             \/ run'.pc = "finish" /\ run'.reason \in AmbiguousReasons
      PROVE  Performs
  <2>1. \A e \in Episodes :
          Performed(e)' = Performed(e) \cup (IF e = run.episode THEN {run.move} ELSE {})
    BY <1>1, <1>2, <1>3, <1>5 DEF Performed
  <2>2. run.move \notin Performed(run.episode)
    BY <1>3 DEF Performed
  <2> QED
    BY <1>1, <1>2, <1>5, <2>1, <2>2 DEF Performs, Proceeds
<1>6. CASE ApplyAccepted
  <2>1. /\ run'.pc = "commit" /\ run'.committed = run.committed + 1 /\ run'.move = run.move
        /\ run'.episode = run.episode /\ run'.calls = run.calls
    BY <1>6 DEF ApplyAccepted, TypeOK, RunOK, RunState
  <2> QED
    BY <1>5, <1>6, <2>1 DEF ApplyAccepted
<1>7. CASE ApplyUnknown
  <2>1. /\ run'.pc = "finish" /\ run'.reason = "NATIVE_FAILURE"
        /\ run'.episode = run.episode /\ run'.calls = run.calls
    BY <1>7, NumbersKept DEF ApplyUnknown, KeepsNumbers
  <2>2. "NATIVE_FAILURE" \in AmbiguousReasons
    BY DEF AmbiguousReasons
  <2> QED
    BY <1>4, <1>5, <1>7, <2>1, <2>2 DEF ApplyUnknown
<1> QED
  BY <1>6, <1>7

\* A commit is journaled, or the run unwinds as INTERNAL_ERROR.
LEMMA CommitShape ==
  ASSUME TypeOK, IInv, LogCommit
  PROVE  Plays \/ CommitsMove
<1> DEFINE ev == Event("action_commit", run.move)
           next == [run EXCEPT !.pc = "loop"]
<1>1. /\ run.pc = "commit" /\ run.episode \in Episodes
      /\ UNCHANGED <<created, summary, rec, ledger, applied>>
  BY InHand DEF LogCommit
<1>2. /\ next.pc = "loop" /\ KeepsNumbers(next)
      /\ Exit("INTERNAL_ERROR").pc = "finish" /\ KeepsNumbers(Exit("INTERNAL_ERROR"))
      /\ Exit("INTERNAL_ERROR").reason \in AmbiguousReasons
  BY NumbersKept DEF Working, AmbiguousReasons
<1>3. \A e \in Episodes : Rows(e)' = Rows(e)
  BY <1>1 DEF Rows
<1>4. CASE run' = Exit("INTERNAL_ERROR") /\ journal' = journal
  <2>1. \A e \in Episodes : /\ Performed(e)' = Performed(e) /\ Commits(e)' = Commits(e)
                            /\ Intents(e)' = Intents(e)
    BY <1>1, <1>4 DEF Performed, Commits, Intents
  <2>2. "finish" \notin Deciding
    BY DEF Deciding
  <2> QED
    BY <1>1, <1>2, <1>3, <1>4, <2>1, <2>2 DEF Plays, Proceeds, SameTallies, KeepsNumbers
<1>5. CASE /\ run' = next \/ run' = Exit("INTERNAL_ERROR")
           /\ journal' = [journal EXCEPT ![run.episode] = @ \cup {ev}]
  <2>1. ev.kind = "action_commit" /\ ev.id = run.move
    BY DEF Event
  <2>2. /\ \A e \in Episodes \ {run.episode} : journal'[e] = journal[e]
        /\ journal'[run.episode] = journal[run.episode] \cup {ev}
    BY <1>1, <1>5, LoggedEvidence
  <2>3. \A e \in Episodes : Intents(e)' = Intents(e)
    BY <2>1, <2>2, IdsOfOther DEF Intents
  <2>4. \A e \in Episodes : Performed(e)' = Performed(e)
    BY <1>1, <2>3 DEF Performed
  <2>5. \A e \in Episodes :
          Commits(e)' = Commits(e) \cup (IF e = run.episode THEN {run.move} ELSE {})
    BY <2>1, <2>2, IdsOfAppend DEF Commits
  <2>6. /\ run'.episode = run.episode /\ run'.calls = run.calls
        /\ run'.committed = run.committed
        /\ \/ run'.pc = "loop"
           \/ run'.pc = "finish" /\ run'.reason \in AmbiguousReasons
    BY <1>2, <1>5 DEF KeepsNumbers
  <2> QED
    BY <1>1, <1>3, <2>2, <2>4, <2>5, <2>6 DEF CommitsMove, Proceeds
<1> QED
  BY <1>4, <1>5, AppendCases DEF LogCommit

\* The worker goes by a failed launch, a finish or a crash.
LEMMA LeaveShape ==
  ASSUME TypeOK, IInv, LaunchFails \/ Finish \/ Crash
  PROVE  Leaves
<1>1. /\ run.pc # "idle" /\ run'.pc = "idle"
      /\ UNCHANGED <<created, ledger, journal, rec, applied>>
  BY RestTypes DEF LaunchFails, Finish, Crash, Quiet
<1>2. FinishFailedExecution =>
        \/ summary' = summary
        \/ \E s : Written(s) /\ summary' = [summary EXCEPT ![run.episode] = s]
  BY DEF FinishFailedExecution, Written
<1>3. CASE LaunchFails
  BY <1>1, <1>2, <1>3 DEF LaunchFails, Leaves
<1>4. CASE Finish
  <2>1. run.pc = "finish" => Written(RunSummary)
    BY DEF Written
  <2> QED
    BY <1>1, <1>2, <1>4, <2>1 DEF Finish, Leaves
<1>5. CASE Crash
  BY <1>1, <1>5 DEF Crash, Leaves
<1> QED
  BY <1>3, <1>4, <1>5

\* No step of Next is left over.
LEMMA StepShapes ==
  ASSUME TypeOK, IInv, [Next]_vars
  PROVE  \/ Plays \/ Performs \/ CommitsMove \/ Leaves \/ Aside
         \/ (\E c \in Calls : Reserves(c)) \/ (\E e \in Episodes : Create(e))
<1>1. CASE RecoverNext \/ RecoverDies \/ RequestStop \/ UNCHANGED vars
  BY <1>1 DEF RecoverNext, RecoverStart, RecoverRead, RecoverWrite, RecoverDone, RecoverDies,
              RequestStop, vars, Aside
<1>2. CASE WorkerNext
  BY <1>2, PlaySilently, PlayCall, PlayLogged, ReserveShape, PerformShape, CommitShape, LeaveShape
     DEF WorkerNext
<1>3. CASE Crash
  BY <1>3, LeaveShape
<1> QED
  BY <1>1, <1>2, <1>3 DEF Next

-----------------------------------------------------------------------------
(***************************************************************************)
(* The allowances.                                                         *)
(***************************************************************************)

\* An episode that was not created has no row and has performed nothing.
LEMMA NothingYet ==
  ASSUME TypeOK, IInv, NEW e \in Episodes, e \notin created
  PROVE  /\ Rows(e) = {} /\ Intents(e) = {} /\ Performed(e) = {} /\ Commits(e) = {}
         /\ journal[e] = {}
  BY IdsOfEmpty DEF IInv, OnlyCreatedEpisodes, Intents, Performed, Commits

\* A launch counts from zero and leaves every count as it was.
LEMMA CreateCounts ==
  ASSUME TypeOK, IInv, NEW e \in Episodes, Create(e)
  PROVE  /\ run'.pc = "start" /\ run'.episode = e /\ run'.calls = 0 /\ run'.committed = 0
         /\ Rows(e) = {} /\ Performed(e) = {} /\ Commits(e) = {} /\ journal[e] = {}
         /\ \A d \in Episodes : /\ Rows(d)' = Rows(d) /\ Performed(d)' = Performed(d)
                                /\ Commits(d)' = Commits(d) /\ Intents(d)' = Intents(d)
<1>1. run'.pc = "start" /\ run'.episode = e /\ run'.calls = 0 /\ run'.committed = 0
  BY DEF Create, Idle
<1>2. \A d \in Episodes : /\ Rows(d)' = Rows(d) /\ Performed(d)' = Performed(d)
                          /\ Commits(d)' = Commits(d) /\ Intents(d)' = Intents(d)
  BY DEF Create, Rows, Performed, Commits, Intents
<1> QED
  BY <1>1, <1>2, NothingYet DEF Create

LEMMA CountInit == Init => CountsInHand
<1> SUFFICES ASSUME Init PROVE CountsInHand
  OBVIOUS
<1>1. \A e \in Episodes : Rows(e) = {} /\ Performed(e) = {}
  BY NoneAssumption, IdsOfEmpty DEF Init, Rows, NoRow, Performed, Intents
<1>2. IsFiniteSet({}) /\ Cardinality({}) = 0 /\ 0 <= MaxCalls /\ 0 <= MaxActions
  BY FS_EmptySet, LimitAssumption
<1>3. run.pc = "idle"
  BY RestTypes DEF Init
<1> QED
  BY <1>1, <1>2, <1>3 DEF CountsInHand, Deciding

\* The tallies of the worker's episode, once it is known which one that is.
LEMMA AtEpisode ==
  ASSUME NEW here \in Episodes, run'.episode = here
  PROVE  /\ Rows(run.episode)' = Rows(here)' /\ Performed(run.episode)' = Performed(here)'
         /\ Commits(run.episode)' = Commits(here)' /\ Intents(run.episode)' = Intents(here)'
  BY DEF Rows, Performed, Intents, Commits

\* The counters follow the rows and the performed actions through every shape.
LEMMA CountStep == TypeOK /\ IInv /\ CountsInHand /\ [Next]_vars => CountsInHand'
<1> SUFFICES ASSUME TypeOK, IInv, CountsInHand, [Next]_vars PROVE CountsInHand'
  OBVIOUS
<1> DEFINE Limits == \A e \in Episodes :
             /\ IsFiniteSet(Rows(e)) /\ Cardinality(Rows(e)) <= MaxCalls
             /\ IsFiniteSet(Performed(e)) /\ Cardinality(Performed(e)) <= MaxActions
<1>0. Limits /\ (run.pc # "idle" => run.episode \in Episodes)
  BY InHand DEF CountsInHand
<1>1. CASE Plays
  <2>1. Limits'
    BY <1>0, <1>1 DEF Plays, SameTallies
  <2>2. /\ run.pc \notin {"idle", "finish"}
        /\ run'.episode = run.episode /\ run'.calls = run.calls /\ run'.committed = run.committed
        /\ run'.pc \in Deciding => run.pc \in Deciding \/ run.committed < MaxActions
    BY <1>1 DEF Plays, Proceeds
  <2>3. PICK here \in Episodes : run.episode = here /\ run'.episode = here
    BY <1>0, <2>2
  <2>4. Rows(here)' = Rows(here) /\ Performed(here)' = Performed(here)
    BY <1>1 DEF Plays, SameTallies
  <2> QED
    BY <2>1, <2>2, <2>3, <2>4, AtEpisode DEF CountsInHand
<1>2. ASSUME NEW c \in Calls, Reserves(c) PROVE CountsInHand'
  <2>1. /\ run.pc = "reserve" /\ run'.episode = run.episode
        /\ run'.pc = "request" /\ run.calls < MaxCalls /\ run'.calls = run.calls + 1
        /\ run'.committed = run.committed
    BY <1>2 DEF Reserves, Proceeds
  <2>2. PICK here \in Episodes : run.episode = here /\ run'.episode = here
    BY <1>0, <2>1
  <2>3. c \notin Rows(here)
    BY <1>2, NoneAssumption DEF Reserves, Reserved, Rows
  <2>4. \A e \in Episodes : /\ Rows(e)' = Rows(e) \cup (IF e = here THEN {c} ELSE {})
                            /\ Performed(e)' = Performed(e)
    BY <1>2, <2>2 DEF Reserves
  <2>5. /\ IsFiniteSet(Rows(here) \cup {c})
        /\ Cardinality(Rows(here) \cup {c}) = Cardinality(Rows(here)) + 1
    BY <1>0, <2>3, FS_AddElement
  <2>6. run.calls = Cardinality(Rows(here)) /\ run.committed = Cardinality(Performed(here))
        /\ run.committed < MaxActions /\ run.calls \in Nat
    BY <2>1, <2>2 DEF CountsInHand, Deciding, TypeOK, RunOK, RunState
  <2>7. Limits'
    <3>1. \A e \in Episodes : e # here => Rows(e)' = Rows(e)
      BY <2>4
    <3>2. Rows(here)' = Rows(here) \cup {c} /\ Cardinality(Rows(here)) + 1 <= MaxCalls
      BY <2>1, <2>4, <2>6, LimitAssumption
    <3> QED
      BY <1>0, <2>4, <2>5, <3>1, <3>2
  <2>8. run'.calls = Cardinality(Rows(here)') /\ run'.committed = Cardinality(Performed(here)')
    BY <2>1, <2>4, <2>5, <2>6
  <2> QED
    BY <2>1, <2>2, <2>6, <2>7, <2>8, AtEpisode DEF CountsInHand
<1>3. CASE Performs
  <2>1. /\ run.pc = "apply" /\ run'.episode = run.episode /\ run'.calls = run.calls
        /\ \/ run'.pc = "commit" /\ run'.committed = run.committed + 1
           \/ run'.pc = "finish"
    BY <1>3 DEF Performs, Proceeds
  <2>2. PICK here \in Episodes : run.episode = here /\ run'.episode = here
    BY <1>0, <2>1
  <2>3. \A e \in Episodes :
          /\ Performed(e)' = Performed(e) \cup (IF e = here THEN {run.move} ELSE {})
          /\ Rows(e)' = Rows(e)
    BY <1>3, <2>2 DEF Performs
  <2>4. /\ IsFiniteSet(Performed(here) \cup {run.move})
        /\ Cardinality(Performed(here) \cup {run.move}) = Cardinality(Performed(here)) + 1
    BY <1>0, <1>3, <2>2, FS_AddElement DEF Performs
  <2>5. run.calls = Cardinality(Rows(here)) /\ run.committed = Cardinality(Performed(here))
        /\ run.committed < MaxActions /\ run.committed \in Nat
    BY <2>1, <2>2 DEF CountsInHand, Deciding, TypeOK, RunOK, RunState
  <2>6. Limits'
    <3>1. \A e \in Episodes : e # here => Performed(e)' = Performed(e)
      BY <2>3
    <3>2. /\ Performed(here)' = Performed(here) \cup {run.move}
          /\ Cardinality(Performed(here)) + 1 <= MaxActions
      BY <2>3, <2>5, LimitAssumption
    <3> QED
      BY <1>0, <2>3, <2>4, <3>1, <3>2
  <2>7. /\ run'.calls = Cardinality(Rows(here)')
        /\ run'.pc = "commit" => run'.committed = Cardinality(Performed(here)')
    BY <2>1, <2>3, <2>4, <2>5
  <2> QED
    BY <2>1, <2>2, <2>6, <2>7, AtEpisode DEF CountsInHand, Deciding
<1>4. CASE CommitsMove
  <2>1. /\ run.pc = "commit" /\ run'.episode = run.episode
        /\ run'.calls = run.calls /\ run'.committed = run.committed
        /\ run'.pc \in {"loop", "finish"}
        /\ \A e \in Episodes : Rows(e)' = Rows(e) /\ Performed(e)' = Performed(e)
    BY <1>4 DEF CommitsMove, Proceeds
  <2>2. Limits'
    BY <1>0, <2>1
  <2>3. PICK here \in Episodes : run.episode = here /\ run'.episode = here
    BY <1>0, <2>1
  <2> QED
    BY <2>1, <2>2, <2>3, AtEpisode DEF CountsInHand, Deciding
<1>5. CASE Leaves
  <2>1. \A e \in Episodes : Rows(e)' = Rows(e) /\ Performed(e)' = Performed(e)
    BY <1>5 DEF Leaves, Rows, Performed, Intents
  <2>2. Limits' /\ run'.pc = "idle"
    BY <1>0, <1>5, <2>1 DEF Leaves
  <2> QED
    BY <2>2 DEF CountsInHand, Deciding
<1>6. CASE Aside
  BY <1>6 DEF Aside, CountsInHand, Rows, Performed, Intents
<1>7. ASSUME NEW e \in Episodes, Create(e) PROVE CountsInHand'
  <2>1. Limits'
    BY <1>0, <1>7, CreateCounts
  <2>2. /\ run'.pc = "start" /\ run'.episode = e /\ run'.calls = 0 /\ run'.committed = 0
        /\ Rows(e)' = {} /\ Performed(e)' = {}
    BY <1>7, CreateCounts
  <2> QED
    BY <2>1, <2>2, FS_EmptySet, AtEpisode DEF CountsInHand, Deciding
<1> QED
  BY <1>1, <1>2, <1>3, <1>4, <1>5, <1>6, <1>7, StepShapes

\* No episode reserves more calls than max_provider_calls or performs more
\* actions than max_game_actions, counting every retry, failure and unknown
\* outcome (_provider and _play, limit checks; the counters of _run_episode).
THEOREM AllowancesKept == Spec => []AllowancesHold
<1>1. TypeOK /\ IInv /\ CountsInHand => AllowancesHold
  BY DEF CountsInHand, AllowancesHold, Performed, Intents
<1> QED
  BY <1>1, CountInit, CountStep, Inductive, PTL DEF Spec

-----------------------------------------------------------------------------
(***************************************************************************)
(* Nothing hidden, where recovery runs alone.                              *)
(***************************************************************************)

\* What a commit reports was performed, and of different episodes different
\* actions were.
LEMMA Evidence ==
  ASSUME IInv
  PROVE  \A e \in Episodes : Commits(e) \subseteq Performed(e) /\ Rejections(e) \cap applied = {}
  BY DEF IInv, ActionInHand, Performed

\* NoHiddenAction of one episode, in the words of the inductive invariant.
Candid(e) ==
  (summary[e] # None /\ summary[e].reason \notin AmbiguousReasons) =>
    Performed(e) = Commits(e) /\ summary[e].committed = Cardinality(Commits(e))

LEMMA CandidAll ==
  /\ NoHiddenAction <=> \A e \in Episodes : Candid(e)
  /\ NoHiddenAction' <=> \A e \in Episodes : Candid(e)'
  BY DEF NoHiddenAction, Candid, Performed, Intents, Commits

\* The terminal of an episode whose tallies rest stays candid.
LEMMA CandidRests ==
  ASSUME NEW e \in Episodes, Candid(e), summary'[e] = summary[e],
         Performed(e)' = Performed(e), Commits(e)' = Commits(e)
  PROVE  Candid(e)'
  BY DEF Candid

LEMMA HiddenInit == Init => HInv
<1> SUFFICES ASSUME Init PROVE HInv
  OBVIOUS
<1>1. run.pc = "idle" /\ rec.pc = "idle" /\ rec.todo = {}
  BY RestTypes DEF Init, NotRecovering
<1>2. \A e \in Episodes : summary[e] = None /\ Intents(e) = {}
  BY IdsOfEmpty DEF Init, Intents
<1> QED
  BY <1>1, <1>2 DEF HInv, NoHiddenAction, HiddenInHand, PlayHasStarted, OpenWhileLive, RecoversAlone

\* While a worker lives, recovery rests and only the worker's episode is open.
LEMMA WorkerAlone ==
  ASSUME TypeOK, IInv, HInv, Proceeds, created' = created, summary' = summary
  PROVE  /\ run.episode \in Episodes /\ run'.episode = run.episode
         /\ summary[run.episode] = None
         /\ PlayHasStarted' /\ OpenWhileLive' /\ RecoversAlone'
         /\ \A e \in Episodes \ {run.episode} : Intents(e)' = Intents(e)
<1>1. run.pc \notin {"idle", "finish"} /\ run'.pc \notin {"idle", "start"}
  BY DEF Proceeds
<1>2. PICK here \in Episodes : run.episode = here /\ run'.episode = here
  BY <1>1, InHand DEF Proceeds
<1>3. summary[here] = None
  BY <1>1, <1>2 DEF HInv, OpenWhileLive
<1>4. \A e \in Episodes \ {here} : journal'[e] = journal[e] /\ Intents(e)' = Intents(e)
  BY <1>2 DEF Proceeds, Intents
<1>5. OpenWhileLive'
  BY <1>2, <1>3 DEF HInv, OpenWhileLive
<1>6. RecoversAlone'
  BY <1>1 DEF HInv, RecoversAlone, Proceeds
<1>7. PlayHasStarted'
  <2>1. run'.pc # "finish" => Start \in journal'[here]
    BY <1>1, <1>2 DEF HInv, PlayHasStarted, Proceeds
  <2>2. Intents(here)' # {} => Start \in journal'[here]
    <3>1. run.pc = "start" => Intents(here)' = Intents(here)
      BY <1>2, AtEpisode DEF Proceeds
    <3>2. journal[here] \subseteq journal'[here]
      BY <1>2 DEF Proceeds
    <3> QED
      BY <1>1, <1>2, <3>1, <3>2 DEF HInv, PlayHasStarted
  <2>3. \A e \in Episodes : Intents(e)' # {} => Start \in journal'[e]
    BY <1>4, <2>2 DEF HInv, PlayHasStarted
  <2> QED
    BY <1>1, <1>2, <2>1, <2>3 DEF PlayHasStarted
<1> QED
  BY <1>2, <1>3, <1>4, <1>5, <1>6, <1>7

\* The worker plays on: what is hidden is still in its hand.
LEMMA PlayHides ==
  ASSUME TypeOK, IInv, CountsInHand, HInv, Plays
  PROVE  HInv'
<1>1. /\ created' = created /\ summary' = summary
      /\ \A e \in Episodes : Performed(e)' = Performed(e) /\ Commits(e)' = Commits(e)
      /\ run.pc \notin {"idle", "finish"} /\ run'.pc # "commit"
      /\ run'.committed = run.committed
      /\ run.pc = "commit" => run'.pc = "finish" /\ run'.reason \in AmbiguousReasons
      /\ Proceeds
  BY DEF Plays, SameTallies, Proceeds
<1>2. PICK here \in Episodes : run.episode = here /\ run'.episode = here
  BY <1>1, WorkerAlone
<1>3. PlayHasStarted' /\ OpenWhileLive' /\ RecoversAlone'
  BY <1>1, WorkerAlone
<1>4. NoHiddenAction'
  <2>1. \A e \in Episodes : Candid(e)'
    BY <1>1, CandidAll, CandidRests DEF HInv
  <2> QED
    BY <2>1, CandidAll
<1>5. HiddenInHand'
  <2>1. Hidden(here)' = Hidden(here) /\ Cardinality(Performed(here))' = Cardinality(Performed(here))
    BY <1>1 DEF Hidden
  <2>2. run.pc # "commit" => Hidden(here) = {} /\ run.committed = Cardinality(Performed(here))
    BY <1>1, <1>2 DEF HInv, HiddenInHand, CountsInHand
  <2>3. run'.pc = "finish" /\ run'.reason \notin AmbiguousReasons => run.pc # "commit"
    BY <1>1
  <2>4. /\ Hidden(run.episode)' = Hidden(here)'
        /\ Cardinality(Performed(run.episode))' = Cardinality(Performed(here))'
    BY <1>2 DEF Hidden, Performed, Commits, Intents
  <2> QED
    BY <1>1, <2>1, <2>2, <2>3, <2>4 DEF HiddenInHand
<1> QED
  BY <1>3, <1>4, <1>5 DEF HInv

\* A reservation hides nothing.
LEMMA ReserveHides ==
  ASSUME TypeOK, IInv, CountsInHand, HInv, NEW c \in Calls, Reserves(c)
  PROVE  HInv'
<1>1. /\ created' = created /\ summary' = summary
      /\ \A e \in Episodes : Performed(e)' = Performed(e) /\ Commits(e)' = Commits(e)
      /\ run.pc = "reserve" /\ run'.pc = "request" /\ Proceeds
  BY DEF Reserves
<1>2. PICK here \in Episodes : run.episode = here /\ run'.episode = here
  BY <1>1, WorkerAlone
<1>3. PlayHasStarted' /\ OpenWhileLive' /\ RecoversAlone'
  BY <1>1, WorkerAlone
<1>4. NoHiddenAction'
  BY <1>1, CandidAll, CandidRests DEF HInv
<1>5. HiddenInHand'
  <2>1. Hidden(here)' = Hidden(here) /\ Hidden(here) = {}
    BY <1>1, <1>2 DEF Hidden, HInv, HiddenInHand
  <2>2. Hidden(run.episode)' = Hidden(here)'
    BY <1>2 DEF Hidden, Performed, Commits, Intents
  <2> QED
    BY <1>1, <2>1, <2>2 DEF HiddenInHand
<1> QED
  BY <1>3, <1>4, <1>5 DEF HInv

\* A performed action is hidden in the worker's hand, or its way out says so.
LEMMA PerformHides ==
  ASSUME TypeOK, IInv, CountsInHand, HInv, Performs
  PROVE  HInv'
<1>1. /\ created' = created /\ summary' = summary /\ Proceeds /\ run.pc = "apply"
      /\ run.move \notin Performed(run.episode)
      /\ \/ run'.pc = "commit" /\ run'.move = run.move
         \/ run'.pc = "finish" /\ run'.reason \in AmbiguousReasons
  BY DEF Performs
<1>2. PICK here \in Episodes : run.episode = here /\ run'.episode = here
  BY <1>1, WorkerAlone
<1>3. PlayHasStarted' /\ OpenWhileLive' /\ RecoversAlone' /\ summary[here] = None
  BY <1>1, <1>2, WorkerAlone
<1>4. \A e \in Episodes :
        /\ Performed(e)' = Performed(e) \cup (IF e = here THEN {run.move} ELSE {})
        /\ Commits(e)' = Commits(e)
  BY <1>2 DEF Performs
<1>5. NoHiddenAction'
  <2>1. ASSUME NEW e \in Episodes, e # here PROVE Candid(e)'
    BY <1>1, <1>4, <2>1, CandidAll, CandidRests DEF HInv
  <2>2. Candid(here)'
    BY <1>1, <1>3 DEF Candid
  <2> QED
    BY <2>1, <2>2, CandidAll
<1>6. HiddenInHand'
  <2>1. Hidden(here) = {} /\ Commits(here) \subseteq Performed(here)
    BY <1>1, <1>2, Evidence DEF HInv, HiddenInHand
  <2>2. Hidden(here)' = {run.move}
    BY <1>1, <1>2, <1>4, <2>1 DEF Hidden
  <2>3. Hidden(run.episode)' = Hidden(here)'
    BY <1>2 DEF Hidden, Performed, Commits, Intents
  <2> QED
    BY <1>1, <2>2, <2>3 DEF HiddenInHand
<1> QED
  BY <1>3, <1>5, <1>6 DEF HInv

\* A commit takes the action out of hiding.
LEMMA CommitHides ==
  ASSUME TypeOK, IInv, CountsInHand, HInv, CommitsMove
  PROVE  HInv'
<1>1. /\ created' = created /\ summary' = summary /\ Proceeds /\ run.pc = "commit"
      /\ \/ run'.pc = "loop"
         \/ run'.pc = "finish" /\ run'.reason \in AmbiguousReasons
  BY DEF CommitsMove
<1>2. PICK here \in Episodes : run.episode = here /\ run'.episode = here
  BY <1>1, WorkerAlone
<1>3. PlayHasStarted' /\ OpenWhileLive' /\ RecoversAlone' /\ summary[here] = None
  BY <1>1, <1>2, WorkerAlone
<1>4. \A e \in Episodes :
        /\ Commits(e)' = Commits(e) \cup (IF e = here THEN {run.move} ELSE {})
        /\ Performed(e)' = Performed(e)
  BY <1>2 DEF CommitsMove
<1>5. NoHiddenAction'
  <2>1. ASSUME NEW e \in Episodes, e # here PROVE Candid(e)'
    BY <1>1, <1>4, <2>1, CandidAll, CandidRests DEF HInv
  <2>2. Candid(here)'
    BY <1>1, <1>3 DEF Candid
  <2> QED
    BY <2>1, <2>2, CandidAll
<1>6. HiddenInHand'
  <2>1. Hidden(here) = {run.move}
    BY <1>1, <1>2 DEF HInv, HiddenInHand
  <2>2. Hidden(here)' = {}
    BY <1>4, <2>1 DEF Hidden
  <2>3. Hidden(run.episode)' = Hidden(here)'
    BY <1>2 DEF Hidden, Performed, Commits, Intents
  <2> QED
    BY <1>1, <2>2, <2>3 DEF HiddenInHand
<1> QED
  BY <1>3, <1>5, <1>6 DEF HInv

\* A placeholder is only silent about an episode that intended nothing.
LEMMA PlaceholderCandid ==
  ASSUME IInv, HInv, NEW e \in Episodes,
         Placeholder(journal[e]).reason \notin AmbiguousReasons
  PROVE  /\ Performed(e) = {} /\ Commits(e) = {}
         /\ Placeholder(journal[e]).committed = Cardinality(Commits(e))
<1>1. Start \notin journal[e]
  BY DEF Placeholder, AmbiguousReasons
<1>2. Performed(e) = {} /\ Commits(e) = {}
  BY <1>1, Evidence DEF HInv, PlayHasStarted, Performed
<1> QED
  BY <1>2, FS_EmptySet DEF Placeholder

\* The worker's terminal, or its placeholder, tells what was performed.
LEMMA LeaveHides ==
  ASSUME TypeOK, IInv, CountsInHand, HInv, Leaves
  PROVE  HInv'
<1>1. /\ run.pc # "idle" /\ run'.pc = "idle"
      /\ UNCHANGED <<created, ledger, journal, rec, applied>>
  BY DEF Leaves
<1>2. PICK here \in Episodes : run.episode = here /\ here \in created
  BY <1>1, InHand DEF IInv, OnlyCreatedEpisodes
<1>3. \A e \in Episodes : Performed(e)' = Performed(e) /\ Commits(e)' = Commits(e)
  BY <1>1 DEF Performed, Commits, Intents
<1>4. \A e \in Episodes \ {here} : summary'[e] = summary[e]
  BY <1>2 DEF Leaves, TypeOK, DiskOK
<1>5. NoHiddenAction'
  <2>1. ASSUME NEW e \in Episodes, e # here PROVE Candid(e)'
    BY <1>3, <1>4, <2>1, CandidAll, CandidRests DEF HInv
  <2>2. Candid(here)'
    <3>1. CASE summary' = summary
      BY <1>3, <3>1, CandidAll, CandidRests DEF HInv
    <3>2. ASSUME NEW s, Written(s), summary' = [summary EXCEPT ![run.episode] = s],
                 s.reason \notin AmbiguousReasons
          PROVE  Performed(here) = Commits(here) /\ s.committed = Cardinality(Commits(here))
      <4>1. CASE s = Placeholder(journal[run.episode])
        BY <1>2, <3>2, <4>1, PlaceholderCandid
      <4>2. CASE run.pc = "finish" /\ s = RunSummary
        <5>1. s.reason = run.reason /\ s.committed = run.committed
          BY <4>2 DEF RunSummary
        <5>2. Hidden(here) = {} /\ run.committed = Cardinality(Performed(here))
          BY <1>2, <3>2, <4>2, <5>1 DEF HInv, HiddenInHand
        <5>3. Performed(here) = Commits(here)
          BY <5>2, Evidence DEF Hidden
        <5> QED
          BY <5>1, <5>2, <5>3
      <4> QED
        BY <3>2, <4>1, <4>2 DEF Written
    <3>3. ASSUME NEW s, summary' = [summary EXCEPT ![run.episode] = s] PROVE summary'[here] = s
      BY <1>2, <3>3 DEF TypeOK, DiskOK
    <3> QED
      BY <1>3, <3>1, <3>2, <3>3 DEF Leaves, Candid
  <2> QED
    BY <2>1, <2>2, CandidAll
<1>6. HiddenInHand'
  BY <1>1 DEF HiddenInHand
<1>7. PlayHasStarted'
  BY <1>1 DEF HInv, PlayHasStarted, Intents
<1>8. OpenWhileLive'
  BY <1>1, <1>2, <1>4 DEF HInv, OpenWhileLive
<1>9. RecoversAlone'
  BY <1>1 DEF HInv, RecoversAlone
<1> QED
  BY <1>5, <1>6, <1>7, <1>8, <1>9 DEF HInv

\* A launch needs a recovery at rest and an episode nothing was written of.
LEMMA CreateHides ==
  ASSUME TypeOK, IInv, HInv, ~RecoverWhileLive, NEW e \in Episodes, Create(e)
  PROVE  HInv'
<1>1. /\ run'.pc = "start" /\ run'.episode = e
      /\ Performed(e) = {} /\ Commits(e) = {}
      /\ \A d \in Episodes : /\ Performed(d)' = Performed(d) /\ Commits(d)' = Commits(d)
                             /\ Intents(d)' = Intents(d)
  BY CreateCounts
<1>2. /\ UNCHANGED <<journal, summary, rec, applied>> /\ created' = created \cup {e}
      /\ e \notin created /\ rec.pc \in {"idle", "raised"}
  BY DEF Create, MayWork
<1>3. NoHiddenAction'
  BY <1>1, <1>2, CandidAll, CandidRests DEF HInv
<1>4. HiddenInHand'
  <2>1. Hidden(run.episode)' = Hidden(e)'
    BY <1>1 DEF Hidden, Performed, Commits, Intents
  <2>2. Hidden(e)' = {}
    BY <1>1 DEF Hidden
  <2> QED
    BY <1>1, <2>1, <2>2 DEF HiddenInHand
<1>5. PlayHasStarted'
  BY <1>1, <1>2 DEF HInv, PlayHasStarted
<1>6. OpenWhileLive'
  BY <1>1, <1>2 DEF HInv, OpenWhileLive
<1>7. RecoversAlone'
  BY <1>2 DEF HInv, RecoversAlone
<1> QED
  BY <1>3, <1>4, <1>5, <1>6, <1>7 DEF HInv

\* A recovered terminal that admits no ambiguity found every intent answered,
\* in a journal that cannot have changed since.
LEMMA RecoveredCandid ==
  ASSUME IInv, NEW e \in Episodes,
         RecoveredSummary(journal[e]).reason \notin AmbiguousReasons
  PROVE  /\ Performed(e) = Commits(e)
         /\ RecoveredSummary(journal[e]).committed = Cardinality(Commits(e))
<1>1. Unresolved(journal[e]) = {}
  BY DEF RecoveredSummary, RecoveredReason, AmbiguousReasons
<1>2. Intents(e) \subseteq Commits(e) \cup Rejections(e)
  BY <1>1 DEF Unresolved, Intents, Commits, Rejections
<1>3. Performed(e) = Commits(e)
  BY <1>2, Evidence DEF Performed
<1> QED
  BY <1>3 DEF RecoveredSummary, Commits

\* Recovery moves alone: no journal changes between its reading and its writing.
LEMMA AsideHides ==
  ASSUME TypeOK, IInv, HInv, ~RecoverWhileLive, Aside
  PROVE  HInv'
<1>1. UNCHANGED <<created, ledger, journal, run, applied>>
  BY DEF Aside
<1>2. \A e \in Episodes : /\ Performed(e)' = Performed(e) /\ Commits(e)' = Commits(e)
                          /\ Intents(e)' = Intents(e)
  BY <1>1 DEF Performed, Commits, Intents
<1>3. HiddenInHand'
  BY <1>1 DEF HInv, HiddenInHand, Hidden, Performed, Commits, Intents
<1>4. PlayHasStarted'
  BY <1>1, <1>2 DEF HInv, PlayHasStarted
<1>5. ASSUME summary' = summary PROVE NoHiddenAction' /\ OpenWhileLive'
  <2>1. NoHiddenAction'
    BY <1>2, <1>5, CandidAll, CandidRests DEF HInv
  <2> QED
    BY <1>1, <1>5, <2>1 DEF HInv, OpenWhileLive
<1>6. CASE UNCHANGED <<rec, summary>>
  BY <1>1, <1>3, <1>4, <1>5, <1>6 DEF HInv, RecoversAlone
<1>7. CASE RecoverStart
  <2>1. rec'.pc = "scan" /\ rec'.todo = created /\ run.pc = "idle" /\ summary' = summary
    BY <1>7 DEF RecoverStart, NotRecovering, MayRecover, Quiet
  <2> QED
    BY <1>1, <1>3, <1>4, <1>5, <2>1 DEF HInv, RecoversAlone
<1>8. CASE RecoverDone \/ RecoverDies
  <2>1. rec' = NotRecovering /\ summary' = summary
    BY <1>8 DEF RecoverDone, RecoverDies
  <2>2. NotRecovering.pc = "idle" /\ NotRecovering.todo = {}
    BY DEF NotRecovering
  <2> QED
    BY <1>1, <1>3, <1>4, <1>5, <2>1, <2>2 DEF HInv, RecoversAlone
<1>9. ASSUME NEW e \in Episodes, RecoverRead(e) PROVE HInv'
  <2>1. rec.pc = "scan" /\ e \in rec.todo /\ summary' = summary
    BY <1>9 DEF RecoverRead
  <2>2. \/ rec' = [NotRecovering EXCEPT !.pc = "raised"]
        \/ rec' = [rec EXCEPT !.todo = @ \ {e}]
        \/ rec' = [rec EXCEPT !.pc = "write", !.episode = e, !.seen = journal[e]]
    BY <1>9 DEF RecoverRead
  <2>3. /\ rec'.todo \subseteq created
        /\ rec'.pc \in {"raised", "scan", "write"}
        /\ rec'.pc = "write" => rec'.episode = e /\ rec'.seen = journal[e]
    BY <2>1, <2>2 DEF HInv, RecoversAlone, NotRecovering, TypeOK, RecOK, RecState
  <2>4. RecoversAlone'
    BY <1>1, <2>1, <2>3 DEF HInv, RecoversAlone
  <2> QED
    BY <1>3, <1>4, <1>5, <2>1, <2>4 DEF HInv
<1>10. CASE RecoverWrite
  <2>1. PICK there \in Episodes :
          rec.episode = there /\ there \in created /\ rec.seen = journal[there]
    BY <1>10 DEF RecoverWrite, HInv, RecoversAlone, TypeOK, RecOK
  <2>2. run.pc = "idle"
    BY <1>10 DEF RecoverWrite, HInv, RecoversAlone
  <2>3. rec'.todo \subseteq created /\ rec'.pc \in {"raised", "scan"}
    BY <1>10 DEF RecoverWrite, NotRecovering, HInv, RecoversAlone
  <2>4. RecoversAlone'
    BY <1>1, <2>2, <2>3 DEF RecoversAlone
  <2>5. CASE summary' = summary
    BY <1>3, <1>4, <1>5, <2>4, <2>5 DEF HInv
  <2>6. CASE summary' = [summary EXCEPT ![there] = RecoveredSummary(journal[there])]
    <3>1. /\ summary'[there] = RecoveredSummary(journal[there])
          /\ \A e \in Episodes \ {there} : summary'[e] = summary[e]
      BY <2>6 DEF TypeOK, DiskOK
    <3>2. NoHiddenAction'
      BY <1>2, <3>1, CandidAll, CandidRests, RecoveredCandid DEF HInv, Candid
    <3>3. OpenWhileLive'
      BY <1>1, <2>1, <2>2, <3>1 DEF HInv, OpenWhileLive
    <3> QED
      BY <1>3, <1>4, <2>4, <3>2, <3>3 DEF HInv
  <2> QED
    BY <1>10, <2>1, <2>5, <2>6 DEF RecoverWrite
<1> QED
  BY <1>6, <1>7, <1>8, <1>9, <1>10 DEF Aside, RecoverNext

\* The strengthening holds of every reachable state when recovery runs alone.
THEOREM HiddenInductive ==
  ASSUME ~RecoverWhileLive
  PROVE  Spec => [](CountsInHand /\ HInv)
<1>1. Init => CountsInHand /\ HInv
  BY CountInit, HiddenInit
<1>2. TypeOK /\ IInv /\ CountsInHand /\ HInv /\ [Next]_vars => CountsInHand' /\ HInv'
  BY CountStep, StepShapes, PlayHides, ReserveHides, PerformHides, CommitHides, LeaveHides,
     CreateHides, AsideHides
<1> QED
  BY <1>1, <1>2, Inductive, PTL DEF Spec

\* Where recovery runs alone, a terminal that admits no ambiguity hides no
\* action: all the game performed are committed in its journal and counted
\* (Store.recover's AMBIGUOUS_ACTION_AFTER_CRASH, classify_exit).
THEOREM NothingHidden ==
  ASSUME ~RecoverWhileLive
  PROVE  Spec => []NoHiddenAction
<1>1. HInv => NoHiddenAction
  BY DEF HInv
<1> QED
  BY <1>1, HiddenInductive, PTL

-----------------------------------------------------------------------------
(***************************************************************************)
(* Sums over finite sets.  The community modules define SumFunctionOnSet   *)
(* by a recursive function over the subsets of a set, and state nothing    *)
(* about it; these lemmas say what it computes.                            *)
(*                                                                         *)
(* Induction is by least counterexample: a set of failing subsets that is  *)
(* not empty has a member whose smaller neighbours do not fail.            *)
(***************************************************************************)

\* A set of natural numbers has a least element.
LEMMA LeastNat ==
  ASSUME NEW T \in SUBSET Nat, T # {}
  PROVE  \E n \in T : \A m \in T : n <= m
<1>1. PICK n \in T : \A m \in T : ~(<<m, n>> \in OpToRel(<, Nat))
  BY NatLessThanWellFounded, WFMin
<1>2. \A m \in T : ~(m < n)
  BY <1>1 DEF OpToRel
<1> QED
  BY <1>2

\* Among subsets of a finite set, one has no member removable within them.
LEMMA MinimalSubset ==
  ASSUME NEW S, IsFiniteSet(S), NEW bad \in SUBSET SUBSET S, bad # {}
  PROVE  \E A \in bad : \A x \in A : A \ {x} \notin bad
<1> DEFINE sizes == {Cardinality(A) : A \in bad}
<1>1. \A A \in bad : IsFiniteSet(A) /\ Cardinality(A) \in Nat
  BY FS_Subset, FS_CardinalityType
<1>2. sizes \in SUBSET Nat /\ sizes # {}
  BY <1>1
<1>3. PICK n \in sizes : \A m \in sizes : n <= m
  BY <1>2, LeastNat
<1>4. PICK A \in bad : Cardinality(A) = n
  BY <1>3
<1>5. \A x \in A : Cardinality(A \ {x}) = n - 1
  BY <1>1, <1>4, FS_RemoveElement
<1>6. \A x \in A : A \ {x} \in bad => n <= n - 1
  BY <1>3, <1>5
<1>7. n \in Nat
  BY <1>1, <1>4
<1> QED
  BY <1>4, <1>6, <1>7

-----------------------------------------------------------------------------
(***************************************************************************)
(* The table of partial sums that the recursion fills in.                  *)
(***************************************************************************)
Some(s) == CHOOSE x \in s : TRUE
Table(fun, D, g) == g = [s \in D |-> IF s = {} THEN 0 ELSE fun[Some(s)] + g[s \ {Some(s)}]]

\* A set that is not empty loses an element of its own.
LEMMA SomeIsIn ==
  ASSUME NEW s, s # {}
  PROVE  Some(s) \in s
  BY DEF Some

\* The subsets of up to k elements.
UpTo(S, k) == {s \in SUBSET S : Cardinality(s) <= k}

\* There is a table for the subsets of every size.
LEMMA TableUpTo ==
  ASSUME NEW fun, NEW S, IsFiniteSet(S)
  PROVE  \A k \in Nat : \E g : Table(fun, UpTo(S, k), g)
<1> DEFINE missing == {k \in Nat : ~\E g : Table(fun, UpTo(S, k), g)}
<1> SUFFICES missing = {}
  OBVIOUS
<1> SUFFICES ASSUME missing # {} PROVE FALSE
  OBVIOUS
<1>1. PICK k \in missing : \A m \in missing : k <= m
  <2>1. missing \in SUBSET Nat
    OBVIOUS
  <2> HIDE DEF missing
  <2> QED
    BY <2>1, LeastNat
<1>2. \A s \in SUBSET S :
        IsFiniteSet(s) /\ Cardinality(s) \in Nat /\ (Cardinality(s) = 0 <=> s = {})
  BY FS_Subset, FS_CardinalityType, FS_EmptySet
<1>3. CASE k = 0
  <2> DEFINE g == [s \in UpTo(S, 0) |-> 0]
  <2>1. \A s \in UpTo(S, 0) : s = {}
    BY <1>2 DEF UpTo
  <2>2. Table(fun, UpTo(S, 0), g)
    BY <2>1 DEF Table
  <2> QED
    BY <1>1, <1>3, <2>2
<1>4. CASE k # 0
  <2>1. k - 1 \in Nat /\ k - 1 \notin missing
    BY <1>1, <1>4
  <2>2. PICK h : Table(fun, UpTo(S, k - 1), h)
    BY <2>1
  <2> DEFINE g == [s \in UpTo(S, k) |->
                     IF s = {} THEN 0 ELSE fun[Some(s)] + h[s \ {Some(s)}]]
  <2>3. ASSUME NEW s \in UpTo(S, k), s # {}
        PROVE  g[s \ {Some(s)}] = h[s \ {Some(s)}]
    <3> DEFINE t == s \ {Some(s)}
    <3>1. Cardinality(t) = Cardinality(s) - 1
      BY <1>2, <2>3, SomeIsIn, FS_RemoveElement DEF UpTo
    <3>2. t \in UpTo(S, k - 1) /\ t \in UpTo(S, k)
      BY <1>1, <1>2, <3>1 DEF UpTo
    <3> HIDE DEF t
    <3>3. h[t] = IF t = {} THEN 0 ELSE fun[Some(t)] + h[t \ {Some(t)}]
      BY <2>2, <3>2 DEF Table
    <3>4. g[t] = IF t = {} THEN 0 ELSE fun[Some(t)] + h[t \ {Some(t)}]
      BY <3>2
    <3>5. g[t] = h[t]
      BY <3>3, <3>4
    <3> QED
      BY <3>5 DEF t
  <2>4. Table(fun, UpTo(S, k), g)
    <3> DEFINE body == [s \in UpTo(S, k) |->
                          IF s = {} THEN 0 ELSE fun[Some(s)] + g[s \ {Some(s)}]]
    <3>1. ASSUME NEW s \in UpTo(S, k) PROVE body[s] = g[s]
      <4>1. /\ g[s] = IF s = {} THEN 0 ELSE fun[Some(s)] + h[s \ {Some(s)}]
            /\ body[s] = IF s = {} THEN 0 ELSE fun[Some(s)] + g[s \ {Some(s)}]
        OBVIOUS
      <4> HIDE DEF g, body
      <4> QED
        BY <2>3, <4>1
    <3>2. body = g
      BY <3>1
    <3> QED
      BY <3>2 DEF Table
  <2> QED
    BY <1>1, <2>4
<1> QED
  BY <1>3, <1>4

\* And so one for all subsets of a finite set.
LEMMA TableExists ==
  ASSUME NEW fun, NEW S, IsFiniteSet(S)
  PROVE  \E g : Table(fun, SUBSET S, g)
<1>1. Cardinality(S) \in Nat /\ UpTo(S, Cardinality(S)) = SUBSET S
  BY FS_Subset, FS_CardinalityType DEF UpTo
<1>2. \E g : Table(fun, UpTo(S, Cardinality(S)), g)
  BY <1>1, TableUpTo
<1> QED
  BY <1>1, <1>2

\* Two tables agree wherever both are defined.
LEMMA TablesAgree ==
  ASSUME NEW fun, NEW S, NEW U, NEW g, NEW h, IsFiniteSet(S), S \subseteq U,
         Table(fun, SUBSET S, g), Table(fun, SUBSET U, h)
  PROVE  g[S] = h[S]
<1> DEFINE bad == {s \in SUBSET S : g[s] # h[s]}
<1> SUFFICES ASSUME bad # {} PROVE FALSE
  OBVIOUS
<1>1. bad \in SUBSET SUBSET S
  OBVIOUS
<1>2. PICK s \in bad : \A x \in s : s \ {x} \notin bad
  <2> HIDE DEF bad
  <2> QED
    BY <1>1, MinimalSubset
<1>3. s \in SUBSET S /\ s \in SUBSET U /\ g[s] # h[s]
  BY <1>2
<1>4. /\ g[s] = IF s = {} THEN 0 ELSE fun[Some(s)] + g[s \ {Some(s)}]
      /\ h[s] = IF s = {} THEN 0 ELSE fun[Some(s)] + h[s \ {Some(s)}]
  BY <1>3 DEF Table
<1>5. s # {}
  BY <1>3, <1>4
<1>6. g[s \ {Some(s)}] = h[s \ {Some(s)}]
  BY <1>2, <1>5, SomeIsIn
<1> QED
  BY <1>3, <1>4, <1>6

\* The sum is the table's last entry.
LEMMA SumIsTable ==
  ASSUME NEW fun, NEW S, IsFiniteSet(S)
  PROVE  \E g : Table(fun, SUBSET S, g) /\ SumFunctionOnSet(fun, S) = g[S]
<1>1. PICK it : /\ it = (CHOOSE g : g = [s \in SUBSET S |->
                                    IF s = {} THEN 0 ELSE fun[CHOOSE x \in s : TRUE]
                                                          + g[s \ {CHOOSE x \in s : TRUE}]])
                /\ SumFunctionOnSet(fun, S) = it[S]
  BY Zenon DEF SumFunctionOnSet, FoldFunctionOnSet, MapThenFoldSet
<1>2. it = CHOOSE g : Table(fun, SUBSET S, g)
  BY <1>1, Zenon DEF Table, Some
<1>3. Table(fun, SUBSET S, it)
  BY <1>2, TableExists, Zenon
<1> QED
  BY <1>1, <1>3

-----------------------------------------------------------------------------
(***************************************************************************)
(* What a sum is.                                                          *)
(***************************************************************************)

\* A sum takes its elements one at a time, in the order Some picks them.
LEMMA SumUnfold ==
  ASSUME NEW fun, NEW S, IsFiniteSet(S)
  PROVE  /\ S = {} => SumFunctionOnSet(fun, S) = 0
         /\ S # {} => SumFunctionOnSet(fun, S)
                        = fun[Some(S)] + SumFunctionOnSet(fun, S \ {Some(S)})
<1>1. PICK g : Table(fun, SUBSET S, g) /\ SumFunctionOnSet(fun, S) = g[S]
  BY SumIsTable
<1>2. g[S] = IF S = {} THEN 0 ELSE fun[Some(S)] + g[S \ {Some(S)}]
  BY <1>1 DEF Table
<1>3. ASSUME NEW U, U \subseteq S
      PROVE  SumFunctionOnSet(fun, U) = g[U]
  <2>1. IsFiniteSet(U)
    BY <1>3, FS_Subset
  <2>2. PICK h : Table(fun, SUBSET U, h) /\ SumFunctionOnSet(fun, U) = h[U]
    BY <2>1, SumIsTable
  <2>3. IsFiniteSet(U) /\ U \subseteq S /\ Table(fun, SUBSET U, h) /\ Table(fun, SUBSET S, g)
    BY <1>1, <1>3, <2>1, <2>2
  <2>4. h[U] = g[U]
    BY <2>3, TablesAgree, SMTT(30)
  <2> QED
    BY <2>2, <2>4
<1>4. SumFunctionOnSet(fun, S \ {Some(S)}) = g[S \ {Some(S)}]
  BY <1>3
<1> QED
  BY <1>1, <1>2, <1>4

\* Nothing sums to nothing.
LEMMA SumEmpty ==
  ASSUME NEW fun
  PROVE  SumFunctionOnSet(fun, {}) = 0
  BY SumUnfold, FS_EmptySet

\* A sum of integers is an integer, and one of natural numbers is natural.
LEMMA SumType ==
  ASSUME NEW S, IsFiniteSet(S), NEW fun, NEW N \in {Int, Nat}, \A x \in S : fun[x] \in N
  PROVE  SumFunctionOnSet(fun, S) \in N
<1> DEFINE bad == {s \in SUBSET S : SumFunctionOnSet(fun, s) \notin N}
<1> SUFFICES ASSUME bad # {} PROVE FALSE
  OBVIOUS
<1>1. bad \in SUBSET SUBSET S
  OBVIOUS
<1>2. PICK s \in bad : \A x \in s : s \ {x} \notin bad
  <2> HIDE DEF bad
  <2> QED
    BY <1>1, MinimalSubset
<1>3. s \in SUBSET S /\ IsFiniteSet(s) /\ SumFunctionOnSet(fun, s) \notin N
  BY <1>2, FS_Subset
<1>4. CASE s = {}
  BY <1>3, <1>4, SumEmpty
<1>5. CASE s # {}
  <2>1. Some(s) \in S /\ SumFunctionOnSet(fun, s \ {Some(s)}) \in N
    BY <1>2, <1>3, <1>5, SomeIsIn
  <2>2. SumFunctionOnSet(fun, s) = fun[Some(s)] + SumFunctionOnSet(fun, s \ {Some(s)})
    BY <1>3, <1>5, SumUnfold
  <2>3. fun[Some(s)] \in N
    BY <2>1
  <2> HIDE DEF bad
  <2>4. \A a, b \in N : a + b \in N
    OBVIOUS
  <2> QED
    BY <1>3, <2>1, <2>2, <2>3, <2>4
<1> QED
  BY <1>4, <1>5

\* The order of summation does not matter.
LEMMA SumRemove ==
  ASSUME NEW S, IsFiniteSet(S), NEW fun, \A x \in S : fun[x] \in Int, NEW x \in S
  PROVE  SumFunctionOnSet(fun, S) = fun[x] + SumFunctionOnSet(fun, S \ {x})
<1> DEFINE Off(s, y) == SumFunctionOnSet(fun, s) # fun[y] + SumFunctionOnSet(fun, s \ {y})
           bad == {s \in SUBSET S : \E y \in s : Off(s, y)}
<1> SUFFICES ASSUME bad # {} PROVE FALSE
  OBVIOUS
<1>1. bad \in SUBSET SUBSET S
  OBVIOUS
<1>2. PICK s \in bad : \A z \in s : s \ {z} \notin bad
  <2> HIDE DEF bad
  <2> QED
    BY <1>1, MinimalSubset
<1>3. PICK y \in s : Off(s, y)
  BY <1>2
<1> DEFINE c == Some(s)
<1>4. c \in s /\ s \in SUBSET S
  BY <1>2, <1>3, SomeIsIn
<1>5. \A t \in SUBSET S : IsFiniteSet(t) /\ SumFunctionOnSet(fun, t) \in Int
  <2>1. \A t \in SUBSET S : IsFiniteSet(t)
    BY FS_Subset
  <2> QED
    BY <2>1, SumType
<1>6. SumFunctionOnSet(fun, s) = fun[c] + SumFunctionOnSet(fun, s \ {c})
  BY <1>4, <1>5, SumUnfold
<1>7. c # y
  BY <1>3, <1>6
<1>8. ~Off(s \ {c}, y) /\ ~Off(s \ {y}, c)
  BY <1>2, <1>3, <1>4, <1>7
<1> DEFINE rest == (s \ {c}) \ {y}
<1>9. rest = (s \ {y}) \ {c}
  OBVIOUS
<1>10. /\ fun[c] \in Int /\ fun[y] \in Int /\ SumFunctionOnSet(fun, rest) \in Int
  BY <1>3, <1>4, <1>5
<1>11. /\ SumFunctionOnSet(fun, s \ {c}) = fun[y] + SumFunctionOnSet(fun, rest)
       /\ SumFunctionOnSet(fun, s \ {y}) = fun[c] + SumFunctionOnSet(fun, rest)
  BY <1>8, <1>9
<1>12. SumFunctionOnSet(fun, s) # fun[y] + SumFunctionOnSet(fun, s \ {y})
  BY <1>3
<1> HIDE DEF bad, Off, c, rest
<1> QED
  BY <1>6, <1>10, <1>11, <1>12

\* One more element adds its value.
LEMMA SumAdd ==
  ASSUME NEW S, IsFiniteSet(S), NEW x, x \notin S,
         NEW fun, \A y \in S \cup {x} : fun[y] \in Int
  PROVE  SumFunctionOnSet(fun, S \cup {x}) = fun[x] + SumFunctionOnSet(fun, S)
<1>1. IsFiniteSet(S \cup {x})
  BY FS_AddElement
<1>2. (S \cup {x}) \ {x} = S
  OBVIOUS
<1> QED
  BY <1>1, <1>2, SumRemove

\* Functions that agree on a set have the same sum over it.
LEMMA SumSame ==
  ASSUME NEW S, IsFiniteSet(S), NEW f, NEW g, \A x \in S : f[x] = g[x]
  PROVE  SumFunctionOnSet(f, S) = SumFunctionOnSet(g, S)
<1> DEFINE bad == {s \in SUBSET S : SumFunctionOnSet(f, s) # SumFunctionOnSet(g, s)}
<1> SUFFICES ASSUME bad # {} PROVE FALSE
  OBVIOUS
<1>1. bad \in SUBSET SUBSET S
  OBVIOUS
<1>2. PICK s \in bad : \A x \in s : s \ {x} \notin bad
  <2> HIDE DEF bad
  <2> QED
    BY <1>1, MinimalSubset
<1>3. IsFiniteSet(s) /\ s \in SUBSET S
  BY <1>2, FS_Subset
<1>4. s # {}
  BY <1>2, SumEmpty
<1>5. /\ Some(s) \in s
      /\ SumFunctionOnSet(f, s) = f[Some(s)] + SumFunctionOnSet(f, s \ {Some(s)})
      /\ SumFunctionOnSet(g, s) = g[Some(s)] + SumFunctionOnSet(g, s \ {Some(s)})
  BY <1>3, <1>4, SumUnfold, SomeIsIn
<1>6. SumFunctionOnSet(f, s \ {Some(s)}) = SumFunctionOnSet(g, s \ {Some(s)})
  BY <1>2, <1>5
<1> QED
  BY <1>2, <1>3, <1>5, <1>6

\* Changing the value of one element changes the sum by the difference.
LEMMA SumChange ==
  ASSUME NEW S, IsFiniteSet(S), NEW x \in S, NEW f, NEW g,
         \A y \in S : f[y] \in Int /\ g[y] \in Int, \A y \in S \ {x} : g[y] = f[y]
  PROVE  SumFunctionOnSet(g, S) = SumFunctionOnSet(f, S) + g[x] - f[x]
<1>1. IsFiniteSet(S \ {x})
  BY FS_Subset
<1>2. /\ SumFunctionOnSet(f, S) = f[x] + SumFunctionOnSet(f, S \ {x})
      /\ SumFunctionOnSet(g, S) = g[x] + SumFunctionOnSet(g, S \ {x})
  BY SumRemove
<1>3. SumFunctionOnSet(f, S \ {x}) = SumFunctionOnSet(g, S \ {x})
  BY <1>1, SumSame
<1>4. SumFunctionOnSet(f, S \ {x}) \in Int /\ f[x] \in Int /\ g[x] \in Int
  BY <1>1, SumType
<1> QED
  BY <1>2, <1>3, <1>4

-----------------------------------------------------------------------------
(***************************************************************************)
(* The sum over a ledger, the present one or the next.                     *)
(***************************************************************************)
Ledgers == [Calls -> Row]
Costs(rows) == [c \in Calls |-> rows[c].cost]
Total(rows, cs) == SumFunctionOnSet(Costs(rows), cs)

\* The amounts of a ledger are natural numbers.
LEMMA CostsAreNat ==
  ASSUME NEW rows \in Ledgers
  PROVE  \A c \in Calls : Costs(rows)[c] = rows[c].cost /\ rows[c].cost \in Nat
  BY DEF Costs, Ledgers, Row

\* What was spent is the sum over the present ledger, and then the next one.
LEMMA SpentIsTotal ==
  /\ \A cs : Spent(cs) = Total(ledger, cs)
  /\ Spent(Booked)' = Total(ledger', Booked')
  /\ \A e \in Episodes : Spent(Rows(e))' = Total(ledger', Rows(e)')
  BY DEF Spent, Total, Costs, Booked, Reserved, Rows

\* A total is a natural number.
LEMMA TotalType ==
  ASSUME NEW rows \in Ledgers, NEW cs \in SUBSET Calls, IsFiniteSet(cs)
  PROVE  Total(rows, cs) \in Nat
<1>1. \A c \in cs : Costs(rows)[c] \in Nat
  BY CostsAreNat
<1> QED
  BY <1>1, SumType DEF Total

\* Ledgers that agree on the amounts have the same total.
LEMMA TotalSame ==
  ASSUME NEW rows \in Ledgers, NEW next \in Ledgers,
         NEW cs \in SUBSET Calls, IsFiniteSet(cs), \A c \in cs : next[c] = rows[c]
  PROVE  Total(next, cs) = Total(rows, cs)
<1>1. \A c \in cs : Costs(next)[c] = Costs(rows)[c]
  BY CostsAreNat
<1> QED
  BY <1>1, SumSame DEF Total

\* A new row adds its amount.
LEMMA TotalAdds ==
  ASSUME NEW rows \in Ledgers, NEW next \in Ledgers, NEW cs \in SUBSET Calls, IsFiniteSet(cs),
         NEW c \in Calls, c \notin cs, \A d \in cs : next[d] = rows[d]
  PROVE  Total(next, cs \cup {c}) = Total(rows, cs) + next[c].cost
<1>1. \A d \in cs \cup {c} : Costs(next)[d] \in Int
  BY CostsAreNat
<1>2. Total(next, cs \cup {c}) = Costs(next)[c] + Total(next, cs)
  BY <1>1, SumAdd DEF Total
<1>3. Total(next, cs) \in Nat /\ Total(next, cs) = Total(rows, cs)
  BY TotalType, TotalSame
<1>4. Costs(next)[c] = next[c].cost /\ next[c].cost \in Nat
  BY CostsAreNat
<1> QED
  BY <1>2, <1>3, <1>4

\* A changed row changes the total by the difference.
LEMMA TotalChanges ==
  ASSUME NEW rows \in Ledgers, NEW next \in Ledgers, NEW cs \in SUBSET Calls, IsFiniteSet(cs),
         NEW c \in cs, \A d \in cs \ {c} : next[d] = rows[d]
  PROVE  Total(next, cs) = Total(rows, cs) + next[c].cost - rows[c].cost
<1>1. /\ \A d \in cs : Costs(rows)[d] \in Int /\ Costs(next)[d] \in Int
      /\ \A d \in cs \ {c} : Costs(next)[d] = Costs(rows)[d]
  BY CostsAreNat
<1>2. Total(next, cs) = Total(rows, cs) + Costs(next)[c] - Costs(rows)[c]
  BY <1>1, SumChange DEF Total
<1> QED
  BY <1>2, CostsAreNat

-----------------------------------------------------------------------------
(***************************************************************************)
(* What a step does to the ledger: it leaves it alone, reserves a call or  *)
(* settles the one in hand.                                                *)
(***************************************************************************)
InFlight == {"request", "send", "settle"}

\* The ledger rests, and what the worker holds it held before.
LedgerRests ==
  /\ ledger' = ledger
  /\ run'.pc \in InFlight => run.pc \in InFlight /\ run'.episode = run.episode
  /\ \/ run'.pc = "idle"
     \/ run.pc # "idle" /\ run'.episode = run.episode /\ run'.cost = run.cost
     \/ \E e \in Episodes : Create(e)
  /\ run'.pc = "response" => run' = run \/ run'.usage = None
  /\ run'.pc = "finish" => run' = run \/ run'.reason \notin RecoveryReasons

\* The call in hand is settled at what the provider said it cost.
Settles ==
  /\ run.pc = "settle" /\ run'.pc = "response" /\ run'.episode = run.episode
  /\ run'.call = run.call /\ run'.usage = run.usage
  /\ run.usage \in Charges
  /\ run'.cost = run.cost + run.usage - Reserve
  /\ ledger' = [ledger EXCEPT ![run.call] = SettledRow(@, run.usage)]

\* The worker's own reasons are not recovery's.
LEMMA OwnReasons ==
  /\ CapRefusal \cap RecoveryReasons = {} /\ ProviderBudget \cap RecoveryReasons = {}
  /\ LoopExit \cap RecoveryReasons = {}
  /\ {"INTERNAL_ERROR", "NATIVE_FAILURE", "PROVIDER_FAILURE", "PROVIDER_USAGE_UNKNOWN",
      "TOKEN_COUNT_UNAVAILABLE", "NATIVE_PUBLIC_LEGALITY_MISMATCH", "AGENT_ENDED",
      "OPERATOR_REQUEST"} \cap RecoveryReasons = {}
  BY DEF CapRefusal, ProviderBudget, LoopExit, RecoveryReasons

\* Going on keeps the episode and the amount, and so does going out.
Carries(next) == next.episode = run.episode /\ next.cost = run.cost

LEMMA Carried ==
  ASSUME TypeOK
  PROVE  /\ \A pc \in Working : LET next == [run EXCEPT !.pc = pc]
                               IN  next.pc = pc /\ Carries(next)
         /\ \A reason : /\ Exit(reason).pc = "finish" /\ Exit(reason).reason = reason
                        /\ Carries(Exit(reason))
  BY DEF TypeOK, RunOK, RunState, Carries, Exit

\* The worker moves on from a place where nothing is in flight, or goes out.
LEMMA RestsOnward ==
  ASSUME TypeOK, ledger' = ledger, run.pc # "idle", Carries(run'),
         run'.pc \in InFlight => run.pc \in InFlight,
         run'.pc = "response" => run'.usage = None,
         run'.pc = "finish" => run'.reason \notin RecoveryReasons
  PROVE  LedgerRests
  BY DEF LedgerRests, Carries

\* So does one that journals a line first.
LEMMA RestsLogging ==
  ASSUME TypeOK, ledger' = ledger, run.pc # "idle",
         NEW ev, NEW next, AppendThen(ev, next), Carries(next),
         next.pc \in InFlight => run.pc \in InFlight, next.pc # "response",
         next.pc = "finish" => next.reason \notin RecoveryReasons
  PROVE  LedgerRests
<1>1. /\ Exit("INTERNAL_ERROR").pc = "finish" /\ Carries(Exit("INTERNAL_ERROR"))
      /\ Exit("INTERNAL_ERROR").reason \notin RecoveryReasons
  BY Carried, OwnReasons
<1>2. "finish" \notin InFlight
  BY DEF InFlight
<1>3. run' = next \/ run' = Exit("INTERNAL_ERROR")
  BY AppendCases
<1> QED
  BY <1>1, <1>2, <1>3, RestsOnward

\* The exits the code takes on its own leave the ledger alone.
LEMMA RestsLeaving ==
  ASSUME TypeOK, ledger' = ledger, run.pc # "idle",
         NEW reason, reason \notin RecoveryReasons, run' = Exit(reason)
  PROVE  LedgerRests
<1>1. run'.pc = "finish" /\ run'.reason = reason /\ Carries(run')
  BY Carried
<1> QED
  BY <1>1, RestsOnward DEF InFlight

\* The steps of play between two calls.
LEMMA RestsPlaying ==
  ASSUME TypeOK,
         EndPlay \/ BeginDecision \/ CheckInput \/ RefuseCall \/ TakeOperation
         \/ ApplyAccepted \/ ApplyRejected \/ ApplyUnknown
  PROVE  LedgerRests
<1>1. ledger' = ledger /\ run.pc # "idle"
  BY DEF EndPlay, BeginDecision, CheckInput, RefuseCall, TakeOperation,
         ApplyAccepted, ApplyRejected, ApplyUnknown
<1>2. \A pc \in {"decide", "reserve", "intent", "reject", "commit"} :
        pc \in Working /\ pc \notin InFlight /\ pc \notin {"response", "finish"}
  BY DEF Working, Appending, InFlight
<1>3. \A reason : run' = Exit(reason) /\ reason \notin RecoveryReasons => LedgerRests
  BY <1>1, RestsLeaving
<1>4. ASSUME NEW pc \in {"decide", "intent", "reject"}, run' = [run EXCEPT !.pc = pc]
      PROVE  LedgerRests
  <2>1. run'.pc = pc /\ Carries(run')
    BY <1>2, <1>4, Carried
  <2> QED
    BY <1>1, <1>2, <2>1, RestsOnward
<1>5. CASE EndPlay
  <2>1. PICK reason \in LoopExit : run' = Exit(reason)
    BY <1>5 DEF EndPlay
  <2> QED
    BY <1>3, <2>1, OwnReasons
<1>6. CASE BeginDecision
  BY <1>4, <1>6 DEF BeginDecision
<1>7. CASE CheckInput
  <2>1. \/ run' = [run EXCEPT !.pc = "reserve", !.attempt = 0]
        \/ \E reason \in ProviderBudget \cup {"TOKEN_COUNT_UNAVAILABLE"} : run' = Exit(reason)
    BY <1>7 DEF CheckInput
  <2>2. CASE run' = [run EXCEPT !.pc = "reserve", !.attempt = 0]
    <3>1. run'.pc = "reserve" /\ Carries(run')
      BY <2>2 DEF TypeOK, RunOK, RunState, Carries
    <3> QED
      BY <1>1, <1>2, <3>1, RestsOnward
  <2> QED
    BY <1>3, <2>1, <2>2, OwnReasons
<1>8. CASE RefuseCall
  <2>1. PICK reason \in ProviderBudget \cup CapRefusal : run' = Exit(reason)
    BY <1>8 DEF RefuseCall
  <2> QED
    BY <1>3, <2>1, OwnReasons
<1>9. CASE TakeOperation
  <2>1. \/ run' = [run EXCEPT !.pc = "decide"] \/ run' = [run EXCEPT !.pc = "intent"]
        \/ run' = Exit("AGENT_ENDED") \/ run' = Exit("INTERNAL_ERROR")
    BY <1>9 DEF TakeOperation
  <2> QED
    BY <1>3, <1>4, <2>1, OwnReasons
<1>10. CASE ApplyAccepted
  <2>1. run'.pc = "commit" /\ Carries(run')
    BY <1>10 DEF ApplyAccepted, TypeOK, RunOK, RunState, Carries
  <2> QED
    BY <1>1, <1>2, <2>1, RestsOnward
<1>11. CASE ApplyRejected
  BY <1>4, <1>11 DEF ApplyRejected
<1>12. CASE ApplyUnknown
  BY <1>3, <1>12, OwnReasons DEF ApplyUnknown
<1> QED
  BY <1>5, <1>6, <1>7, <1>8, <1>9, <1>10, <1>11, <1>12

\* The steps that journal a line.
LEMMA RestsWriting ==
  ASSUME TypeOK,
         LogStart \/ LogRequest \/ SendFails \/ LogResponse \/ LogCommit \/ LogRejected
         \/ \E m \in Moves : LogIntent(m)
  PROVE  LedgerRests
<1>1. ledger' = ledger
  BY InHand DEF LogStart, LogRequest, SendFails, RetainedRow, LogResponse, LogCommit,
                LogRejected, LogIntent, TypeOK, DiskOK
<1>2. run.pc # "idle"
  BY DEF LogStart, LogRequest, SendFails, LogResponse, LogCommit, LogRejected, LogIntent
<1>3. ASSUME NEW ev, NEW pc \in {"loop", "send", "parse"}, AppendThen(ev, [run EXCEPT !.pc = pc]),
             pc \in InFlight => run.pc \in InFlight
      PROVE  LedgerRests
  <2>1. pc \in Working /\ pc \notin {"response", "finish"}
    BY DEF Working, Appending
  <2> DEFINE next == [run EXCEPT !.pc = pc]
  <2>2. next.pc = pc /\ Carries(next)
    BY <2>1, Carried
  <2>3. AppendThen(ev, next)
    BY <1>3
  <2> HIDE DEF next
  <2> QED
    BY <1>1, <1>2, <1>3, <2>1, <2>2, <2>3, RestsLogging
<1>4. ASSUME NEW ev, NEW reason, reason \notin RecoveryReasons, AppendThen(ev, Exit(reason))
      PROVE  LedgerRests
  <2>1. /\ Exit(reason).pc = "finish" /\ Exit(reason).reason = reason /\ Carries(Exit(reason))
        /\ "finish" \notin InFlight
    BY Carried DEF InFlight
  <2> QED
    BY <1>1, <1>2, <1>4, <2>1, RestsLogging
<1>5. {"loop", "parse"} \cap InFlight = {} /\ "request" \in InFlight
  BY DEF InFlight
<1>6. CASE LogStart
  BY <1>3, <1>5, <1>6 DEF LogStart
<1>7. CASE LogRequest
  BY <1>3, <1>5, <1>7 DEF LogRequest
<1>8. CASE SendFails
  <2>1. PICK next \in AfterFailure : AppendThen(Event("provider_error", run.call), next)
    BY <1>8 DEF SendFails
  <2>2. CASE next = [run EXCEPT !.pc = "reserve", !.attempt = @ + 1]
    <3>1. next.pc = "reserve" /\ Carries(next) /\ "reserve" \notin InFlight
      BY <2>2 DEF TypeOK, RunOK, RunState, Carries, InFlight
    <3> QED
      BY <1>1, <1>2, <2>1, <3>1, RestsLogging
  <2>3. CASE next \in {Exit("PROVIDER_FAILURE"), Exit("OPERATOR_REQUEST")}
    BY <1>4, <2>1, <2>3, OwnReasons
  <2> QED
    BY <2>1, <2>2, <2>3 DEF AfterFailure
<1>9. CASE LogResponse
  <2>1. \/ AppendThen(Response(run.call, run.usage), Exit("PROVIDER_USAGE_UNKNOWN"))
        \/ AppendThen(Response(run.call, run.usage), [run EXCEPT !.pc = "parse"])
    BY <1>9 DEF LogResponse
  <2> QED
    BY <1>3, <1>4, <1>5, <2>1, OwnReasons
<1>10. CASE LogCommit
  BY <1>3, <1>5, <1>10 DEF LogCommit
<1>11. CASE LogRejected
  BY <1>4, <1>11, OwnReasons DEF LogRejected
<1>12. ASSUME NEW m \in Moves, LogIntent(m) PROVE LedgerRests
  <2> DEFINE next == [run EXCEPT !.pc = "apply", !.move = m]
  <2>1. next.pc = "apply" /\ Carries(next) /\ "apply" \notin InFlight
    BY DEF TypeOK, RunOK, RunState, Carries, InFlight
  <2>2. AppendThen(Event("action_intent", m), next)
    BY <1>12 DEF LogIntent
  <2> HIDE DEF next
  <2> QED
    BY <1>1, <1>2, <2>1, <2>2, RestsLogging
<1> QED
  BY <1>6, <1>7, <1>8, <1>9, <1>10, <1>11, <1>12

\* A reply's charge goes to the row, an unknown one leaves the reservation.
LEMMA SettleShape ==
  ASSUME TypeOK, SettleCall
  PROVE  LedgerRests \/ Settles
<1>1. run.pc = "settle" /\ run.call \in Calls
  BY InHand DEF SettleCall
<1>2. CASE run.usage = None
  <2>1. ledger' = ledger
    BY <1>1, <1>2 DEF SettleCall, RetainedRow, TypeOK, DiskOK
  <2>2. run'.pc = "response" /\ run'.usage = None /\ Carries(run')
    BY <1>2 DEF SettleCall, TypeOK, RunOK, RunState, Carries
  <2> QED
    BY <1>1, <2>1, <2>2, RestsOnward DEF InFlight
<1>3. CASE run.usage # None
  BY <1>1, <1>3 DEF SettleCall, Settles, TypeOK, RunOK, RunState
<1> QED
  BY <1>2, <1>3

\* Every step leaves the ledger alone, reserves or settles.
LEMMA MoneyShapes ==
  ASSUME TypeOK, IInv, [Next]_vars
  PROVE  LedgerRests \/ Settles \/ \E c \in Calls : ReserveCall(c)
<1>1. ASSUME ledger' = ledger, run' = run PROVE LedgerRests
  BY <1>1 DEF LedgerRests
<1>2. ASSUME ledger' = ledger, run' = Idle PROVE LedgerRests
  BY <1>2, RestTypes DEF LedgerRests, InFlight
<1>3. ASSUME NEW e \in Episodes, Create(e) PROVE LedgerRests
  <2>1. ledger' = ledger /\ run'.pc = "start"
    BY <1>3, CreateCounts DEF Create
  <2> QED
    BY <1>3, <2>1 DEF LedgerRests, InFlight
<1>4. CASE LaunchFails \/ Finish \/ Crash
  BY <1>2, <1>4 DEF LaunchFails, Finish, Crash
<1>5. CASE RecoverNext \/ RecoverDies \/ RequestStop \/ UNCHANGED vars
  BY <1>1, <1>5 DEF RecoverNext, RecoverStart, RecoverRead, RecoverWrite, RecoverDone,
                    RecoverDies, RequestStop, vars
<1>6. CASE SendAnswered
  <2>1. PICK usage : run' = [run EXCEPT !.pc = "settle", !.usage = usage]
    BY <1>6 DEF SendAnswered
  <2>2. run'.pc = "settle" /\ Carries(run')
    BY <2>1 DEF TypeOK, RunOK, RunState, Carries
  <2> QED
    BY <1>6, <2>2, RestsOnward DEF SendAnswered, InFlight
<1> QED
  BY <1>3, <1>4, <1>5, <1>6, RestsPlaying, RestsWriting, SettleShape DEF Next, WorkerNext

-----------------------------------------------------------------------------
(***************************************************************************)
(* The caps.                                                               *)
(***************************************************************************)

\* A set of rows is within a cap, by a ledger.
InCap(rows, cs, cap) ==
  cap = Uncapped \/ \E o \in {0} \cup {rows[c].cost - Reserve : c \in cs} : Total(rows, cs) <= cap + o
Below(rows, cs, cap) == cap = Uncapped \/ Total(rows, cs) <= cap

LEMMA CapsInTotals ==
  /\ \A cs, cap : (Within(cs, cap) <=> InCap(ledger, cs, cap))
                  /\ (Affordable(cs, cap) <=> Below(ledger, cs, cap))
  /\ \A cap : (Within(Booked, cap)' <=> InCap(ledger', Booked', cap))
              /\ (Affordable(Booked, cap)' <=> Below(ledger', Booked', cap))
  /\ \A cap : \A e \in Episodes :
       /\ Within(Rows(e), cap)' <=> InCap(ledger', Rows(e)', cap)
       /\ Affordable(Rows(e), cap)' <=> Below(ledger', Rows(e)', cap)
  BY DEF Within, Affordable, InCap, Below, Overages, Spent, Total, Costs, Booked, Reserved, Rows

\* What is below a cap is within it.
LEMMA BelowIsInCap ==
  ASSUME NEW rows, NEW cs, NEW cap \in Nat \cup {Uncapped}, Total(rows, cs) \in Nat,
         Below(rows, cs, cap)
  PROVE  InCap(rows, cs, cap)
<1>1. cap # Uncapped => cap + 0 = cap
  OBVIOUS
<1> QED
  BY <1>1 DEF Below, InCap

\* Rows that did not change are as much within a cap as they were.
LEMMA CapRests ==
  ASSUME NEW rows \in Ledgers, NEW next \in Ledgers, NEW cs \in SUBSET Calls, IsFiniteSet(cs),
         \A c \in cs : next[c] = rows[c], NEW cap
  PROVE  /\ InCap(rows, cs, cap) => InCap(next, cs, cap)
         /\ Below(rows, cs, cap) => Below(next, cs, cap)
<1>1. Total(next, cs) = Total(rows, cs)
  BY TotalSame
<1>2. {next[c].cost - Reserve : c \in cs} = {rows[c].cost - Reserve : c \in cs}
  OBVIOUS
<1> QED
  BY <1>1, <1>2 DEF InCap, Below

\* A reservation the cap can afford stays below it.
LEMMA CapReserves ==
  ASSUME NEW rows \in Ledgers, NEW next \in Ledgers, NEW cs \in SUBSET Calls, IsFiniteSet(cs),
         NEW c \in Calls, c \notin cs, \A d \in cs : next[d] = rows[d], next[c].cost = Reserve,
         NEW cap \in Nat \cup {Uncapped}, CanAfford(Total(rows, cs), cap)
  PROVE  Below(next, cs \cup {c}, cap) /\ InCap(next, cs \cup {c}, cap)
<1>1. Total(next, cs \cup {c}) = Total(rows, cs) + Reserve
  BY TotalAdds
<1>2. Below(next, cs \cup {c}, cap)
  BY <1>1 DEF Below, CanAfford
<1>3. Total(next, cs \cup {c}) \in Nat
  BY <1>1, TotalType, MoneyAssumption
<1> QED
  BY <1>2, <1>3, BelowIsInCap

\* A reservation below the cap, once settled, exceeds it by its own overage.
LEMMA CapSettles ==
  ASSUME NEW rows \in Ledgers, NEW next \in Ledgers, NEW cs \in SUBSET Calls, IsFiniteSet(cs),
         NEW c \in cs, \A d \in cs \ {c} : next[d] = rows[d], rows[c].cost = Reserve,
         NEW cap \in Nat \cup {Uncapped}, Below(rows, cs, cap)
  PROVE  InCap(next, cs, cap)
<1> SUFFICES ASSUME cap # Uncapped
             PROVE  Total(next, cs) <= cap + (next[c].cost - Reserve)
  BY DEF InCap
<1>1. Total(next, cs) = Total(rows, cs) + next[c].cost - Reserve
  BY TotalChanges
<1>2. Total(rows, cs) \in Nat /\ next[c].cost \in Nat /\ Reserve \in Nat /\ cap \in Nat
  BY TotalType, CostsAreNat, MoneyAssumption
<1>3. Total(rows, cs) <= cap
  BY DEF Below
<1> QED
  BY <1>1, <1>2, <1>3

\* The rows of an episode are among the booked ones, and both are finite.
LEMMA BookedRows ==
  ASSUME IsFiniteSet(Booked)
  PROVE  /\ Booked \in SUBSET Calls
         /\ \A e \in Episodes : Rows(e) \in SUBSET Calls /\ IsFiniteSet(Rows(e))
<1>1. \A e \in Episodes : Rows(e) \subseteq Booked
  BY NoneAssumption DEF Rows, Booked, Reserved
<1> QED
  BY <1>1, FS_Subset DEF Rows, Booked

LEMMA CapsInit == Init => CapsInHand /\ SpendWithinCaps
<1> SUFFICES ASSUME Init PROVE CapsInHand /\ SpendWithinCaps
  OBVIOUS
<1>1. Booked = {} /\ \A e \in Episodes : Rows(e) = {}
  BY NoneAssumption DEF Init, Booked, Reserved, Rows, NoRow
<1>2. run.pc = "idle"
  BY RestTypes DEF Init
<1>3. Spent({}) = 0
  BY SumEmpty DEF Spent
<1>4. \A cap \in Nat \cup {Uncapped} : Within({}, cap)
  <2> SUFFICES ASSUME NEW cap \in Nat \cup {Uncapped}, cap # Uncapped PROVE Within({}, cap)
    BY DEF Within
  <2>1. 0 \in Overages({}) /\ Spent({}) <= cap + 0
    BY <1>3 DEF Overages
  <2> QED
    BY <2>1 DEF Within
<1> QED
  BY <1>1, <1>2, <1>4, FS_EmptySet, MoneyAssumption DEF CapsInHand, SpendWithinCaps

\* A new row: what the two budget checks saw before it was written.
LEMMA CapsReserve ==
  ASSUME TypeOK, TypeOK', IInv, CapsInHand, SpendWithinCaps, NEW c \in Calls, ReserveCall(c)
  PROVE  CapsInHand' /\ SpendWithinCaps'
<1>1. PICK here \in Episodes : run.episode = here /\ run'.episode = here
  BY InHand DEF ReserveCall, TypeOK, RunOK, RunState
<1>2. /\ ledger \in Ledgers /\ ledger' \in Ledgers
      /\ EpisodeCap \in Nat \cup {Uncapped} /\ CampaignCap \in Nat \cup {Uncapped}
  BY MoneyAssumption DEF TypeOK, DiskOK, Ledgers
<1>3. /\ ledger[c].episode = None /\ ledger' = [ledger EXCEPT ![c] = ReservedRow(here)]
      /\ ReservedRow(here).episode = here /\ ReservedRow(here).cost = Reserve
  BY <1>1 DEF ReserveCall, Reserved, ReservedRow
<1>4. /\ c \notin Booked /\ Booked' = Booked \cup {c}
      /\ c \notin Rows(here) /\ Rows(here)' = Rows(here) \cup {c}
      /\ \A e \in Episodes \ {here} : Rows(e)' = Rows(e) /\ c \notin Rows(e)
      /\ \A d \in Calls \ {c} : ledger'[d] = ledger[d]
      /\ ledger'[c].cost = Reserve
  BY <1>2, <1>3, NoneAssumption DEF Booked, Reserved, Rows, Ledgers
<1>5. /\ IsFiniteSet(Booked) /\ Booked \in SUBSET Calls
      /\ \A e \in Episodes : Rows(e) \in SUBSET Calls /\ IsFiniteSet(Rows(e))
  BY BookedRows DEF CapsInHand
<1>6. CanAfford(Total(ledger, Rows(here)), EpisodeCap) /\ CanAfford(Total(ledger, Booked), CampaignCap)
  BY <1>1, SpentIsTotal DEF ReserveCall, CapRefusal
<1>7. Below(ledger', Booked', CampaignCap) /\ InCap(ledger', Booked', CampaignCap)
  BY <1>2, <1>4, <1>5, <1>6, CapReserves
<1>8. Below(ledger', Rows(here)', EpisodeCap) /\ InCap(ledger', Rows(here)', EpisodeCap)
  BY <1>2, <1>4, <1>5, <1>6, CapReserves
<1>9. ASSUME NEW e \in Episodes, e # here PROVE InCap(ledger', Rows(e)', EpisodeCap)
  <2>1. InCap(ledger, Rows(e), EpisodeCap)
    BY CapsInTotals DEF SpendWithinCaps
  <2>2. \A d \in Rows(e) : ledger'[d] = ledger[d]
    BY <1>4, <1>5, <1>9
  <2>3. InCap(ledger', Rows(e), EpisodeCap)
    BY <1>2, <1>5, <2>1, <2>2, CapRests
  <2> QED
    BY <1>4, <1>9, <2>3
<1>10. IsFiniteSet(Booked')
  BY <1>4, <1>5, FS_AddElement
<1>11. Affordable(Booked, CampaignCap)' /\ Affordable(Rows(here), EpisodeCap)'
  BY <1>7, <1>8, CapsInTotals
<1>12. Affordable(Rows(run.episode), EpisodeCap)'
  BY <1>1, <1>11 DEF Affordable, Spent, Rows
<1>13. SpendWithinCaps'
  BY <1>7, <1>8, <1>9, CapsInTotals DEF SpendWithinCaps
<1> QED
  BY <1>10, <1>11, <1>12, <1>13 DEF CapsInHand

\* A settled row: the call in hand was below both caps until now.
LEMMA CapsSettle ==
  ASSUME TypeOK, TypeOK', IInv, CapsInHand, SpendWithinCaps, Settles
  PROVE  CapsInHand' /\ SpendWithinCaps'
<1> DEFINE c == run.call
<1>1. PICK here \in Episodes : run.episode = here
  BY InHand DEF Settles
<1>2. /\ ledger \in Ledgers /\ ledger' \in Ledgers
      /\ EpisodeCap \in Nat \cup {Uncapped} /\ CampaignCap \in Nat \cup {Uncapped}
  BY MoneyAssumption DEF TypeOK, DiskOK, Ledgers
<1>3. c \in Calls /\ c \in Rows(here) /\ c \in Booked /\ ~ledger[c].settled
  BY <1>1, InHand, NoneAssumption DEF Settles, IInv, CallInHand, Rows, Booked, Reserved
<1>4. ledger[c].cost = Reserve
  BY <1>3 DEF IInv, RowsExplainRequests, Booked
<1>5. /\ ledger'[c].episode = ledger[c].episode
      /\ \A d \in Calls \ {c} : ledger'[d] = ledger[d]
  BY <1>2, <1>3 DEF Settles, SettledRow, Ledgers, Row
<1>6. Booked' = Booked /\ \A e \in Episodes : Rows(e)' = Rows(e)
  BY <1>5 DEF Booked, Reserved, Rows
<1>7. /\ IsFiniteSet(Booked) /\ Booked \in SUBSET Calls
      /\ \A e \in Episodes : Rows(e) \in SUBSET Calls /\ IsFiniteSet(Rows(e))
  BY BookedRows DEF CapsInHand
<1>8. Below(ledger, Booked, CampaignCap) /\ Below(ledger, Rows(here), EpisodeCap)
  BY <1>1, CapsInTotals DEF Settles, CapsInHand
<1>9. InCap(ledger', Booked, CampaignCap)
  BY <1>2, <1>3, <1>4, <1>5, <1>7, <1>8, CapSettles
<1>10. InCap(ledger', Rows(here), EpisodeCap)
  BY <1>2, <1>3, <1>4, <1>5, <1>7, <1>8, CapSettles
<1>11. ASSUME NEW e \in Episodes, e # here PROVE InCap(ledger', Rows(e), EpisodeCap)
  <2>1. InCap(ledger, Rows(e), EpisodeCap)
    BY CapsInTotals DEF SpendWithinCaps
  <2>2. \A d \in Rows(e) : d # c /\ ledger'[d] = ledger[d]
    BY <1>3, <1>5, <1>11 DEF Rows
  <2> QED
    BY <1>2, <1>7, <2>1, <2>2, CapRests
<1>12. SpendWithinCaps'
  BY <1>6, <1>9, <1>10, <1>11, CapsInTotals DEF SpendWithinCaps
<1> QED
  BY <1>6, <1>7, <1>12 DEF CapsInHand, Settles

\* Nothing changes while the ledger rests.
LEMMA CapsRest ==
  ASSUME TypeOK, CapsInHand, SpendWithinCaps, LedgerRests
  PROVE  CapsInHand' /\ SpendWithinCaps'
<1>1. ledger' = ledger /\ (run'.pc \in InFlight => run.pc \in InFlight /\ run'.episode = run.episode)
  BY DEF LedgerRests
<1>2. SpendWithinCaps'
  BY <1>1 DEF SpendWithinCaps, Within, Overages, Spent, Booked, Reserved, Rows
<1>3. IsFiniteSet(Booked)'
  BY <1>1 DEF CapsInHand, Booked, Reserved
<1>4. ASSUME run'.pc \in InFlight
      PROVE  Affordable(Booked, CampaignCap)' /\ Affordable(Rows(run.episode), EpisodeCap)'
  <2>1. Affordable(Booked, CampaignCap) /\ Affordable(Rows(run.episode), EpisodeCap)
    BY <1>1, <1>4 DEF CapsInHand, InFlight
  <2> QED
    BY <1>1, <1>4, <2>1 DEF Affordable, Spent, Booked, Reserved, Rows
<1> QED
  BY <1>2, <1>3, <1>4 DEF CapsInHand, InFlight

\* What is in hand stays below the caps until it is settled.
THEOREM CapsInductive == Spec => [](CapsInHand /\ SpendWithinCaps)
<1>1. TypeOK /\ TypeOK' /\ IInv /\ CapsInHand /\ SpendWithinCaps /\ [Next]_vars
        => CapsInHand' /\ SpendWithinCaps'
  BY MoneyShapes, CapsReserve, CapsSettle, CapsRest
<1> QED
  BY <1>1, CapsInit, Inductive, PTL DEF Spec

\* Neither the campaign's nor an episode's cap is exceeded by more than what
\* one of its calls cost beyond its reservation, through every failure, crash,
\* stop and recovery (Spending.reserve).
THEOREM CapsKept == Spec => []SpendWithinCaps
  BY CapsInductive, PTL

-----------------------------------------------------------------------------
(***************************************************************************)
(* The worker's own sum.                                                   *)
(***************************************************************************)

LEMMA SpentInit == Init => SpentInHand
<1>1. Init => run.pc = "idle"
  BY RestTypes DEF Init
<1> QED
  BY <1>1 DEF SpentInHand

\* The worker's sum follows its rows through every shape.
LEMMA SpentStep ==
  ASSUME TypeOK, TypeOK', IInv, CapsInHand, SpentInHand, [Next]_vars
  PROVE  SpentInHand'
<1>1. /\ ledger \in Ledgers /\ ledger' \in Ledgers
      /\ \A e \in Episodes : Rows(e) \in SUBSET Calls /\ IsFiniteSet(Rows(e))
  BY BookedRows DEF TypeOK, DiskOK, Ledgers, CapsInHand
<1>2. ASSUME NEW here \in Episodes, run'.episode = here
      PROVE  Spent(Rows(run.episode))' = Total(ledger', Rows(here)')
  BY <1>2 DEF Spent, Total, Costs, Rows
<1>3. CASE LedgerRests
  <2>1. ledger' = ledger /\ \A e \in Episodes : Rows(e)' = Rows(e)
    BY <1>3 DEF LedgerRests, Rows
  <2>2. run'.pc # "idle" => run'.cost = Spent(Rows(run.episode))'
    <3>1. CASE run.pc # "idle" /\ run'.episode = run.episode /\ run'.cost = run.cost
      <4>1. PICK here \in Episodes : run.episode = here /\ run'.episode = here
        BY <3>1, InHand
      <4>2. run.cost = Total(ledger, Rows(here))
        BY <3>1, <4>1, SpentIsTotal DEF SpentInHand
      <4> QED
        BY <1>2, <2>1, <3>1, <4>1, <4>2
    <3>2. ASSUME NEW e \in Episodes, Create(e) PROVE run'.cost = Spent(Rows(run.episode))'
      <4>1. run'.cost = 0 /\ run'.episode = e
        BY <3>2 DEF Create, Idle
      <4>2. Rows(e) = {}
        BY <3>2, CreateCounts
      <4> QED
        BY <1>2, <2>1, <4>1, <4>2, SumEmpty DEF Total
    <3> QED
      BY <1>3, <3>1, <3>2 DEF LedgerRests
  <2>3. run'.pc = "response" /\ run'.usage # None =>
          ledger'[run'.call].settled /\ ledger'[run'.call].cost = run'.usage
    BY <1>3, <2>1 DEF LedgerRests, SpentInHand
  <2>4. run'.pc = "finish" => run'.reason \notin RecoveryReasons
    BY <1>3 DEF LedgerRests, SpentInHand
  <2> QED
    BY <2>2, <2>3, <2>4 DEF SpentInHand
<1>4. CASE Settles
  <2>1. PICK here \in Episodes : run.episode = here /\ run'.episode = here
    BY <1>4, InHand DEF Settles
  <2> DEFINE c == run.call
  <2>2. c \in Calls /\ c \in Rows(here) /\ ~ledger[c].settled
    BY <1>4, <2>1, InHand DEF Settles, IInv, CallInHand
  <2>3. ledger[c].cost = Reserve
    BY <2>2, NoneAssumption DEF IInv, RowsExplainRequests, Rows, Reserved
  <2>4. /\ ledger'[c].episode = ledger[c].episode
        /\ ledger'[c].settled /\ ledger'[c].cost = run.usage
        /\ \A d \in Calls \ {c} : ledger'[d] = ledger[d]
    BY <1>1, <1>4, <2>2 DEF Settles, SettledRow, Ledgers, Row
  <2>5. Rows(here)' = Rows(here)
    BY <2>4 DEF Rows
  <2>6. Total(ledger', Rows(here)) = Total(ledger, Rows(here)) + ledger'[c].cost - ledger[c].cost
    BY <1>1, <2>2, <2>4, TotalChanges
  <2>7. run.cost = Total(ledger, Rows(here))
    BY <1>4, <2>1, SpentIsTotal DEF SpentInHand, Settles
  <2>8. run'.cost = Spent(Rows(run.episode))'
    BY <1>2, <1>4, <2>1, <2>3, <2>4, <2>5, <2>6, <2>7 DEF Settles
  <2> QED
    BY <1>4, <2>4, <2>8 DEF SpentInHand, Settles
<1>5. ASSUME NEW c \in Calls, ReserveCall(c) PROVE SpentInHand'
  <2>1. PICK here \in Episodes : run.episode = here /\ run'.episode = here
    BY <1>5, InHand DEF ReserveCall, TypeOK, RunOK, RunState
  <2>2. run.pc # "idle" /\ run'.pc = "request" /\ run'.cost = run.cost + Reserve
    BY <1>5 DEF ReserveCall, TypeOK, RunOK, RunState
  <2>3. /\ ledger[c].episode = None /\ ledger' = [ledger EXCEPT ![c] = ReservedRow(here)]
        /\ ReservedRow(here).episode = here /\ ReservedRow(here).cost = Reserve
    BY <1>5, <2>1 DEF ReserveCall, Reserved, ReservedRow
  <2>4. /\ c \notin Rows(here) /\ Rows(here)' = Rows(here) \cup {c}
        /\ \A d \in Calls \ {c} : ledger'[d] = ledger[d]
        /\ ledger'[c].cost = Reserve
    BY <1>1, <2>3, NoneAssumption DEF Rows, Ledgers
  <2>5. Total(ledger', Rows(here) \cup {c}) = Total(ledger, Rows(here)) + Reserve
    BY <1>1, <2>4, TotalAdds
  <2>6. run.cost = Total(ledger, Rows(here))
    BY <2>1, <2>2, SpentIsTotal DEF SpentInHand
  <2>7. run'.cost = Spent(Rows(run.episode))'
    BY <1>2, <2>1, <2>2, <2>4, <2>5, <2>6
  <2> QED
    BY <2>2, <2>7 DEF SpentInHand
<1> QED
  BY <1>3, <1>4, <1>5, MoneyShapes

-----------------------------------------------------------------------------
(***************************************************************************)
(* A journaled response repeats its row.                                   *)
(***************************************************************************)

\* A response appears in a journal only as the worker logs the one in hand.
LEMMA NewResponse ==
  ASSUME TypeOK, [Next]_vars, NEW e \in Episodes, NEW ev \in journal'[e],
         ev \notin journal[e], ev.kind = "provider_response"
  PROVE  LogResponse /\ e = run.episode /\ ev = Response(run.call, run.usage)
<1>1. ASSUME NEW x, NEW next, AppendThen(x, next), run.pc # "idle"
      PROVE  ev = x /\ e = run.episode
  <2>1. journal' = [journal EXCEPT ![run.episode] = @ \cup {x}]
    BY <1>1, AppendCases
  <2> QED
    BY <1>1, <2>1, LoggedEvidence
<1>2. CASE LogStart
  BY <1>1, <1>2 DEF LogStart, Start, Event
<1>3. CASE LogRequest
  BY <1>1, <1>3 DEF LogRequest, Event
<1>4. CASE SendFails
  <2>1. run.pc # "idle" /\ \E next : AppendThen(Event("provider_error", run.call), next)
    BY <1>4 DEF SendFails
  <2> QED
    BY <1>1, <2>1 DEF Event
<1>5. CASE LogResponse
  BY <1>1, <1>5 DEF LogResponse
<1>6. ASSUME NEW m \in Moves, LogIntent(m) PROVE FALSE
  BY <1>1, <1>6 DEF LogIntent, Event
<1>7. CASE LogCommit
  BY <1>1, <1>7 DEF LogCommit, Event
<1>8. CASE LogRejected
  BY <1>1, <1>8 DEF LogRejected, Event
<1>9. CASE journal' = journal
  BY <1>9
<1> QED
  BY <1>2, <1>3, <1>4, <1>5, <1>6, <1>7, <1>8, <1>9
  DEF Next, WorkerNext, RecoverNext, vars, Create, LaunchFails, EndPlay, BeginDecision,
      CheckInput, RefuseCall, ReserveCall, SendAnswered, SettleCall, TakeOperation,
      ApplyAccepted, ApplyRejected, ApplyUnknown, Finish, RecoverStart, RecoverRead,
      RecoverWrite, RecoverDone, RequestStop, Crash, RecoverDies

\* The row of a priced response is settled for good, at that price.
LEMMA ResponsesStep ==
  ASSUME TypeOK, IInv, SpentInHand, ResponsesMatchRows, [Next]_vars
  PROVE  ResponsesMatchRows'
<1> SUFFICES ASSUME NEW e \in Episodes, NEW ev \in journal'[e],
                    ev.kind = "provider_response", ev.cost # None
             PROVE  /\ ev.id \in Calls /\ ledger'[ev.id].episode = e
                    /\ ledger'[ev.id].settled /\ ledger'[ev.id].cost = ev.cost
  BY DEF ResponsesMatchRows, Responses, Rows
<1>1. CASE ev \in journal[e]
  <2>1. /\ ev.id \in Calls /\ ledger[ev.id].episode = e
        /\ ledger[ev.id].settled /\ ledger[ev.id].cost = ev.cost
    BY <1>1 DEF ResponsesMatchRows, Responses, Rows
  <2>2. RowKept(ev.id)
    BY <2>1, NoneAssumption, RefundStep DEF Reserved
  <2> QED
    BY <2>1, <2>2 DEF RowKept
<1>2. CASE ev \notin journal[e]
  <2>1. LogResponse /\ e = run.episode /\ ev = Response(run.call, run.usage)
    BY <1>2, NewResponse
  <2>2. ledger' = ledger /\ run.pc = "response" /\ run.call \in Rows(e)
    BY <2>1 DEF LogResponse, IInv, CallInHand
  <2>3. ev.id = run.call /\ ev.cost = run.usage
    BY <2>1 DEF Response
  <2> QED
    BY <2>2, <2>3 DEF SpentInHand, Rows
<1> QED
  BY <1>1, <1>2

\* The unconditional part of the strengthening.
THEOREM MoneyInductive == Spec => [](SpentInHand /\ ResponsesMatchRows)
<1>1. Init => ResponsesMatchRows
  BY DEF Init, ResponsesMatchRows, Responses
<1>2. TypeOK /\ TypeOK' /\ IInv /\ CapsInHand /\ SpentInHand /\ ResponsesMatchRows /\ [Next]_vars
        => SpentInHand' /\ ResponsesMatchRows'
  BY SpentStep, ResponsesStep
<1> QED
  BY <1>1, <1>2, SpentInit, CapsInductive, Inductive, PTL DEF Spec

-----------------------------------------------------------------------------
(***************************************************************************)
(* What a terminal reports, where recovery runs alone.                     *)
(***************************************************************************)

\* What a recovered terminal owes to the ledger.
Recoverable(rows, e) == Total(ledger, rows \ InDoubt(e))
                          + Reserve * Cardinality(InDoubt(e) \cap Requested(e))

\* TerminalAccountsForSpend of one episode.
Accounts(e) ==
  summary[e] # None =>
    \/ summary[e].reason = "EXECUTION_TERMINAL_INCOMPLETE"
    \/ /\ summary[e].reason \in RecoveryReasons
       /\ summary[e].cost = Recoverable(Rows(e), e)
       /\ summary[e].calls = Cardinality(Requested(e))
    \/ /\ summary[e].reason \notin RecoveryReasons
       /\ summary[e].cost = Total(ledger, Rows(e)) /\ summary[e].calls = Cardinality(Rows(e))

LEMMA AccountsAll ==
  /\ TerminalAccountsForSpend <=> \A e \in Episodes : Accounts(e)
  /\ TerminalAccountsForSpend' <=> \A e \in Episodes : Accounts(e)'
<1>1. "EXECUTION_TERMINAL_INCOMPLETE" \notin RecoveryReasons
  BY DEF RecoveryReasons
<1>2. TerminalAccountsForSpend <=> \A e \in Episodes : Accounts(e)
  BY <1>1 DEF TerminalAccountsForSpend, Accounts, Recoverable, Spent, Total, Costs
<1>3. TerminalAccountsForSpend' <=> \A e \in Episodes : Accounts(e)'
  BY <1>1 DEF TerminalAccountsForSpend, Accounts, Recoverable, Spent, Total, Costs
<1> QED
  BY <1>2, <1>3

\* The terminal of an episode whose journal and rows rest stays true.
LEMMA AccountsRest ==
  ASSUME TypeOK, TypeOK', CapsInHand, NEW e \in Episodes, Accounts(e),
         summary'[e] = summary[e], journal'[e] = journal[e], Rows(e)' = Rows(e),
         \A c \in Rows(e) : ledger'[c] = ledger[c]
  PROVE  Accounts(e)'
<1>1. /\ ledger \in Ledgers /\ ledger' \in Ledgers
      /\ Rows(e) \in SUBSET Calls /\ IsFiniteSet(Rows(e))
  BY BookedRows DEF TypeOK, DiskOK, Ledgers, CapsInHand
<1>2. Requested(e)' = Requested(e)
  BY DEF Requested
<1>3. InDoubt(e)' = InDoubt(e)
  BY <1>2 DEF InDoubt
<1>4. Total(ledger', Rows(e)) = Total(ledger, Rows(e))
  BY <1>1, TotalSame
<1>5. Total(ledger', Rows(e) \ InDoubt(e)) = Total(ledger, Rows(e) \ InDoubt(e))
  <2>1. /\ Rows(e) \ InDoubt(e) \in SUBSET Calls /\ IsFiniteSet(Rows(e) \ InDoubt(e))
        /\ \A c \in Rows(e) \ InDoubt(e) : ledger'[c] = ledger[c]
    BY <1>1, FS_Subset
  <2> QED
    BY <1>1, <2>1, TotalSame
<1>6. Recoverable(Rows(e), e)' = Recoverable(Rows(e), e)
  BY <1>2, <1>3, <1>5 DEF Recoverable
<1> QED
  BY <1>2, <1>4, <1>6 DEF Accounts

\* A row of an episode the worker is not in does not change.
LEMMA OtherRowsRest ==
  ASSUME TypeOK, IInv, [Next]_vars, NEW e \in Episodes, run.pc = "idle" \/ e # run.episode
  PROVE  Rows(e)' = Rows(e) /\ \A c \in Rows(e) : ledger'[c] = ledger[c]
<1>1. CASE LedgerRests
  BY <1>1 DEF LedgerRests, Rows
<1>2. CASE Settles
  <2>1. run.call \in Calls /\ run.call \in Rows(run.episode) /\ e # run.episode
    BY <1>2, InHand DEF Settles, IInv, CallInHand
  <2>2. /\ ledger'[run.call].episode = ledger[run.call].episode
        /\ \A d \in Calls \ {run.call} : ledger'[d] = ledger[d]
    BY <1>2, <2>1 DEF Settles, SettledRow, TypeOK, DiskOK, Row
  <2> QED
    BY <2>1, <2>2 DEF Rows
<1>3. ASSUME NEW c \in Calls, ReserveCall(c)
      PROVE  Rows(e)' = Rows(e) /\ \A d \in Rows(e) : ledger'[d] = ledger[d]
  <2>1. run.pc = "reserve" /\ e # run.episode /\ ledger[c].episode = None
    BY <1>3 DEF ReserveCall, Reserved
  <2>2. /\ ledger'[c].episode = run.episode
        /\ \A d \in Calls \ {c} : ledger'[d] = ledger[d]
    BY <1>3 DEF ReserveCall, ReservedRow, TypeOK, DiskOK
  <2> QED
    BY <2>1, <2>2, NoneAssumption DEF Rows
<1> QED
  BY <1>1, <1>2, <1>3, MoneyShapes

\* So a terminal already written stays true, whatever the worker does.
LEMMA WrittenStays ==
  ASSUME TypeOK, TypeOK', IInv, CapsInHand, OpenWhileLive, [Next]_vars,
         NEW e \in Episodes, Accounts(e), summary[e] # None
  PROVE  Accounts(e)'
<1>1. run.pc = "idle" \/ e # run.episode
  BY DEF OpenWhileLive
<1>2. journal'[e] = journal[e] /\ summary'[e] = summary[e]
  BY TerminalStep DEF JournalKept
<1> QED
  BY <1>1, <1>2, AccountsRest, OtherRowsRest

\* What recovery computes from a journal it could price: each requested row at
\* its settled price, or its whole reservation, but for the row in doubt.
LEMMA JournalTotal ==
  ASSUME TypeOK, IInv, CapsInHand, ResponsesMatchRows, NEW e \in Episodes,
         ~Unpriced(journal[e])
  PROVE  JournalCost(journal[e]) = Recoverable(Rows(e), e)
<1> DEFINE R == Requested(e)
           D == InDoubt(e) \cap Requested(e)
           priced == {ev \in journal[e] : ev.kind = "provider_response"}
           price == [c \in Calls |->
                       IF \E ev \in priced : ev.id = c
                       THEN (CHOOSE ev \in priced : ev.id = c).cost ELSE Reserve]
<1>1. /\ R \subseteq Rows(e) /\ Rows(e) \subseteq Calls /\ IsFiniteSet(R)
      /\ ledger \in Ledgers /\ Reserve \in Nat
  BY BookedRows, FS_Subset, MoneyAssumption
  DEF IInv, RowsExplainRequests, CapsInHand, TypeOK, DiskOK, Ledgers
<1>2. Rows(e) \ InDoubt(e) = R \ D
  BY <1>1 DEF InDoubt
<1>3. \A c, d \in D : c = d
  BY DEF IInv, DoubtIsInHand
<1>4. \A c \in R : price[c] = IF c \in D THEN Reserve ELSE ledger[c].cost
  <2> TAKE c \in R
  <2>1. c \in Rows(e) /\ c \in Calls /\ Reserved(c)
    BY <1>1, NoneAssumption DEF Rows, Reserved
  <2>2. c \in D <=> ledger[c].settled /\ c \notin PricedIds(journal[e])
    BY <2>1 DEF InDoubt
  <2>3. \A ev \in priced : /\ ledger[ev.id].settled /\ ledger[ev.id].cost = ev.cost
                           /\ ev.id \in PricedIds(journal[e])
    BY DEF ResponsesMatchRows, Responses, Unpriced, PricedIds
  <2>4. CASE \E ev \in priced : ev.id = c
    <3>1. PICK ev \in priced : ev.id = c /\ ev = CHOOSE x \in priced : x.id = c
      BY <2>4
    <3>2. price[c] = ev.cost
      BY <2>1, <2>4, <3>1
    <3> HIDE DEF price, D
    <3> QED
      BY <2>2, <2>3, <3>1, <3>2
  <2>5. CASE ~\E ev \in priced : ev.id = c
    <3>1. price[c] = Reserve
      BY <2>1, <2>5
    <3>2. c \notin PricedIds(journal[e])
      BY <2>5 DEF PricedIds
    <3>3. ~ledger[c].settled => ledger[c].cost = Reserve
      BY <2>1 DEF IInv, RowsExplainRequests
    <3> HIDE DEF price, D
    <3> QED
      BY <2>2, <3>1, <3>2, <3>3
  <2> QED
    BY <2>4, <2>5
<1>5. JournalCost(journal[e]) = SumFunctionOnSet(price, R)
  BY DEF JournalCost, Requested
<1> HIDE DEF price, R, D
<1>6. \A c \in R : Costs(ledger)[c] = ledger[c].cost /\ ledger[c].cost \in Nat
  BY <1>1, CostsAreNat
<1>7. CASE D = {}
  <2>1. SumFunctionOnSet(price, R) = Total(ledger, R)
    BY <1>1, <1>4, <1>6, <1>7, SumSame DEF Total
  <2>2. R \ D = R /\ Cardinality(D) = 0 /\ Total(ledger, R) \in Nat
    BY <1>1, <1>7, FS_EmptySet, TotalType
  <2>3. Recoverable(Rows(e), e) = Total(ledger, R) + Reserve * 0
    BY <1>2, <2>2 DEF Recoverable, D
  <2> QED
    BY <1>1, <1>5, <2>1, <2>2, <2>3
<1>8. ASSUME NEW d \in D PROVE JournalCost(journal[e]) = Recoverable(Rows(e), e)
  <2>1. D = {d} /\ d \in R /\ IsFiniteSet(R \ {d}) /\ R \ {d} \in SUBSET Calls
    BY <1>1, <1>3, <1>8, FS_Subset DEF D, R
  <2>2. \A c \in R : price[c] \in Int
    BY <1>1, <1>4, <1>6
  <2>3. SumFunctionOnSet(price, R) = price[d] + SumFunctionOnSet(price, R \ {d})
    BY <1>1, <2>1, <2>2, SumRemove
  <2>4. SumFunctionOnSet(price, R \ {d}) = Total(ledger, R \ {d})
    BY <1>4, <1>6, <2>1, SumSame DEF Total
  <2>5. Cardinality(D) = 1
    BY <2>1, FS_Singleton
  <2>6. price[d] = Reserve /\ Total(ledger, R \ {d}) \in Nat
    BY <1>1, <1>4, <2>1, TotalType
  <2>7. Recoverable(Rows(e), e) = Total(ledger, R \ {d}) + Reserve * 1
    BY <1>2, <2>1, <2>5 DEF Recoverable, D
  <2> QED
    BY <1>1, <1>5, <2>3, <2>4, <2>6, <2>7
<1> QED
  BY <1>7, <1>8

\* The worker's terminal, or its placeholder, tells what was spent.
LEMMA LeaveAccounts ==
  ASSUME TypeOK, TypeOK', IInv, CapsInHand, CountsInHand, HInv, SpentInHand, StartBeforeRows,
         TerminalAccountsForSpend, [Next]_vars, Leaves
  PROVE  TerminalAccountsForSpend'
<1>1. PICK here \in Episodes : run.episode = here
  BY InHand DEF Leaves
<1>2. run.pc # "idle" /\ UNCHANGED <<ledger, journal>> /\ summary[here] = None
  BY <1>1 DEF Leaves, HInv, OpenWhileLive
<1>3. \A e \in Episodes \ {here} : summary'[e] = summary[e]
  BY <1>1 DEF Leaves, TypeOK, DiskOK
<1>4. \A e \in Episodes : Rows(e)' = Rows(e) /\ Total(ledger', Rows(e)') = Total(ledger, Rows(e))
  BY <1>2 DEF Rows
<1>5. ASSUME NEW e \in Episodes, e # here PROVE Accounts(e)'
  BY <1>2, <1>3, <1>4, <1>5, AccountsAll, AccountsRest
<1>6. ASSUME NEW s, Written(s), s.reason # "EXECUTION_TERMINAL_INCOMPLETE"
      PROVE  /\ s.reason \notin RecoveryReasons
             /\ s.cost = Total(ledger, Rows(here)) /\ s.calls = Cardinality(Rows(here))
  <2>1. CASE run.pc = "finish" /\ s = RunSummary
    <3>1. s.reason = run.reason /\ s.cost = run.cost /\ s.calls = run.calls
      BY <2>1 DEF RunSummary
    <3>2. run.cost = Total(ledger, Rows(here)) /\ run.reason \notin RecoveryReasons
      BY <1>1, <2>1, SpentIsTotal DEF SpentInHand
    <3>3. run.calls = Cardinality(Rows(here))
      BY <1>1, <2>1 DEF CountsInHand
    <3> QED
      BY <3>1, <3>2, <3>3
  <2>2. CASE s = Placeholder(journal[here])
    <3>1. Start \notin journal[here]
      BY <1>6, <2>2 DEF Placeholder
    <3>2. Rows(here) = {}
      BY <3>1 DEF StartBeforeRows
    <3>3. s.reason = "PRE_START_FAILURE" /\ s.cost = 0 /\ s.calls = 0
      BY <2>2, <3>1 DEF Placeholder
    <3>4. "PRE_START_FAILURE" \notin RecoveryReasons
      BY DEF RecoveryReasons
    <3> QED
      BY <3>2, <3>3, <3>4, SumEmpty, FS_EmptySet DEF Total
  <2> QED
    BY <1>1, <1>6, <2>1, <2>2 DEF Written
<1>7. Accounts(here)'
  <2>1. CASE summary' = summary
    BY <1>2, <2>1 DEF Accounts
  <2>2. ASSUME NEW s, Written(s), summary' = [summary EXCEPT ![run.episode] = s]
        PROVE  Accounts(here)'
    <3>1. summary'[here] = s
      BY <1>1, <2>2 DEF TypeOK, DiskOK
    <3>2. s.reason # "EXECUTION_TERMINAL_INCOMPLETE" =>
            /\ s.reason \notin RecoveryReasons
            /\ s.cost = Total(ledger', Rows(here)') /\ s.calls = Cardinality(Rows(here)')
      BY <1>4, <1>6, <2>2
    <3> QED
      BY <3>1, <3>2 DEF Accounts
  <2> QED
    BY <2>1, <2>2 DEF Leaves
<1> QED
  BY <1>5, <1>7, AccountsAll

\* Recovery writes what the journal it read before says, and it still says so.
LEMMA RecoverAccounts ==
  ASSUME TypeOK, TypeOK', IInv, CapsInHand, HInv, ResponsesMatchRows, SeenIsPriced,
         TerminalAccountsForSpend, [Next]_vars, RecoverWrite
  PROVE  TerminalAccountsForSpend'
<1>1. PICK there \in Episodes : rec.episode = there /\ rec.seen = journal[there]
  BY DEF RecoverWrite, HInv, RecoversAlone, TypeOK, RecOK
<1>2. /\ UNCHANGED <<ledger, journal>> /\ ~Unpriced(journal[there])
      /\ \/ summary' = summary
         \/ summary' = [summary EXCEPT ![there] = RecoveredSummary(journal[there])]
  BY <1>1 DEF RecoverWrite, SeenIsPriced
<1>3. \A e \in Episodes \ {there} : summary'[e] = summary[e]
  BY <1>2 DEF TypeOK, DiskOK
<1>4. \A e \in Episodes : Rows(e)' = Rows(e)
  BY <1>2 DEF Rows
<1>5. \A e \in Episodes : summary'[e] = summary[e] => Accounts(e)'
  BY <1>2, <1>4, AccountsAll, AccountsRest
<1>6. CASE summary' = [summary EXCEPT ![there] = RecoveredSummary(journal[there])]
  <2>1. summary'[there] = RecoveredSummary(journal[there])
    BY <1>6 DEF TypeOK, DiskOK
  <2>2. /\ RecoveredSummary(journal[there]).reason \in RecoveryReasons
        /\ RecoveredSummary(journal[there]).cost = Recoverable(Rows(there), there)
        /\ RecoveredSummary(journal[there]).calls = Cardinality(Requested(there))
    BY <1>2, JournalTotal DEF RecoveredSummary, RecoveredReason, RecoveryReasons, Requested
  <2>3. Requested(there)' = Requested(there) /\ InDoubt(there)' = InDoubt(there)
    BY <1>2 DEF Requested, InDoubt, Rows
  <2>4. Recoverable(Rows(there), there)' = Recoverable(Rows(there), there)
    BY <1>2, <1>4, <2>3 DEF Recoverable
  <2>5. Accounts(there)'
    BY <2>1, <2>2, <2>3, <2>4 DEF Accounts
  <2> QED
    BY <1>3, <1>5, <2>5, AccountsAll
<1>7. CASE summary' = summary
  BY <1>5, <1>7, AccountsAll
<1> QED
  BY <1>2, <1>6, <1>7

\* No other step writes a terminal.
LEMMA OnlyTheseWrite ==
  ASSUME TypeOK, IInv, [Next]_vars
  PROVE  summary' = summary \/ Leaves \/ RecoverWrite
  BY StepShapes DEF Plays, SameTallies, Performs, CommitsMove, Reserves, Aside, Create,
                    RecoverNext, RecoverStart, RecoverRead, RecoverDone, RecoverDies

\* No row precedes its episode's start.
LEMMA StartsStep ==
  ASSUME TypeOK, IInv, HInv, StartBeforeRows, [Next]_vars
  PROVE  StartBeforeRows'
<1>1. \A e \in Episodes : journal[e] \subseteq journal'[e]
  BY TerminalStep DEF JournalKept
<1>2. ASSUME NEW c \in Calls, Reserves(c) PROVE StartBeforeRows'
  <2>1. PICK here \in Episodes : run.episode = here /\ Start \in journal[here]
    BY <1>2, InHand DEF Reserves, HInv, PlayHasStarted
  <2>2. \A e \in Episodes : e # here => Rows(e)' = Rows(e)
    BY <1>2, <2>1 DEF Reserves
  <2> QED
    BY <1>1, <2>1, <2>2 DEF StartBeforeRows
<1>3. CASE Plays \/ Performs \/ CommitsMove \/ Leaves \/ Aside \/ \E e \in Episodes : Create(e)
  <2>1. \A e \in Episodes : Rows(e)' = Rows(e)
    <3>1. CASE Plays \/ Performs \/ CommitsMove
      BY <3>1 DEF Plays, SameTallies, Performs, CommitsMove
    <3>2. CASE Leaves \/ Aside \/ \E e \in Episodes : Create(e)
      BY <3>2 DEF Leaves, Aside, Create, Rows
    <3> QED
      BY <1>3, <3>1, <3>2
  <2> QED
    BY <1>1, <2>1 DEF StartBeforeRows
<1> QED
  BY <1>2, <1>3, StepShapes

\* Recovery keeps to journals it could price.
LEMMA SeenStep ==
  ASSUME TypeOK, SeenIsPriced, [Next]_vars
  PROVE  SeenIsPriced'
<1>1. CASE rec' = rec
  BY <1>1 DEF SeenIsPriced
<1>2. CASE RecoverStart \/ RecoverWrite \/ RecoverDone \/ RecoverDies
  <2>1. rec'.pc \in {"scan", "raised", "idle"}
    <3>1. CASE RecoverWrite
      BY <3>1 DEF RecoverWrite, NotRecovering
    <3>2. CASE RecoverStart
      BY <3>2 DEF RecoverStart, NotRecovering
    <3>3. CASE RecoverDone \/ RecoverDies
      <4>1. rec' = NotRecovering
        BY <3>3 DEF RecoverDone, RecoverDies
      <4> QED
        BY <4>1, RestTypes
    <3> QED
      BY <1>2, <3>1, <3>2, <3>3
  <2> QED
    BY <2>1 DEF SeenIsPriced
<1>3. ASSUME NEW e \in Episodes, RecoverRead(e) PROVE SeenIsPriced'
  <2>1. CASE Unpriced(journal[e]) \/ summary[e] # None
    BY <1>3, <2>1 DEF RecoverRead, NotRecovering, SeenIsPriced, TypeOK, RecOK, RecState
  <2>2. CASE ~Unpriced(journal[e]) /\ summary[e] = None
    <3>1. rec'.seen = journal[e]
      BY <1>3, <2>2 DEF RecoverRead, TypeOK, RecOK, RecState
    <3> QED
      BY <2>2, <3>1 DEF SeenIsPriced
  <2> QED
    BY <2>1, <2>2
<1> QED
  BY <1>1, <1>2, <1>3
  DEF Next, WorkerNext, RecoverNext, vars, Create, LaunchFails, LogStart, EndPlay,
      BeginDecision, CheckInput, RefuseCall, ReserveCall, LogRequest, SendAnswered, SendFails,
      SettleCall, LogResponse, TakeOperation, LogIntent, ApplyAccepted, ApplyRejected,
      ApplyUnknown, LogCommit, LogRejected, Finish, RequestStop, Crash

LEMMA AccountsInit == Init => TerminalAccountsForSpend /\ StartBeforeRows /\ SeenIsPriced
<1> SUFFICES ASSUME Init PROVE TerminalAccountsForSpend /\ StartBeforeRows /\ SeenIsPriced
  OBVIOUS
<1>1. \A e \in Episodes : summary[e] = None /\ Rows(e) = {}
  BY NoneAssumption DEF Init, Rows, NoRow
<1>2. rec.pc = "idle"
  BY RestTypes DEF Init
<1> QED
  BY <1>1, <1>2 DEF TerminalAccountsForSpend, StartBeforeRows, SeenIsPriced

\* The whole strengthening holds of every reachable state when recovery runs
\* alone.
THEOREM AccountsInductive ==
  ASSUME ~RecoverWhileLive
  PROVE  Spec => []AInv
<1>1. TypeOK /\ TypeOK' /\ IInv /\ CapsInHand /\ CountsInHand /\ HInv /\ SpentInHand
        /\ ResponsesMatchRows /\ TerminalAccountsForSpend /\ StartBeforeRows /\ SeenIsPriced
        /\ [Next]_vars
        => TerminalAccountsForSpend' /\ StartBeforeRows' /\ SeenIsPriced'
  <2> SUFFICES ASSUME TypeOK, TypeOK', IInv, CapsInHand, CountsInHand, HInv, SpentInHand,
                      ResponsesMatchRows, TerminalAccountsForSpend, StartBeforeRows,
                      SeenIsPriced, [Next]_vars
               PROVE  TerminalAccountsForSpend' /\ StartBeforeRows' /\ SeenIsPriced'
    OBVIOUS
  <2>1. ASSUME summary' = summary PROVE TerminalAccountsForSpend'
    <3>1. ASSUME NEW e \in Episodes PROVE Accounts(e)'
      <4>1. CASE summary[e] = None
        BY <2>1, <4>1 DEF Accounts
      <4>2. CASE summary[e] # None
        BY <4>2, AccountsAll, WrittenStays DEF HInv
      <4> QED
        BY <4>1, <4>2
    <3> QED
      BY <3>1, AccountsAll
  <2> QED
    BY <2>1, OnlyTheseWrite, LeaveAccounts, RecoverAccounts, StartsStep, SeenStep
<1>2. TerminalAccountsForSpend /\ SpentInHand /\ ResponsesMatchRows /\ StartBeforeRows
        /\ SeenIsPriced => AInv
  BY DEF AInv
<1> QED
  BY <1>1, <1>2, AccountsInit, MoneyInductive, CapsInductive, HiddenInductive, Inductive, PTL
  DEF Spec

\* Where recovery runs alone, a terminal reports exactly what its episode cost
\* by the shared ledger: the worker's own always, a recovered one but for the
\* row in doubt (RunSummary of _run_episode; Store.recover).
THEOREM TerminalsAccount ==
  ASSUME ~RecoverWhileLive
  PROVE  Spec => []TerminalAccountsForSpend
<1>1. AInv => TerminalAccountsForSpend
  BY DEF AInv
<1> QED
  BY <1>1, AccountsInductive, PTL
=============================================================================
