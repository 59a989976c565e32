------------------------------ MODULE EpisodeRun ------------------------------
(***************************************************************************)
(* One campaign's paid episodes: the worker that plays them one at a time, *)
(* the shared spending ledger, each episode's journal, and the recovery    *)
(* command that closes the journals a dead worker left open.               *)
(*                                                                         *)
(* Every durable write is a step of its own, because the process can die   *)
(* between any two of them: reserve in the ledger, journal the request,    *)
(* send, settle in the ledger, journal the response, journal the intent,   *)
(* apply the action in the game, journal the commit, journal the terminal. *)
(* A journal is the set of its events: only the terminal has a place in    *)
(* the order that anything here depends on, and it is kept apart, in       *)
(* summary.                                                                *)
(***************************************************************************)
EXTENDS Integers, FiniteSets, Functions

CONSTANTS
  Episodes,           \* episode ids
  Calls,              \* provider request ids (uuid4); bounds the calls of a campaign
  Moves,              \* action request ids (uuid4); bounds the actions of a campaign
  None,               \* absent value
  Uncapped,           \* the cap that refuses nothing
  Reserve,            \* worst-case price of one call, reservation_usd
  EpisodeCap,         \* max_episode_cost_usd
  CampaignCap,        \* max_batch_cost_usd
  Charges,            \* what a provider may bill for one call; may exceed Reserve
  MaxAttempts,        \* max_transport_attempts
  MaxCalls,           \* max_provider_calls, per episode
  MaxActions,         \* max_game_actions, per episode
  UsageMayBeUnknown,  \* may a complete reply omit its usage?
  RecoverWhileLive    \* may `bh recover` run beside a live worker?

ASSUME NoneAssumption == None \notin Episodes \cup Calls \cup Moves \cup Nat
ASSUME MoneyAssumption ==
  /\ Reserve \in Nat \ {0}
  /\ Charges \subseteq Nat
  /\ EpisodeCap \in Nat \cup {Uncapped}
  /\ CampaignCap \in Nat \cup {Uncapped}
ASSUME LimitAssumption ==
  /\ MaxAttempts \in Nat \ {0}
  /\ MaxCalls \in Nat
  /\ MaxActions \in Nat
ASSUME SwitchAssumption == {UsageMayBeUnknown, RecoverWhileLive} \subseteq BOOLEAN

VARIABLES
  (* durable *)
  created,   \* episodes with a manifest on disk
  ledger,    \* spending.json: one row per call, NoRow before it is reserved
  journal,   \* events.jsonl of each episode, without its terminal
  summary,   \* payload of each episode's terminal event, or None
  torn,      \* episodes whose journal ends in a partial line
  (* process memory *)
  run,       \* the worker
  stop,      \* the worker's stop event
  rec,       \* the `bh recover` process
  (* outside the program *)
  applied,   \* actions the game executed
  billed     \* what the provider charged for each call

vars == <<created, ledger, journal, summary, torn, run, stop, rec, applied, billed>>

-----------------------------------------------------------------------------
NoRow == [episode |-> None, cost |-> 0, settled |-> FALSE]

Idle == [pc |-> "idle", episode |-> None, call |-> None, move |-> None,
         attempt |-> 0, calls |-> 0, cost |-> 0, committed |-> 0,
         usage |-> None, reason |-> "none"]

NotRecovering == [pc |-> "idle", todo |-> {}, episode |-> None, seen |-> {}]

Event(kind, id) == [kind |-> kind, id |-> id]
Response(c, usage) == [kind |-> "provider_response", id |-> c, cost |-> usage]
Start == Event("episode_start", None)

Ids(log, kind) == {ev.id : ev \in {x \in log : x.kind = kind}}

Reserved(c) == ledger[c].episode # None
Rows(e) == {c \in Calls : ledger[c].episode = e}
Booked == {c \in Calls : Reserved(c)}
Spent(cs) == SumFunctionOnSet([c \in Calls |-> ledger[c].cost], cs)

(***************************************************************************)
(* A limit read by the worker before it sends: a set of the reasons that   *)
(* stop it, empty when it may go on.                                       *)
(***************************************************************************)
\* Mutant: what is about to be reserved is left out of the sum.
CanAfford_IgnoresReservation(total, cap) == cap = Uncapped \/ total <= cap
CanAfford(total, cap) == cap = Uncapped \/ total + Reserve <= cap

CapRefusal ==
  LET episodeRefused == ~CanAfford(Spent(Rows(run.episode)), EpisodeCap)
      campaignRefused == ~CanAfford(Spent(Booked), CampaignCap)
  IN  IF episodeRefused /\ campaignRefused THEN {"EPISODE_AND_CAMPAIGN_COST_CAP"}
      ELSE IF episodeRefused THEN {"EPISODE_COST_CAP"}
      ELSE IF campaignRefused THEN {"CAMPAIGN_COST_CAP"}
      ELSE {}

ProviderBudget ==
  IF stop THEN {"OPERATOR_REQUEST"}
  ELSE IF run.calls >= MaxCalls THEN {"PROVIDER_CALL_LIMIT"}
  ELSE {}

-----------------------------------------------------------------------------
(***************************************************************************)
(* Steps shared by the worker's handlers.  An append refuses a terminated  *)
(* or torn journal and may fail on its own, leaving nothing, part of a     *)
(* line (a full disk) or all of it (fsync); the exception unwinds the run  *)
(* to finish, which still has to write a terminal.                         *)
(***************************************************************************)
Exit(reason) == [run EXCEPT !.pc = "finish", !.reason = reason]

\* Mutant: append does not look for a terminal.
Refused_IgnoresTerminal(e) == e \in torn
Refused(e) == summary[e] # None \/ e \in torn
Tear(e) == IF Refused(e) THEN {torn} ELSE {torn, torn \cup {e}}

\* Mutant: a refused or failed append is logged away and the run goes on.
AppendThen_Swallowed(ev, next) ==
  /\ run' = next
  /\ \/ /\ ~Refused(run.episode)
        /\ journal' = [journal EXCEPT ![run.episode] = @ \cup {ev}]
     \/ UNCHANGED journal
  /\ UNCHANGED torn

AppendThen(ev, next) ==
  \/ /\ ~Refused(run.episode)
     /\ journal' = [journal EXCEPT ![run.episode] = @ \cup {ev}]
     /\ run' = next
     /\ UNCHANGED torn
  \/ /\ run' = Exit("INTERNAL_ERROR")
     /\ \/ torn' \in Tear(run.episode) /\ UNCHANGED journal
        \/ /\ ~Refused(run.episode)
           /\ journal' = [journal EXCEPT ![run.episode] = @ \cup {ev}]
           /\ UNCHANGED torn

Quiet == run.pc = "idle"
MayWork == RecoverWhileLive \/ rec.pc \in {"idle", "raised"}
MayRecover == RecoverWhileLive \/ Quiet

-----------------------------------------------------------------------------
(***************************************************************************)
(* Launch: the episode is created, then service.execute builds its policy, *)
(* takes the worker lock and builds the game.  A failure under the lock    *)
(* leaves a terminal of zeroes, one before it leaves no terminal at all.   *)
(***************************************************************************)
Create(e) ==
  /\ Quiet /\ MayWork
  /\ e \notin created
  /\ created' = created \cup {e}
  /\ stop' = FALSE
  /\ run' = [Idle EXCEPT !.pc = "start", !.episode = e]
  /\ UNCHANGED <<ledger, journal, summary, torn, rec, applied, billed>>

Placeholder(log) ==
  [reason |-> IF Start \in log THEN "EXECUTION_TERMINAL_INCOMPLETE" ELSE "PRE_START_FAILURE",
   calls |-> 0, cost |-> 0, committed |-> 0]

FinishFailedExecution ==
  summary' = IF Refused(run.episode) THEN summary
             ELSE [summary EXCEPT ![run.episode] = Placeholder(journal[run.episode])]

LaunchFails ==
  /\ run.pc = "start"
  /\ FinishFailedExecution \/ UNCHANGED summary
  /\ run' = Idle
  /\ UNCHANGED <<created, ledger, journal, torn, stop, rec, applied, billed>>

LogStart ==
  /\ run.pc = "start"
  /\ AppendThen(Start, [run EXCEPT !.pc = "loop"])
  /\ UNCHANGED <<created, ledger, summary, stop, rec, applied, billed>>

(***************************************************************************)
(* One turn of play: stop check, observation, engine terminal, action      *)
(* limit, checkpoint.                                                      *)
(***************************************************************************)
LoopExit ==
  IF stop THEN {"OPERATOR_REQUEST"}
  ELSE {"VERIFIED_ENGINE_TERMINAL", "NATIVE_FAILURE", "INTERNAL_ERROR"} \cup
       (IF run.committed >= MaxActions THEN {"GAME_ACTION_LIMIT"} ELSE {})

EndPlay ==
  /\ run.pc = "loop"
  /\ \E reason \in LoopExit : run' = Exit(reason)
  /\ UNCHANGED <<created, ledger, journal, summary, torn, stop, rec, applied, billed>>

BeginDecision ==
  /\ run.pc = "loop"
  /\ ~stop
  /\ run.committed < MaxActions
  /\ run' = [run EXCEPT !.pc = "decide"]
  /\ UNCHANGED <<created, ledger, journal, summary, torn, stop, rec, applied, billed>>

(***************************************************************************)
(* _provider up to its attempt loop: the budget check and the free token   *)
(* count, which reserves nothing.                                          *)
(***************************************************************************)
CheckInput ==
  /\ run.pc = "decide"
  /\ run' \in IF ProviderBudget # {} THEN {Exit(r) : r \in ProviderBudget}
              ELSE {[run EXCEPT !.pc = "reserve", !.attempt = 0], Exit("TOKEN_COUNT_UNAVAILABLE")}
  /\ UNCHANGED <<created, ledger, journal, summary, torn, stop, rec, applied, billed>>

(***************************************************************************)
(* Spending.reserve, under the ledger lock and before anything is sent.    *)
(***************************************************************************)
ReservedRow(e) == [episode |-> e, cost |-> Reserve, settled |-> FALSE]

ReserveCall(c) ==
  /\ run.pc = "reserve"
  /\ ProviderBudget = {} /\ CapRefusal = {}
  /\ ~Reserved(c)
  /\ ledger' = [ledger EXCEPT ![c] = ReservedRow(run.episode)]
  /\ run' = [run EXCEPT !.pc = "request", !.call = c, !.calls = @ + 1, !.cost = @ + Reserve]
  /\ UNCHANGED <<created, journal, summary, torn, stop, rec, applied, billed>>

RefuseCall ==
  /\ run.pc = "reserve"
  /\ \E reason \in IF ProviderBudget # {} THEN ProviderBudget ELSE CapRefusal :
       run' = Exit(reason)
  /\ UNCHANGED <<created, ledger, journal, summary, torn, stop, rec, applied, billed>>

LogRequest ==
  /\ run.pc = "request"
  /\ AppendThen(Event("provider_request", run.call), [run EXCEPT !.pc = "send"])
  /\ UNCHANGED <<created, ledger, summary, stop, rec, applied, billed>>

(***************************************************************************)
(* The provider answers, and charges.  A reply may lack its usage (None).  *)
(***************************************************************************)
Usages == Charges \cup (IF UsageMayBeUnknown THEN {None} ELSE {})

SendAnswered ==
  /\ run.pc = "send"
  /\ ~stop
  /\ \E charge \in Charges, usage \in Usages :
       /\ usage \in {charge, None}
       /\ billed' = [billed EXCEPT ![run.call] = charge]
       /\ run' = [run EXCEPT !.pc = "settle", !.usage = usage]
  /\ UNCHANGED <<created, ledger, journal, summary, torn, stop, rec, applied>>

(***************************************************************************)
(* Or it fails, having charged or not.  The row is retained, the error     *)
(* journaled, and a retryable error below the attempt limit goes back to   *)
(* reserve a new call.                                                     *)
(***************************************************************************)
\* Mutant: a failed call is refunded.
RetainedRow_Refunded(row) == [row EXCEPT !.cost = 0]
RetainedRow(row) == row

AfterFailure ==
  {Exit("PROVIDER_FAILURE")} \cup
  (IF stop THEN {Exit("OPERATOR_REQUEST")}
   ELSE IF run.attempt + 1 < MaxAttempts
        THEN {[run EXCEPT !.pc = "reserve", !.attempt = @ + 1]}
        ELSE {})

SendFails ==
  /\ run.pc = "send"
  /\ \E charge \in Charges : billed' = [billed EXCEPT ![run.call] = charge]
  /\ ledger' = [ledger EXCEPT ![run.call] = RetainedRow(@)]
  /\ \E next \in AfterFailure : AppendThen(Event("provider_error", run.call), next)
  /\ UNCHANGED <<created, summary, stop, rec, applied>>

\* Mutant: settling records the difference run.cost needs, not the charge.
SettledRow_Difference(row, usage) == [row EXCEPT !.cost = usage - Reserve, !.settled = TRUE]
SettledRow(row, usage) == [row EXCEPT !.cost = usage, !.settled = TRUE]

SettleCall ==
  /\ run.pc = "settle"
  /\ IF run.usage = None
     THEN /\ ledger' = [ledger EXCEPT ![run.call] = RetainedRow(@)]
          /\ run' = [run EXCEPT !.pc = "response"]
     ELSE /\ ledger' = [ledger EXCEPT ![run.call] = SettledRow(@, run.usage)]
          /\ run' = [run EXCEPT !.pc = "response", !.cost = @ + run.usage - Reserve]
  /\ UNCHANGED <<created, journal, summary, torn, stop, rec, applied, billed>>

LogResponse ==
  /\ run.pc = "response"
  /\ AppendThen(Response(run.call, run.usage),
                IF run.usage = None THEN Exit("PROVIDER_USAGE_UNKNOWN")
                ELSE [run EXCEPT !.pc = "parse"])
  /\ UNCHANGED <<created, ledger, summary, stop, rec, applied, billed>>

(***************************************************************************)
(* The reply's operation: another turn of the same decision (a helper or   *)
(* an invalid reply), a validated action, or the agent's abort.            *)
(***************************************************************************)
TakeOperation ==
  /\ run.pc = "parse"
  /\ run' \in {[run EXCEPT !.pc = "decide"], [run EXCEPT !.pc = "intent"],
               Exit("AGENT_ENDED"), Exit("INTERNAL_ERROR")}
  /\ UNCHANGED <<created, ledger, journal, summary, torn, stop, rec, applied, billed>>

-----------------------------------------------------------------------------
(***************************************************************************)
(* _commit_action: intent, native apply, commit.  A native failure leaves  *)
(* the action applied or not, unknown to the worker.                       *)
(***************************************************************************)
Intended(m) == \E e \in Episodes : m \in Ids(journal[e], "action_intent")

LogIntent(m) ==
  /\ run.pc = "intent"
  /\ ~Intended(m)
  /\ AppendThen(Event("action_intent", m), [run EXCEPT !.pc = "apply", !.move = m])
  /\ UNCHANGED <<created, ledger, summary, stop, rec, applied, billed>>

ApplyAccepted ==
  /\ run.pc = "apply"
  /\ applied' = applied \cup {run.move}
  /\ run' = [run EXCEPT !.pc = "commit", !.committed = @ + 1]
  /\ UNCHANGED <<created, ledger, journal, summary, torn, stop, rec, billed>>

ApplyRejected ==
  /\ run.pc = "apply"
  /\ run' = [run EXCEPT !.pc = "reject"]
  /\ UNCHANGED <<created, ledger, journal, summary, torn, stop, rec, applied, billed>>

\* Mutant: an unknown outcome is handled as a native rejection.
ApplyUnknown_AsRejected ==
  /\ run.pc = "apply"
  /\ applied' \in {applied, applied \cup {run.move}}
  /\ run' = [run EXCEPT !.pc = "reject"]
  /\ UNCHANGED <<created, ledger, journal, summary, torn, stop, rec, billed>>

ApplyUnknown ==
  /\ run.pc = "apply"
  /\ applied' \in {applied, applied \cup {run.move}}
  /\ run' = Exit("NATIVE_FAILURE")
  /\ UNCHANGED <<created, ledger, journal, summary, torn, stop, rec, billed>>

LogCommit ==
  /\ run.pc = "commit"
  /\ AppendThen(Event("action_commit", run.move), [run EXCEPT !.pc = "loop"])
  /\ UNCHANGED <<created, ledger, summary, stop, rec, applied, billed>>

LogRejected ==
  /\ run.pc = "reject"
  /\ AppendThen(Event("action_rejected", run.move), Exit("NATIVE_PUBLIC_LEGALITY_MISMATCH"))
  /\ UNCHANGED <<created, ledger, summary, stop, rec, applied, billed>>

(***************************************************************************)
(* The terminal.  When its own append fails, execute_locked tries once     *)
(* more with a placeholder, and when that fails too the worker ends        *)
(* without one.                                                            *)
(***************************************************************************)
RunSummary == [reason |-> run.reason, calls |-> run.calls,
               cost |-> run.cost, committed |-> run.committed]

Finish ==
  /\ run.pc = "finish"
  /\ \/ /\ ~Refused(run.episode)
        /\ summary' = [summary EXCEPT ![run.episode] = RunSummary]
        /\ UNCHANGED torn
     \/ FinishFailedExecution /\ UNCHANGED torn
     \/ UNCHANGED summary /\ torn' \in Tear(run.episode)
  /\ run' = Idle
  /\ UNCHANGED <<created, ledger, journal, stop, rec, applied, billed>>

RequestStop ==
  /\ ~Quiet /\ ~stop
  /\ stop' = TRUE
  /\ UNCHANGED <<created, ledger, journal, summary, torn, run, rec, applied, billed>>

(***************************************************************************)
(* The worker process dies: its memory and its flock are gone, and a line  *)
(* it was appending may be torn.                                           *)
(***************************************************************************)
Appending == {"start", "request", "send", "response", "intent", "commit", "reject", "finish"}

Crash ==
  /\ ~Quiet
  /\ run' = Idle
  /\ torn' \in IF run.pc \in Appending THEN Tear(run.episode) ELSE {torn}
  /\ UNCHANGED <<created, ledger, journal, summary, stop, rec, applied, billed>>

-----------------------------------------------------------------------------
(***************************************************************************)
(* Store.recover: for every episode directory, drop a torn tail, read the  *)
(* journal, and give a journal without a terminal one computed from what   *)
(* was read.  Reading and writing are separate steps; nothing excludes a   *)
(* live worker.  A provider_response without cost_usd raises KeyError,     *)
(* which ends the whole command.                                           *)
(***************************************************************************)
Unpriced(log) == \E ev \in log : ev.kind = "provider_response" /\ ev.cost = None

\* Mutant: a request that never got an answer costs nothing.
JournalCost_AnsweredOnly(log) ==
  LET priced == {ev \in log : ev.kind = "provider_response"}
  IN  SumFunctionOnSet([c \in Calls |->
                          IF \E ev \in priced : ev.id = c
                          THEN (CHOOSE ev \in priced : ev.id = c).cost ELSE 0],
                       Ids(log, "provider_request"))

JournalCost(log) ==
  LET priced == {ev \in log : ev.kind = "provider_response"}
      price == [c \in Calls |->
                  IF \E ev \in priced : ev.id = c
                  THEN (CHOOSE ev \in priced : ev.id = c).cost ELSE Reserve]
  IN  SumFunctionOnSet(price, Ids(log, "provider_request"))

Unresolved(log) ==
  Ids(log, "action_intent") \ (Ids(log, "action_commit") \cup Ids(log, "action_rejected"))

\* Mutant: an intent without an outcome goes unnoticed.
RecoveredReason_Unambiguous(log) == "PROCESS_INTERRUPTED"

RecoveredReason(log) ==
  IF Unresolved(log) # {} THEN "AMBIGUOUS_ACTION_AFTER_CRASH" ELSE "PROCESS_INTERRUPTED"

RecoveredSummary(log) ==
  [reason |-> RecoveredReason(log),
   calls |-> Cardinality(Ids(log, "provider_request")),
   cost |-> JournalCost(log),
   committed |-> Cardinality(Ids(log, "action_commit"))]

RecoverStart ==
  /\ MayRecover
  /\ rec.pc \in {"idle", "raised"}
  /\ created # {}
  /\ rec' = [NotRecovering EXCEPT !.pc = "scan", !.todo = created]
  /\ UNCHANGED <<created, ledger, journal, summary, torn, run, stop, applied, billed>>

\* Mutant: the torn tail stays in the journal.
RecoverRead_KeepsTornTail(e) ==
  /\ rec.pc = "scan" /\ e \in rec.todo
  /\ rec' = IF Unpriced(journal[e]) THEN [NotRecovering EXCEPT !.pc = "raised"]
            ELSE IF summary[e] # None THEN [rec EXCEPT !.todo = @ \ {e}]
            ELSE [rec EXCEPT !.pc = "write", !.episode = e, !.seen = journal[e]]
  /\ UNCHANGED <<created, ledger, journal, summary, torn, run, stop, applied, billed>>

RecoverRead(e) ==
  /\ rec.pc = "scan" /\ e \in rec.todo
  /\ torn' = torn \ {e}
  /\ rec' = IF Unpriced(journal[e]) THEN [NotRecovering EXCEPT !.pc = "raised"]
            ELSE IF summary[e] # None THEN [rec EXCEPT !.todo = @ \ {e}]
            ELSE [rec EXCEPT !.pc = "write", !.episode = e, !.seen = journal[e]]
  /\ UNCHANGED <<created, ledger, journal, summary, run, stop, applied, billed>>

RecoverWrite ==
  /\ rec.pc = "write"
  /\ IF Refused(rec.episode)
     THEN /\ rec' = [NotRecovering EXCEPT !.pc = "raised"]
          /\ UNCHANGED summary
     ELSE /\ summary' = [summary EXCEPT ![rec.episode] = RecoveredSummary(rec.seen)]
          /\ rec' = [NotRecovering EXCEPT !.pc = "scan", !.todo = rec.todo \ {rec.episode}]
  /\ UNCHANGED <<created, ledger, journal, torn, run, stop, applied, billed>>

RecoverDone ==
  /\ rec.pc = "scan" /\ rec.todo = {}
  /\ rec' = NotRecovering
  /\ UNCHANGED <<created, ledger, journal, summary, torn, run, stop, applied, billed>>

RecoverDies ==
  /\ rec.pc \in {"scan", "write"}
  /\ rec' = NotRecovering
  /\ torn' \in IF rec.pc = "write" THEN Tear(rec.episode) ELSE {torn}
  /\ UNCHANGED <<created, ledger, journal, summary, run, stop, applied, billed>>

-----------------------------------------------------------------------------
Init ==
  /\ created = {}
  /\ ledger = [c \in Calls |-> NoRow]
  /\ journal = [e \in Episodes |-> {}]
  /\ summary = [e \in Episodes |-> None]
  /\ torn = {}
  /\ run = Idle
  /\ stop = FALSE
  /\ rec = NotRecovering
  /\ applied = {}
  /\ billed = [c \in Calls |-> 0]

WorkerNext ==
  \/ LaunchFails \/ LogStart
  \/ EndPlay \/ BeginDecision
  \/ CheckInput \/ RefuseCall \/ LogRequest
  \/ (\E c \in Calls : ReserveCall(c))
  \/ SendAnswered \/ SendFails \/ SettleCall \/ LogResponse \/ TakeOperation
  \/ (\E m \in Moves : LogIntent(m))
  \/ ApplyAccepted \/ ApplyRejected \/ ApplyUnknown
  \/ LogCommit \/ LogRejected \/ Finish

RecoverNext ==
  \/ RecoverStart \/ RecoverWrite \/ RecoverDone
  \/ \E e \in Episodes : RecoverRead(e)

Next ==
  \/ \E e \in Episodes : Create(e)
  \/ WorkerNext
  \/ RecoverNext
  \/ RequestStop \/ Crash \/ RecoverDies

Spec == Init /\ [][Next]_vars

(***************************************************************************)
(* A live worker keeps stepping, since every wait in it is bounded by a    *)
(* timeout.  An operator reruns recovery when the worker is down until one *)
(* pass is not killed: strong fairness, because a kill can interrupt every *)
(* single pass but not all of them for ever.                               *)
(***************************************************************************)
Fairness ==
  /\ WF_vars(WorkerNext)
  /\ WF_vars(RecoverStart)
  /\ WF_vars(RecoverDone)
  /\ SF_vars(RecoverWrite)
  /\ \A e \in Episodes : SF_vars(RecoverRead(e))

FairSpec == Spec /\ Fairness

-----------------------------------------------------------------------------
(***************************************************************************)
(* Types.                                                                  *)
(***************************************************************************)
CallKinds == {"provider_request", "provider_error"}
MoveKinds == {"action_intent", "action_commit", "action_rejected"}

Events ==
  {Start}
  \cup [kind : CallKinds, id : Calls]
  \cup [kind : MoveKinds, id : Moves]
  \cup [kind : {"provider_response"}, id : Calls, cost : Charges \cup {None}]

RecoveryReasons == {"PROCESS_INTERRUPTED", "AMBIGUOUS_ACTION_AFTER_CRASH"}
FailureReasons ==
  {"INTERNAL_ERROR", "NATIVE_FAILURE", "PROVIDER_FAILURE", "PROVIDER_USAGE_UNKNOWN",
   "TOKEN_COUNT_UNAVAILABLE", "NATIVE_PUBLIC_LEGALITY_MISMATCH",
   "PRE_START_FAILURE", "EXECUTION_TERMINAL_INCOMPLETE"}
PlayReasons ==
  {"VERIFIED_ENGINE_TERMINAL", "GAME_ACTION_LIMIT", "PROVIDER_CALL_LIMIT", "EPISODE_COST_CAP",
   "CAMPAIGN_COST_CAP", "EPISODE_AND_CAMPAIGN_COST_CAP", "OPERATOR_REQUEST", "AGENT_ENDED"}
Reasons == RecoveryReasons \cup FailureReasons \cup PlayReasons

Working == Appending \cup {"loop", "decide", "reserve", "settle", "parse", "apply"}

Row == [episode : Episodes \cup {None}, cost : Nat, settled : BOOLEAN]

Attempts == 0 .. MaxAttempts - 1

RunState ==
  [pc : Working \cup {"idle"}, episode : Episodes \cup {None},
   call : Calls \cup {None}, move : Moves \cup {None},
   attempt : Attempts, calls : Nat, cost : Int, committed : Nat,
   usage : Charges \cup {None}, reason : Reasons \cup {"none"}]

RecState ==
  [pc : {"idle", "scan", "write", "raised"}, todo : SUBSET Episodes,
   episode : Episodes \cup {None}, seen : SUBSET Events]

DiskOK ==
  /\ created \subseteq Episodes
  /\ ledger \in [Calls -> Row]
  /\ journal \in [Episodes -> SUBSET Events]
  /\ DOMAIN summary = Episodes
  /\ \A e \in Episodes : summary[e] # None => summary[e].reason \in Reasons
  /\ torn \subseteq Episodes

RunOK ==
  /\ run \in RunState
  /\ run.pc # "idle" => run.episode \in Episodes
  /\ run.pc \in {"request", "send", "settle", "response"} => run.call \in Calls
  /\ run.pc \in {"apply", "commit", "reject"} => run.move \in Moves
  /\ run.pc = "finish" => run.reason \in Reasons

RecOK ==
  /\ rec \in RecState
  /\ rec.pc = "write" => rec.episode \in Episodes

(* Every variable stays in its type; a ledger row holds a whole, never     *)
(* negative amount (Spending.reserve, Spending.settle).  The numbers in a  *)
(* terminal are the business of TerminalAccountsForSpend.                  *)
TypeOK ==
  /\ DiskOK /\ RunOK /\ RecOK
  /\ stop \in BOOLEAN
  /\ applied \subseteq Moves
  /\ billed \in [Calls -> Nat]

-----------------------------------------------------------------------------
(***************************************************************************)
(* Safety.                                                                 *)
(***************************************************************************)
Requested(e) == Ids(journal[e], "provider_request")
PricedIds(log) ==
  {ev.id : ev \in {x \in log : x.kind = "provider_response" /\ x.cost # None}}

(* A call the provider charged for has a ledger row and a journaled        *)
(* request of the same episode, whatever failed or died since; the row     *)
(* holds the charge once settled, and the whole reservation until then     *)
(* (_reserve_provider_attempt before send, settle and retain after it).    *)
ChargesCovered ==
  \A c \in Calls : billed[c] > 0 =>
    /\ \E e \in Episodes : c \in Rows(e) /\ c \in Requested(e)
    /\ ledger[c].cost = IF ledger[c].settled THEN billed[c] ELSE Reserve

(* A cap is exceeded by no more than what one of the calls under it cost   *)
(* beyond its reservation: only the call in flight can cost more than it   *)
(* reserved, and none is reserved above a cap (Spending.reserve;           *)
(* docs/harness.md, "record overage and stop the next request").           *)
Overages(cs) == {0} \cup {ledger[c].cost - Reserve : c \in cs}
Within(cs, cap) == cap = Uncapped \/ \E o \in Overages(cs) : Spent(cs) <= cap + o

SpendWithinCaps ==
  /\ Within(Booked, CampaignCap)
  /\ \A e \in Episodes : Within(Rows(e), EpisodeCap)

(* An episode has at most one ledger row its journal cannot explain -- no  *)
(* request, or settled without a priced response -- and an unrequested one *)
(* was never charged nor settled.  Restore (_check_requests) tolerates     *)
(* exactly this.                                                           *)
InDoubt(e) ==
  {c \in Rows(e) : \/ c \notin Requested(e)
                   \/ ledger[c].settled /\ c \notin PricedIds(journal[e])}

AtMostOneInDoubt ==
  \A e \in Episodes :
    /\ \A c, d \in InDoubt(e) : c = d
    /\ \A c \in Rows(e) \ Requested(e) : ~ledger[c].settled /\ billed[c] = 0

(* What a terminal reports against the ledger: the worker's own terminal   *)
(* matches its rows exactly; a recovered one charges every requested row   *)
(* what its journal knows, so it differs only by the row in doubt; the     *)
(* placeholder of _finish_failed_execution claims nothing.                 *)
TerminalAccountsForSpend ==
  \A e \in Episodes : summary[e] # None =>
    LET s == summary[e]
    IN  IF s.reason = "EXECUTION_TERMINAL_INCOMPLETE" THEN TRUE
        ELSE IF s.reason \in RecoveryReasons
        THEN /\ s.cost = Spent(Rows(e) \ InDoubt(e))
                           + Reserve * Cardinality(InDoubt(e) \cap Requested(e))
             /\ s.calls = Cardinality(Requested(e))
        ELSE s.cost = Spent(Rows(e)) /\ s.calls = Cardinality(Rows(e))

(* The journal never misreports an action: a commit means the game applied *)
(* it, a rejection that it did not, and an applied action has an intent in *)
(* the journal of exactly one episode (intent before native execution,     *)
(* commit after it).                                                       *)
ActionEvidence ==
  /\ \A e \in Episodes :
       /\ Ids(journal[e], "action_commit") \subseteq applied
       /\ Ids(journal[e], "action_rejected") \cap applied = {}
  /\ \A m \in applied : \E e \in Episodes :
       /\ m \in Ids(journal[e], "action_intent")
       /\ \A d \in Episodes \ {e} : m \notin Ids(journal[d], "action_intent")

(* A terminal that admits no ambiguity hides no action: every action the   *)
(* game applied in that episode is committed in its journal and counted    *)
(* (Store.recover's AMBIGUOUS_ACTION_AFTER_CRASH and classify_exit).       *)
AmbiguousReasons == {"AMBIGUOUS_ACTION_AFTER_CRASH", "NATIVE_FAILURE", "INTERNAL_ERROR",
                     "EXECUTION_TERMINAL_INCOMPLETE"}

NoHiddenAction ==
  \A e \in Episodes :
    (summary[e] # None /\ summary[e].reason \notin AmbiguousReasons) =>
      /\ Ids(journal[e], "action_intent") \cap applied = Ids(journal[e], "action_commit")
      /\ summary[e].committed = Cardinality(Ids(journal[e], "action_commit"))

(* The per-episode allowances count every attempt, retried, refused by the *)
(* provider or lost: no more rows than max_provider_calls and no more      *)
(* applied actions than max_game_actions.                                  *)
AllowancesHold ==
  \A e \in Episodes :
    /\ Cardinality(Rows(e)) <= MaxCalls
    /\ Cardinality(Ids(journal[e], "action_intent") \cap applied) <= MaxActions

(* Nothing is appended after a terminal, no terminal is replaced, and no   *)
(* event is ever lost (Store.append's EPISODE_TERMINATED).                 *)
TerminalIsFinal ==
  [][\A e \in Episodes :
       /\ journal[e] \subseteq journal'[e]
       /\ summary[e] # None => journal'[e] = journal[e] /\ summary'[e] = summary[e]]_vars

(* A ledger row never disappears, changes owner or reopens, its amount     *)
(* changes only as it is settled, and only while its own request is in     *)
(* flight: an interrupted or failed call is never refunded.                *)
NoRefund ==
  [][\A c \in Calls : Reserved(c) =>
       \/ ledger'[c] = ledger[c]
       \/ /\ ledger'[c].episode = ledger[c].episode
          /\ ~ledger[c].settled /\ ledger'[c].settled
          /\ run.call = c /\ c \in Requested(run.episode)]_vars

(* Every episode that was created ends with a terminal, written by the     *)
(* worker or, after a crash, by recovery.                                  *)
CreatedRunsEnd == \A e \in Episodes : (e \in created) ~> (summary[e] # None)

(* Recovery never stops with an error of its own (docs/run-recovery.md:    *)
(* "Run `bh recover` after index loss").                                   *)
RecoveryCompletes == rec.pc # "raised"
-----------------------------------------------------------------------------
(***************************************************************************)
(* Inductive strengthening of ChargesCovered, AtMostOneInDoubt and         *)
(* ActionEvidence: what the place of the worker says about the call and    *)
(* the action it has in hand.                                              *)
(***************************************************************************)
Intents(e) == Ids(journal[e], "action_intent")
Commits(e) == Ids(journal[e], "action_commit")
Rejections(e) == Ids(journal[e], "action_rejected")

(* An episode that was never created owns nothing.                         *)
OnlyCreatedEpisodes ==
  /\ run.pc # "idle" => run.episode \in created
  /\ \A e \in Episodes \ created : Rows(e) = {} /\ journal[e] = {}

(* A request is journaled only for the owner of its row, and a charge only *)
(* follows a journaled request.                                            *)
RowsExplainRequests ==
  /\ \A e \in Episodes : Requested(e) \subseteq Rows(e)
  /\ \A c \in Calls : billed[c] > 0 => \E e \in Episodes : c \in Rows(e) /\ c \in Requested(e)
  /\ \A c \in Calls : Reserved(c) =>
       ledger[c].cost = IF ledger[c].settled THEN billed[c] ELSE Reserve
  /\ \A e \in Episodes : \A c \in Rows(e) \ Requested(e) : ~ledger[c].settled

CallInHand ==
  /\ run.pc \in {"request", "send", "settle", "response"} => run.call \in Rows(run.episode)
  /\ run.pc = "request" => run.call \notin Requested(run.episode)
  /\ run.pc \in {"send", "settle", "response"} => run.call \in Requested(run.episode)
  /\ run.pc \in {"send", "settle"} => ~ledger[run.call].settled
  /\ run.pc = "settle" => run.usage \in {None, billed[run.call]}
  /\ run.pc = "response" /\ run.usage = None => ~ledger[run.call].settled

DoubtIsInHand ==
  /\ \A e \in Episodes : \A c, d \in InDoubt(e) : c = d
  /\ run.pc \in {"request", "response"} => InDoubt(run.episode) \subseteq {run.call}
  /\ run.pc \notin {"idle", "request", "response", "finish"} => InDoubt(run.episode) = {}

ActionInHand ==
  /\ \A e \in Episodes : Commits(e) \cup Rejections(e) \subseteq Intents(e)
  /\ \A d, e \in Episodes : d # e => Intents(d) \cap Intents(e) = {}
  /\ applied \subseteq UNION {Intents(e) : e \in Episodes}
  /\ \A e \in Episodes : Commits(e) \subseteq applied /\ Rejections(e) \cap applied = {}
  /\ run.pc \in {"apply", "commit", "reject"} => run.move \in Intents(run.episode)
  /\ run.pc = "apply" => run.move \notin Rejections(run.episode)
  /\ run.pc = "commit" => run.move \in applied
  /\ run.pc \in {"apply", "reject"} => run.move \notin applied

IInv == /\ OnlyCreatedEpisodes /\ RowsExplainRequests
        /\ CallInHand /\ DoubtIsInHand /\ ActionInHand
(***************************************************************************)
(* Inductive strengthening of AllowancesHold: the worker's two counters    *)
(* are the rows it reserved and the actions it had performed.              *)
(***************************************************************************)
Performed(e) == Intents(e) \cap applied
Deciding == {"decide", "reserve", "request", "send", "settle", "response",
             "parse", "intent", "apply"}

CountsInHand ==
  /\ \A e \in Episodes :
       /\ IsFiniteSet(Rows(e)) /\ Cardinality(Rows(e)) <= MaxCalls
       /\ IsFiniteSet(Performed(e)) /\ Cardinality(Performed(e)) <= MaxActions
  /\ run.pc # "idle" => run.calls = Cardinality(Rows(run.episode))
  /\ run.pc \notin {"idle", "finish"} => run.committed = Cardinality(Performed(run.episode))
  /\ run.pc \in Deciding => run.committed < MaxActions

(***************************************************************************)
(* Inductive strengthening of NoHiddenAction, for recovery that runs       *)
(* alone: what is performed and not yet committed is in the worker's hand  *)
(* or its way out is ambiguous, and nothing moves while recovery decides.  *)
(***************************************************************************)
Hidden(e) == Performed(e) \ Commits(e)

HiddenInHand ==
  /\ run.pc \notin {"idle", "commit", "finish"} => Hidden(run.episode) = {}
  /\ run.pc = "commit" => Hidden(run.episode) = {run.move}
  /\ run.pc = "finish" /\ run.reason \notin AmbiguousReasons =>
       Hidden(run.episode) = {} /\ run.committed = Cardinality(Performed(run.episode))

PlayHasStarted ==
  /\ run.pc \notin {"idle", "start", "finish"} => Start \in journal[run.episode]
  /\ \A e \in Episodes : Intents(e) # {} => Start \in journal[e]

OpenWhileLive ==
  /\ run.pc # "idle" => summary[run.episode] = None
  /\ \A e \in Episodes \ created : summary[e] = None

RecoversAlone ==
  /\ rec.todo \subseteq created
  /\ rec.pc \in {"scan", "write"} => run.pc = "idle"
  /\ rec.pc = "write" => rec.episode \in created /\ rec.seen = journal[rec.episode]

HInv == NoHiddenAction /\ HiddenInHand /\ PlayHasStarted /\ OpenWhileLive /\ RecoversAlone

(***************************************************************************)
(* Inductive strengthening of SpendWithinCaps: an unsettled call in hand   *)
(* is within both caps as it was reserved, so its overage is the first.    *)
(***************************************************************************)
Affordable(cs, cap) == cap = Uncapped \/ Spent(cs) <= cap

CapsInHand ==
  /\ IsFiniteSet(Booked)
  /\ run.pc \in {"request", "send", "settle"} =>
       Affordable(Booked, CampaignCap) /\ Affordable(Rows(run.episode), EpisodeCap)

(***************************************************************************)
(* Inductive strengthening of TerminalAccountsForSpend, for recovery that  *)
(* runs alone: the worker's own sum is its rows, a priced response repeats *)
(* its row, and no row precedes the start that a terminal looks for.       *)
(***************************************************************************)
Responses(e) == {ev \in journal[e] : ev.kind = "provider_response"}

SpentInHand ==
  /\ run.pc # "idle" => run.cost = Spent(Rows(run.episode))
  /\ run.pc = "response" /\ run.usage # None =>
       ledger[run.call].settled /\ ledger[run.call].cost = run.usage
  /\ run.pc = "finish" => run.reason \notin RecoveryReasons

ResponsesMatchRows ==
  \A e \in Episodes : \A ev \in Responses(e) : ev.cost # None =>
    /\ ev.id \in Rows(e)
    /\ ledger[ev.id].settled /\ ledger[ev.id].cost = ev.cost

StartBeforeRows == \A e \in Episodes : Rows(e) # {} => Start \in journal[e]
SeenIsPriced == rec.pc = "write" => ~Unpriced(rec.seen)

AInv == /\ TerminalAccountsForSpend /\ SpentInHand /\ ResponsesMatchRows
        /\ StartBeforeRows /\ SeenIsPriced
=============================================================================
