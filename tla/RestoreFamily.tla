--------------------------- MODULE RestoreFamily ---------------------------
(***************************************************************************)
(* One standalone run and the children that continue it on its ledger.     *)
(*                                                                         *)
(* A root that stopped may be restored at its latest boundary (restore     *)
(* children, which share its caps) or, when it stopped for money, funded   *)
(* further (budget children, with a larger combined cap).  All of them     *)
(* spend from the root's spending.json, and every admission first checks   *)
(* that the ledger, the journals and the terminals tell one story.         *)
(*                                                                         *)
(* A previewed plan is bound by hash, so a confirmed start is a start at a *)
(* state that could be previewed: previews are not state here.             *)
(***************************************************************************)
EXTENDS Integers, Sequences, FiniteSets, FiniteSetsExt

CONSTANTS
    Services,       \* server processes that share the data directory
    MaxChildren,    \* bound: continuations of the root
    MaxCalls,       \* budgets.max_provider_calls
    MaxRows,        \* bound: rows of the ledger, above MaxCalls
    Reserve,        \* worst-case cost of a call
    Actual,         \* cost of an answered call
    Cap,            \* binding cap of the root
    RaisedCaps      \* combined caps an operator may grant

ASSUME FamilyAssumption ==
    /\ IsFiniteSet(Services) /\ Services # {}
    /\ {MaxChildren, MaxCalls, MaxRows, Reserve, Actual, Cap} \subseteq Nat
    /\ 0 < Actual /\ Actual < Reserve
    /\ RaisedCaps \subseteq Nat

VARIABLES
    meta,     \* manifest of each episode: kind, parent, what its admission froze
    log,      \* journal of each episode, as far as admissions read it
    ledger,   \* spending.json of the root: sequence of rows
    svc,      \* each service's admission in progress
    thr       \* each service's worker thread

vars == <<meta, log, ledger, svc, thr>>

Root == 0
Episodes == Root .. MaxChildren
Calls == 1 .. MaxRows

Row == [owner : Episodes, cost : {Reserve, Actual}, settled : BOOLEAN]

NoTerminal == [why |-> "none", calls |-> 0, cost |-> 0]
Reasons == {"none", "won", "cost_cap", "call_limit", "stopped", "failed",
            "refused", "incomplete", "recovered"}

Absent == [kind |-> "absent", parent |-> Root, calls |-> 0,
           admitted |-> <<>>, cap |-> Cap]
NoEvents == [stage |-> "empty", pending |-> FALSE, requests |-> {},
             responses |-> {}, unpriced |-> {}, terminal |-> NoTerminal]

NoAdmission == [step |-> "idle", parent |-> Root, ledger |-> <<>>, cap |-> Cap]
NoThread == [step |-> "none", ep |-> Root, calls |-> 0, cost |-> 0, call |-> 0]

Stages == {"empty", "started", "observed"}
ThreadSteps == {"none", "starting", "opened", "idle", "acting",
                "reserved", "sent", "settled"}

---------------------------------------------------------------------------
(* Reading the family *)

Exists(e) == meta[e].kind # "absent"
Ended(e) == log[e].terminal.why # "none"
Started(e) == log[e].stage # "empty"

Owned(rows, S) == {i \in DOMAIN rows : rows[i].owner \in S}
CostOf(rows, S) ==
  LET total[n \in 0 .. Len(rows)] ==
        IF n = 0 THEN 0
        ELSE total[n - 1] + (IF n \in S THEN rows[n].cost ELSE 0)
  IN  total[Len(rows)]
Total(rows) == CostOf(rows, DOMAIN rows)

\* Bug: recovery's totals are taken for the runner's.
OwnCalls_RecoveredInherits(e) ==
    IF ~Started(e) THEN log[e].terminal.calls ELSE log[e].terminal.calls - meta[e].calls

\* The runner counts inherited calls, a pre-run failure and recovery do not.
OwnCalls(e) ==
    LET t == log[e].terminal
    IN  IF ~Started(e) \/ t.why = "recovered" THEN t.calls
                                              ELSE t.calls - meta[e].calls

RestoreOwners == {Root} \cup {e \in Episodes : meta[e].kind = "restore"}

\* Bug: a row without a request is a mismatch even when it is unsettled.
RequestsAgree_NoCrash(e) ==
    LET rows == Owned(ledger, {e}) IN
    /\ log[e].unpriced = {}
    /\ log[e].requests = rows
    /\ \A i \in rows : ledger[i].settled => i \in log[e].responses

\* Each request has a row that the journal explains; a row without a request
\* is a reservation a crash left behind.  An unpriced response raises.
RequestsAgree(e) ==
    LET rows == Owned(ledger, {e}) IN
    /\ log[e].unpriced = {}
    /\ log[e].requests \subseteq rows
    /\ \A i \in rows : ledger[i].settled =>
            i \in log[e].requests /\ i \in log[e].responses

\* The ledger may exceed the terminal, never fall short of it.
TerminalAgrees(e) ==
    LET rows == Owned(ledger, {e}) IN
    Ended(e) =>
        /\ log[e].terminal.why # "incomplete"
        /\ ~Started(e) => log[e].terminal.calls = 0
        /\ 0 <= OwnCalls(e) /\ OwnCalls(e) <= Cardinality(rows)
        /\ log[e].terminal.cost <= CostOf(ledger, rows)

RowsOwnedBy(S) == \A i \in DOMAIN ledger : ledger[i].owner \in S

\* Bug: only the parent's own terminal is asked whether the game was won.
RestoreSpending_IgnoresSiblings(parent) ==
    /\ RowsOwnedBy(RestoreOwners)
    /\ \A e \in RestoreOwners :
        /\ e \notin {parent, Root} => Ended(e)
        /\ RequestsAgree(e)
        /\ TerminalAgrees(e)

RestoreSpending(parent) ==
    /\ RowsOwnedBy(RestoreOwners)
    /\ \A e \in RestoreOwners :
        /\ e \notin {parent, Root} => Ended(e)
        /\ e # Root => log[e].terminal.why # "won"
        /\ RequestsAgree(e)
        /\ TerminalAgrees(e)

LatestBoundary(parent) ==
    /\ log[parent].terminal.why # "won"
    /\ log[parent].stage = "observed"
    /\ ~log[parent].pending

\* Only restorations lie between the parent and a standalone root.
RestoreRoot(parent) == meta[parent].kind \in {"root", "restore"}

\* The allowance and the caps leave room for one more call.
Affordable(cap) == Len(ledger) < MaxCalls /\ Total(ledger) + Reserve <= cap

PrepareRestore(parent) ==
    /\ RestoreRoot(parent)
    /\ LatestBoundary(parent)
    /\ RestoreSpending(parent)
    /\ Affordable(Cap)

MatchingSpend(rows, S, calls, cost) ==
    /\ calls >= 0
    /\ Cardinality(S) = calls
    /\ CostOf(rows, S) = cost

BudgetChildren == {e \in Episodes : meta[e].kind = "budget"}

\* The entries of the ledger that the episodes of S own, by their keys.
Preceding(S) == [i \in Owned(ledger, S) |-> ledger[i]]

\* Pending children that froze exactly the entries of those before them; one
\* that spent nothing goes before one that did.
Accounting(before) ==
    LET fits == {e \in BudgetChildren \ before :
                    /\ meta[e].admitted = Preceding(before)
                    /\ meta[e].calls = Cardinality(Owned(ledger, before))}
        free == {e \in fits : Owned(ledger, {e}) = {}}
    IN  IF fits = {} THEN before
        ELSE before \cup {IF free # {} THEN Min(free) ELSE Min(fits)}

\* The episodes accounted for after n children.
Accounted[n \in 0 .. MaxChildren] ==
    IF n = 0 THEN {Root} ELSE Accounting(Accounted[n - 1])

OrderedChildren ==
    LET all == Accounted[MaxChildren] IN
    /\ BudgetChildren \subseteq all
    /\ RowsOwnedBy(all)

ReconcileParent ==
    MatchingSpend(ledger, Owned(ledger, {Root}),
                  log[Root].terminal.calls, log[Root].terminal.cost)

ReconcileSharedLedger ==
    /\ ledger # <<>>
    /\ ReconcileParent
    /\ OrderedChildren
    /\ \A e \in BudgetChildren :
        /\ Ended(e)
        /\ ~Started(e) => log[e].terminal.calls = 0
        /\ MatchingSpend(ledger, Owned(ledger, {e}), OwnCalls(e), log[e].terminal.cost)

\* A standalone root that its money stopped, at a boundary.
ReadParent == log[Root].terminal.why = "cost_cap" /\ log[Root].stage = "observed"

\* The rest of the root's checkpoint is restored as it was; the cap must grow.
RestoreState(cap) == Cap < cap

AdmitLedger(cap) == ReconcileSharedLedger /\ Total(ledger) < cap

PrepareBudget(cap) == ReadParent /\ RestoreState(cap) /\ AdmitLedger(cap)

---------------------------------------------------------------------------
Init ==
    /\ meta = [e \in Episodes |-> Absent]
    /\ log = [e \in Episodes |-> NoEvents]
    /\ ledger = <<>>
    /\ svc = [s \in Services |-> NoAdmission]
    /\ thr = [s \in Services |-> NoThread]

(* Admission *)

\* The in-process guard is free and no worker thread of this process lives.
Admission(s) == svc[s].step = "idle" /\ thr[s].step = "none"

\* Worker lock: taken by a thread once it has begun to execute.
WorkerBusy == \E s \in Services : thr[s].step \notin {"none", "starting"}

\* The file lock of one kind of admission; both are held until the launch.
Admitting(step) == \E s \in Services : svc[s].step = step

\* Bug: the resumed runner starts with a fresh call allowance.
Prepared_FreshCalls(e, calls) == [NoThread EXCEPT !.step = "starting", !.ep = e]

\* What execute prepares for the thread; a resumed run inherits the calls.
Prepared(e, calls) == [NoThread EXCEPT !.step = "starting", !.ep = e, !.calls = calls]

Launch(s, e, calls) == thr' = [thr EXCEPT ![s] = Prepared(e, calls)]

NextChild == {e \in Episodes \ {Root} : ~Exists(e) /\ \A d \in 1 .. (e - 1) : Exists(d)}

\* RunService.start: create the root and hand it to the worker thread.
Start(s) ==
    /\ Admission(s)
    /\ ~Exists(Root)
    /\ meta' = [meta EXCEPT ![Root].kind = "root"]
    /\ Launch(s, Root, 0)
    /\ UNCHANGED <<log, ledger, svc>>

\* start_restore up to the preflight: the plan is prepared and confirmed.
StartRestore(s, parent) ==
    /\ Admission(s)
    /\ ~Admitting("restoring")
    /\ Exists(parent)
    /\ PrepareRestore(parent)
    /\ NextChild # {}
    /\ svc' = [svc EXCEPT ![s] = [step |-> "restoring", parent |-> parent,
                                  ledger |-> ledger, cap |-> Cap]]
    /\ UNCHANGED <<meta, log, ledger, thr>>

\* continue_budget up to the child's creation, for a total ceiling of cap.
ContinueBudget(s, cap) ==
    /\ Admission(s)
    /\ ~Admitting("funding")
    /\ PrepareBudget(cap)
    /\ Affordable(cap)
    /\ NextChild # {}
    /\ svc' = [svc EXCEPT ![s] = [step |-> "funding", parent |-> Root,
                                  ledger |-> ledger, cap |-> cap]]
    /\ UNCHANGED <<meta, log, ledger, thr>>

\* _runtime_preflight tried the worker lock and lost: WORKER_BUSY.  Workers of
\* other runs and campaigns share that lock, so it may always be taken.
PreflightRefuses(s) ==
    /\ svc[s].step = "restoring"
    /\ svc' = [svc EXCEPT ![s] = NoAdmission]
    /\ UNCHANGED <<meta, log, ledger, thr>>

\* The child's manifest freezes the plan in hand, prepared earlier.
Admit(s, kind) ==
    /\ \E e \in NextChild :
        /\ meta' = [meta EXCEPT ![e] =
                [kind |-> kind, parent |-> svc[s].parent, calls |-> Len(svc[s].ledger),
                 admitted |-> svc[s].ledger, cap |-> svc[s].cap]]
        /\ Launch(s, e, Len(svc[s].ledger))
    /\ svc' = [svc EXCEPT ![s] = NoAdmission]
    /\ UNCHANGED <<log, ledger>>

\* The preflight found the worker lock free: create the child and launch it.
RestoreChild(s) == svc[s].step = "restoring" /\ ~WorkerBusy /\ Admit(s, "restore")

\* Still under the admission lock of the funding: create the child and launch.
FundChild(s) == svc[s].step = "funding" /\ Admit(s, "budget")

---------------------------------------------------------------------------
(* The worker thread *)

Go(s, step) == thr' = [thr EXCEPT ![s].step = step]

Terminal(why, calls, cost) == [why |-> why, calls |-> calls, cost |-> cost]

\* The thread ends; the terminal is written unless the journal has one.
EndWith(s, terminal) ==
    LET e == thr[s].ep IN
    /\ log' = [log EXCEPT ![e].terminal = IF Ended(e) THEN @ ELSE terminal]
    /\ thr' = [thr EXCEPT ![s] = NoThread]

\* The runner's own terminal: calls with the inherited ones, cost without.
RunnerEnds(s, why) == EndWith(s, Terminal(why, thr[s].calls, thr[s].cost))

\* execute_locked takes the lock and the runner journals episode_start; a
\* journal that recovery closed meanwhile refuses it.
OpenRun(s) ==
    /\ thr[s].step = "starting"
    /\ ~WorkerBusy
    /\ IF Ended(thr[s].ep)
       THEN thr' = [thr EXCEPT ![s] = NoThread] /\ UNCHANGED log
       ELSE log' = [log EXCEPT ![thr[s].ep].stage = "started"] /\ Go(s, "opened")
    /\ UNCHANGED <<meta, ledger, svc>>

\* Busy lock, or the game, protocol or checkpoint fails to come up: zeros.
LaunchFails(s) ==
    /\ thr[s].step = "starting"
    /\ EndWith(s, Terminal("refused", 0, 0))
    /\ UNCHANGED <<meta, ledger, svc>>

\* The first observation and its checkpoint: the boundary to restore.
Observe(s) ==
    /\ thr[s].step = "opened"
    /\ log' = [log EXCEPT ![thr[s].ep].stage = "observed"]
    /\ Go(s, "idle")
    /\ UNCHANGED <<meta, ledger, svc>>

\* reserve: the call limit, then the caps over the shared ledger.
ReserveCall(s) ==
    LET t == thr[s] IN
    /\ t.step = "idle"
    /\ t.calls < MaxCalls
    /\ Total(ledger) + Reserve <= meta[t.ep].cap
    /\ Len(ledger) < MaxRows
    /\ ledger' = Append(ledger, [owner |-> t.ep, cost |-> Reserve, settled |-> FALSE])
    /\ thr' = [thr EXCEPT ![s].step = "reserved", ![s].calls = @ + 1,
                          ![s].cost = @ + Reserve, ![s].call = Len(ledger')]
    /\ UNCHANGED <<meta, log, svc>>

RefuseCall(s) ==
    LET t == thr[s] IN
    /\ t.step = "idle"
    /\ \/ t.calls >= MaxCalls /\ RunnerEnds(s, "call_limit")
       \/ /\ t.calls < MaxCalls
          /\ Total(ledger) + Reserve > meta[t.ep].cap
          /\ RunnerEnds(s, "cost_cap")
    /\ UNCHANGED <<meta, ledger, svc>>

LogRequest(s) ==
    /\ thr[s].step = "reserved"
    /\ log' = [log EXCEPT ![thr[s].ep].requests = @ \cup {thr[s].call}]
    /\ Go(s, "sent")
    /\ UNCHANGED <<meta, ledger, svc>>

\* No usable answer: the reservation stays as it is.
CallFails(s) ==
    /\ thr[s].step = "sent"
    /\ Go(s, "idle")
    /\ UNCHANGED <<meta, log, ledger, svc>>

Settle(s) ==
    LET t == thr[s] IN
    /\ t.step = "sent"
    /\ ledger' = [ledger EXCEPT ![t.call].cost = Actual, ![t.call].settled = TRUE]
    /\ thr' = [thr EXCEPT ![s].step = "settled", ![s].cost = @ - (Reserve - Actual)]
    /\ UNCHANGED <<meta, log, svc>>

LogResponse(s) ==
    /\ thr[s].step = "settled"
    /\ log' = [log EXCEPT ![thr[s].ep].responses = @ \cup {thr[s].call}]
    /\ Go(s, "idle")
    /\ UNCHANGED <<meta, ledger, svc>>

\* An answer without usage is journaled without a price and ends the run.
UsageUnknown(s) ==
    /\ thr[s].step = "sent"
    /\ LET e == thr[s].ep IN
       log' = [log EXCEPT ![e].unpriced = @ \cup {thr[s].call},
                          ![e].terminal = Terminal("failed", thr[s].calls, thr[s].cost)]
    /\ thr' = [thr EXCEPT ![s] = NoThread]
    /\ UNCHANGED <<meta, ledger, svc>>

\* The action is journaled before it is applied, and its commit afterwards.
LogIntent(s) ==
    /\ thr[s].step = "idle"
    /\ log' = [log EXCEPT ![thr[s].ep].pending = TRUE]
    /\ Go(s, "acting")
    /\ UNCHANGED <<meta, ledger, svc>>

LogCommit(s) ==
    /\ thr[s].step = "acting"
    /\ log' = [log EXCEPT ![thr[s].ep].pending = FALSE]
    /\ Go(s, "idle")
    /\ UNCHANGED <<meta, ledger, svc>>

\* A verified end of the game, an operator's stop, an exception of the runner.
FinishRun(s) ==
    /\ \/ thr[s].step = "idle" /\ \E why \in {"won", "stopped"} : RunnerEnds(s, why)
       \/ thr[s].step \notin {"none", "starting"} /\ RunnerEnds(s, "failed")
    /\ UNCHANGED <<meta, ledger, svc>>

\* The runner's terminal failed; the executor writes zeros in its place.
LoseTerminal(s) ==
    /\ thr[s].step \notin {"none", "starting"}
    /\ EndWith(s, Terminal("incomplete", 0, 0))
    /\ UNCHANGED <<meta, ledger, svc>>

---------------------------------------------------------------------------
(* Faults *)

Crash(s) ==
    /\ svc[s] # NoAdmission \/ thr[s] # NoThread
    /\ svc' = [svc EXCEPT ![s] = NoAdmission]
    /\ thr' = [thr EXCEPT ![s] = NoThread]
    /\ UNCHANGED <<meta, log, ledger>>

\* `bh recover` beside idle workers: totals from what was journaled.
Recover ==
    /\ ~WorkerBusy
    /\ \E e \in Episodes : Exists(e) /\ ~Ended(e)
    /\ \A e \in Episodes : log[e].unpriced = {}
    /\ log' = [e \in Episodes |->
        IF ~Exists(e) \/ Ended(e) THEN log[e]
        ELSE [log[e] EXCEPT !.terminal = Terminal("recovered",
                Cardinality(log[e].requests),
                Actual * Cardinality(log[e].responses)
                  + Reserve * Cardinality(log[e].requests \ log[e].responses))]]
    /\ UNCHANGED <<meta, ledger, svc, thr>>

Work(s) ==
    \/ OpenRun(s) \/ LaunchFails(s) \/ Observe(s)
    \/ ReserveCall(s) \/ RefuseCall(s) \/ LogRequest(s) \/ CallFails(s)
    \/ Settle(s) \/ LogResponse(s) \/ UsageUnknown(s)
    \/ LogIntent(s) \/ LogCommit(s) \/ FinishRun(s) \/ LoseTerminal(s)

Next ==
    \/ \E s \in Services :
        \/ Start(s)
        \/ \E parent \in Episodes : StartRestore(s, parent)
        \/ \E cap \in RaisedCaps : ContinueBudget(s, cap)
        \/ PreflightRefuses(s) \/ RestoreChild(s) \/ FundChild(s)
        \/ Work(s) \/ Crash(s)
    \/ Recover

Spec == Init /\ [][Next]_vars

---------------------------------------------------------------------------
(* Properties *)

Manifest == [kind : {"absent", "root", "restore", "budget"}, parent : Episodes,
             calls : Nat, admitted : Seq(Row), cap : Nat]
Outcome == [why : Reasons, calls : Nat, cost : Int]
Journal == [stage : Stages, pending : BOOLEAN, requests : SUBSET Calls,
            responses : SUBSET Calls, unpriced : SUBSET Calls, terminal : Outcome]
InHand == [step : {"idle", "restoring", "funding"}, parent : Episodes,
           ledger : Seq(Row), cap : Nat]
Thread == [step : ThreadSteps, ep : Episodes, calls : Nat, cost : Int, call : Calls \cup {0}]

(* Every variable is well typed. *)
TypeOK ==
    /\ meta \in [Episodes -> Manifest]
    /\ log \in [Episodes -> Journal]
    /\ ledger \in Seq(Row) /\ Len(ledger) <= MaxRows
    /\ svc \in [Services -> InHand]
    /\ thr \in [Services -> Thread]

(* docs/run-recovery.md: "Restore children share the root ledger and
   provider-call allowance; neither retries nor code updates reset limits."
   However often the family crashes, is restored and is funded, it never makes
   more calls than one run may. *)
SharedAllowance == Len(ledger) <= MaxCalls

\* What a crash, or a terminal that could not be written, takes away.
LostRequest(e) == ~(Owned(ledger, {e}) \subseteq log[e].requests)
LostResponse(e) ==
    \E i \in Owned(ledger, {e}) : ledger[i].settled /\ i \notin log[e].responses
Live(e) == \E s \in Services : thr[s].ep = e /\ thr[s].step # "none"
Whole(e) ==
    /\ ~LostResponse(e)
    /\ log[e].unpriced = {}
    /\ log[e].terminal.why # "incomplete"

(* Restore's reading of the ledger never refuses a family whose journals kept
   their responses: reservations that a crash left without a request are
   retained charges, not a mismatch (restore_ledger.py, "must not refund"). *)
CrashesStayRestorable ==
    (\A e \in RestoreOwners : Whole(e) /\ ~Live(e))
        => \A e \in RestoreOwners : RequestsAgree(e) /\ TerminalAgrees(e)

(* Funding can always continue a root that stopped for money, in any order of
   children that spent, spent nothing, failed to start or were recovered, as
   long as their journals kept requests and responses: the admission order is
   found again from the frozen ledgers alone. *)
AdmissionsReconcile ==
    (/\ log[Root].terminal.why = "cost_cap"
     /\ ledger # <<>>
     /\ \A e \in BudgetChildren : Whole(e) /\ ~LostRequest(e) /\ Ended(e) /\ ~Live(e))
        => ReconcileSharedLedger

(* A won continuation closes the family: nothing is restored after it. *)
WonFamiliesStayClosed ==
    [][\A e \in Episodes :
        (meta[e].kind # "restore" /\ meta'[e].kind = "restore")
            => \A d \in RestoreOwners : log[d].terminal.why # "won"]_vars
---------------------------------------------------------------------------
(* The inductive strengthening of these properties, for one server process. *)
OneService == \A s, t \in Services : s = t

Spent(e) == CostOf(ledger, Owned(ledger, {e}))

(* Episodes come one after the other, and a child has frozen the ledger as it
   was: the rows of those before it, and none of its own. *)
Manifests ==
    /\ \A e \in Episodes :
        /\ ~Exists(e) => meta[e] = Absent
        /\ meta[e].kind = "root" => e = Root
        /\ Exists(e) =>
            /\ \A d \in Episodes : d < e => Exists(d) /\ meta[d].calls <= meta[e].calls
            /\ meta[e].calls <= Len(ledger)
            /\ meta[e].admitted = SubSeq(ledger, 1, meta[e].calls)
    /\ meta[Root].kind \in {"absent", "root"} /\ meta[Root].calls = 0 /\ meta[Root].cap = Cap

(* A row belongs to the episode that ran when it was reserved. *)
Rows ==
    \A i \in DOMAIN ledger :
        LET r == ledger[i]
        IN  /\ r.cost = IF r.settled THEN Actual ELSE Reserve
            /\ r.settled => i \in log[r.owner].requests
            /\ Exists(r.owner) /\ Started(r.owner)
            /\ meta[r.owner].calls < i
            /\ \A e \in Episodes : Exists(e) /\ r.owner < e => i <= meta[e].calls

(* What a terminal claims: the runner counts with what it inherited and spent,
   recovery what was journaled, a launch that failed nothing. *)
Priced(e) == Actual * Cardinality(log[e].responses)
                + Reserve * Cardinality(log[e].requests \ log[e].responses)

Claims(e) ==
    LET t == log[e].terminal
    IN  /\ t.why = "refused" => ~Started(e) /\ t.calls = 0 /\ t.cost = 0
        /\ t.why = "recovered" =>
              t.calls = Cardinality(log[e].requests) /\ t.cost = Priced(e)
        /\ t.why \in {"won", "cost_cap", "call_limit", "stopped", "failed"} =>
              /\ Started(e)
              /\ t.calls = meta[e].calls + Cardinality(Owned(ledger, {e}))
              /\ t.cost = Spent(e)

Journals ==
    \A e \in Episodes :
        /\ ~Exists(e) => log[e] = NoEvents
        /\ log[e].requests \subseteq Owned(ledger, {e})
        /\ log[e].responses \subseteq {i \in log[e].requests : ledger[i].settled}
        /\ Claims(e)

(* The one thread runs the latest episode, which has not ended, and has counted
   the whole ledger; the call it makes is the last row. *)
Calling(t) ==
    /\ t.call = Len(ledger) /\ t.call \in DOMAIN ledger
    /\ ledger[t.call].owner = t.ep
    /\ ledger[t.call].settled <=> t.step = "settled"
    /\ t.step # "reserved" => t.call \in log[t.ep].requests

Running(t) ==
    /\ Exists(t.ep) /\ \A e \in Episodes : Exists(e) => e <= t.ep
    /\ t.calls = Len(ledger) /\ t.cost = Spent(t.ep)
    /\ IF t.step = "starting" THEN ~Started(t.ep) ELSE Started(t.ep) /\ ~Ended(t.ep)
    /\ t.step \in {"reserved", "sent", "settled"} => Calling(t)

Threads ==
    \A s \in Services : thr[s].step # "none" => svc[s].step = "idle" /\ Running(thr[s])

(* A plan in hand is still true of the ledger and of the family. *)
Plans ==
    \A s \in Services :
        svc[s].step # "idle" =>
            /\ svc[s].ledger = ledger
            /\ Exists(Root)
            /\ svc[s].step = "restoring" => \A e \in RestoreOwners : log[e].terminal.why # "won"

(* A root that won, or stopped for money, is never restored. *)
Closed ==
    log[Root].terminal.why \in {"won", "cost_cap"} =>
        /\ \A e \in Episodes : meta[e].kind # "restore"
        /\ \A s \in Services : svc[s].step # "restoring"
        /\ log[Root].terminal.why = "cost_cap" => Spent(Root) + Reserve > Cap

IInv ==
    /\ TypeOK /\ SharedAllowance
    /\ Manifests /\ Rows /\ Journals /\ Threads /\ Plans /\ Closed
=============================================================================
