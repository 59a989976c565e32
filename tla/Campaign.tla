------------------------------- MODULE Campaign -------------------------------
(***************************************************************************)
(* The scheduling of one frozen campaign: `run_batch` invocations of the   *)
(* dashboard's worker thread and of `bh batch` processes, the ledger they  *)
(* share, the write-once stop.json, report commands that reconcile it, and *)
(* recovery.  An episode is seen from outside: what it spends, and the     *)
(* outcome and reason of its terminal, if it gets one (EpisodeRun).        *)
(***************************************************************************)
EXTENDS Integers, FiniteSets

CONSTANTS
  NumSlots,      \* slots of plan.json, taken in order
  Price,         \* reservation of one call of each slot's agent; 0 for a scripted one
  Episodes,      \* episode ids; bounds the attempts of a campaign
  Schedulers,    \* processes that may run run_batch
  None,          \* absent value
  CampaignCap,   \* max_batch_cost_usd; a campaign refuses "uncapped"
  Charges        \* what a settled call costs; an unsettled one costs its reservation

Slots == 1 .. NumSlots

ASSUME SlotsAssumption == NumSlots \in Nat /\ Price \in [Slots -> Nat]
ASSUME LedgerAssumption == CampaignCap \in Nat /\ Charges \subseteq Nat
ASSUME IdsAssumption == None \notin Episodes \cup Nat /\ IsFiniteSet(Episodes)

VARIABLES
  (* durable *)
  episode,   \* manifest slot and terminal of each episode
  spent,     \* total of the campaign's spending.json
  stopFile,  \* stop.json, or None
  (* process memory *)
  sched,     \* each run_batch invocation
  report     \* a report or export command

vars == <<episode, spent, stopFile, sched, report>>

-----------------------------------------------------------------------------
NoEpisode == [slot |-> 0, outcome |-> None, reason |-> None]
Resting == [pc |-> "idle", slot |-> 0, episode |-> None, stop |-> FALSE,
            ran |-> FALSE, seen |-> [e \in Episodes |-> NoEpisode]]
NotReporting == [pc |-> "idle", seen |-> [e \in Episodes |-> NoEpisode]]

AttemptsOf(view, s) == {e \in Episodes : view[e].slot = s}
Terminated(view, e) == view[e].outcome # None

\* Mutant: a slot is retried as long as nothing but infrastructure failed.
MayAttempt_AnyNumber(view, s) ==
  \A e \in AttemptsOf(view, s) : view[e].outcome = "INFRASTRUCTURE_FAILURE"

MayAttempt(view, s) ==
  /\ Cardinality(AttemptsOf(view, s)) < 2
  /\ \A e \in AttemptsOf(view, s) : view[e].outcome = "INFRASTRUCTURE_FAILURE"

(***************************************************************************)
(* The refusals that stop a campaign.  batch_attempts reads them from the  *)
(* terminals; the earliest one becomes the stop (there is at most one, see *)
(* StopIsFounded, so the order of timestamps is left out).                 *)
(***************************************************************************)
CampaignReasons == {"CAMPAIGN_COST_CAP", "EPISODE_AND_CAMPAIGN_COST_CAP"}
Refusals(view) == {e \in Episodes : view[e].reason \in CampaignReasons}

EpisodeStop(view, recovered) ==
  LET e == CHOOSE x \in Refusals(view) : TRUE
  IN  [stage |-> "episode", slot |-> view[e].slot, episode |-> e,
       reason |-> view[e].reason, recovered |-> recovered]

PreflightStop(s) ==
  [stage |-> "preflight", slot |-> s, episode |-> None,
   reason |-> "CAMPAIGN_COST_CAP", recovered |-> FALSE]

\* Mutant: record_stop trusts the caller's earlier read.
RecordStop_Unchecked(value) == stopFile' = value

(***************************************************************************)
(* record_stop, under stop.lock: the first stop stays.                     *)
(***************************************************************************)
RecordStop(value) == stopFile' = IF stopFile = None THEN value ELSE stopFile

\* Mutant: the cap is refused one step early.
Affordable_Strict(s) == Price[s] = 0 \/ spent + Price[s] < CampaignCap
Affordable(s) == Price[s] = 0 \/ spent + Price[s] <= CampaignCap

-----------------------------------------------------------------------------
(***************************************************************************)
(* run_batch holds scheduling.lock for a whole pass.                       *)
(***************************************************************************)
Holding(p) == sched[p].pc \notin {"idle", "queued"}

\* Mutant: passes are not serialized.
LockFree_Always == TRUE
LockFree == \A p \in Schedulers : ~Holding(p)

Enqueue(p) ==
  /\ sched[p].pc = "idle"
  /\ sched' = [sched EXCEPT ![p] = [Resting EXCEPT !.pc = "queued"]]
  /\ UNCHANGED <<episode, spent, stopFile, report>>

Acquire(p) ==
  /\ sched[p].pc = "queued"
  /\ LockFree
  /\ sched' = [sched EXCEPT ![p].pc = "reconcile", ![p].slot = 1, ![p].seen = episode]
  /\ UNCHANGED <<episode, spent, stopFile, report>>

(***************************************************************************)
(* reconcile_stop: read stop.json, look for a refusal, and record it in a  *)
(* second step that reads stop.json again.                                 *)
(***************************************************************************)
\* Mutant: only stop.json is consulted, not the terminals.
Reconcile_FileOnly(p) ==
  /\ sched[p].pc = "reconcile"
  /\ sched' = IF stopFile # None THEN [sched EXCEPT ![p] = Resting]
              ELSE [sched EXCEPT ![p].pc = "slots"]
  /\ UNCHANGED <<episode, spent, stopFile, report>>

Reconcile(p) ==
  /\ sched[p].pc = "reconcile"
  /\ sched' = IF stopFile # None THEN [sched EXCEPT ![p] = Resting]
              ELSE IF Refusals(sched[p].seen) # {} THEN [sched EXCEPT ![p].pc = "record"]
              ELSE [sched EXCEPT ![p].pc = "slots"]
  /\ UNCHANGED <<episode, spent, stopFile, report>>

Record(p) ==
  /\ sched[p].pc = "record"
  /\ RecordStop(EpisodeStop(sched[p].seen, ~sched[p].ran))
  /\ sched' = [sched EXCEPT ![p] = Resting]
  /\ UNCHANGED <<episode, spent, report>>

\* Mutant: a slot that needs no attempt is looked at again.
SkipSlot_Stays(p) ==
  /\ sched[p].pc = "slots" /\ sched[p].slot \in Slots
  /\ ~sched[p].stop
  /\ ~MayAttempt(sched[p].seen, sched[p].slot)
  /\ UNCHANGED vars

SkipSlot(p) ==
  /\ sched[p].pc = "slots" /\ sched[p].slot \in Slots
  /\ ~sched[p].stop
  /\ ~MayAttempt(sched[p].seen, sched[p].slot)
  /\ sched' = [sched EXCEPT ![p].slot = @ + 1]
  /\ UNCHANGED <<episode, spent, stopFile, report>>

Preflight(p) ==
  /\ sched[p].pc = "slots" /\ sched[p].slot \in Slots
  /\ ~sched[p].stop
  /\ MayAttempt(sched[p].seen, sched[p].slot)
  /\ IF Affordable(sched[p].slot)
     THEN /\ sched' = [sched EXCEPT ![p].pc = "create"]
          /\ UNCHANGED stopFile
     ELSE /\ RecordStop(PreflightStop(sched[p].slot))
          /\ sched' = [sched EXCEPT ![p] = Resting]
  /\ UNCHANGED <<episode, spent, report>>

EndPass(p) ==
  /\ sched[p].pc = "slots"
  /\ sched[p].slot \notin Slots \/ sched[p].stop
  /\ sched' = [sched EXCEPT ![p] = Resting]
  /\ UNCHANGED <<episode, spent, stopFile, report>>

(***************************************************************************)
(* service.execute: create the episode, play it, and come back with or     *)
(* without a terminal; _run_batch swallows the exception when the episode  *)
(* exists, then reads every attempt again.                                 *)
(***************************************************************************)
Unborn == {e \in Episodes : episode[e].slot = 0}

CreateAttempt(p) ==
  /\ sched[p].pc = "create"
  /\ Unborn # {}
  /\ LET e == CHOOSE e \in Unborn : TRUE IN
       /\ episode' = [episode EXCEPT ![e].slot = sched[p].slot]
       /\ sched' = [sched EXCEPT ![p].pc = "run", ![p].episode = e]
  /\ UNCHANGED <<spent, stopFile, report>>

Spend(p) ==
  /\ sched[p].pc = "run"
  /\ Price[sched[p].slot] > 0
  /\ Affordable(sched[p].slot)
  /\ \E charge \in Charges \cup {Price[sched[p].slot]} : spent' = spent + charge
  /\ UNCHANGED <<episode, stopFile, sched, report>>

Ends(p) ==
  {<<"SCORED", None>>, <<"INFRASTRUCTURE_FAILURE", None>>, <<None, None>>}
  \cup (IF sched[p].stop THEN {<<"OPERATOR_ABORT", "OPERATOR_REQUEST">>} ELSE {})
  \cup (IF Affordable(sched[p].slot) THEN {}
        ELSE {<<"CAMPAIGN_INTERRUPTED", "CAMPAIGN_COST_CAP">>,
              <<"SCORED", "EPISODE_AND_CAMPAIGN_COST_CAP">>})

EndAttempt(p) ==
  /\ sched[p].pc = "run"
  /\ \E end \in Ends(p) :
       episode' = IF Terminated(episode, sched[p].episode) THEN episode
                  ELSE [episode EXCEPT ![sched[p].episode] =
                          [@ EXCEPT !.outcome = end[1], !.reason = end[2]]]
  /\ sched' = [sched EXCEPT ![p].pc = "after"]
  /\ UNCHANGED <<spent, stopFile, report>>

Reread(p) ==
  /\ sched[p].pc = "after"
  /\ sched' = [sched EXCEPT ![p].pc = "reconcile", ![p].ran = TRUE,
                            ![p].episode = None, ![p].seen = episode]
  /\ UNCHANGED <<episode, spent, stopFile, report>>

(***************************************************************************)
(* A pass ends early: the process dies, or something raises (a torn        *)
(* journal in batch_attempts, a failure before the episode exists).  Both  *)
(* release the lock and leave what is on disk.                             *)
(***************************************************************************)
Abandon(p) ==
  /\ sched[p].pc # "idle"
  /\ sched' = [sched EXCEPT ![p] = Resting]
  /\ UNCHANGED <<episode, spent, stopFile, report>>

RequestStop(p) ==
  /\ sched[p].pc # "idle" /\ ~sched[p].stop
  /\ sched' = [sched EXCEPT ![p].stop = TRUE]
  /\ UNCHANGED <<episode, spent, stopFile, report>>

(***************************************************************************)
(* `bh recover` gives an episode without terminal one, whether or not its  *)
(* worker still lives.                                                     *)
(***************************************************************************)
Recover(e) ==
  /\ episode[e].slot # 0 /\ ~Terminated(episode, e)
  /\ episode' = [episode EXCEPT ![e] = [@ EXCEPT !.outcome = "INFRASTRUCTURE_FAILURE",
                                                 !.reason = "PROCESS_INTERRUPTED"]]
  /\ UNCHANGED <<spent, stopFile, sched, report>>

(***************************************************************************)
(* report_batch and export_batch reconcile too, with no lock but stop.lock.*)
(***************************************************************************)
ReportRead ==
  /\ report.pc = "idle"
  /\ stopFile = None
  /\ report' = IF Refusals(episode) = {} THEN report
               ELSE [pc |-> "record", seen |-> episode]
  /\ UNCHANGED <<episode, spent, stopFile, sched>>

ReportRecord ==
  /\ report.pc = "record"
  /\ RecordStop(EpisodeStop(report.seen, TRUE))
  /\ report' = NotReporting
  /\ UNCHANGED <<episode, spent, sched>>

-----------------------------------------------------------------------------
Init ==
  /\ episode = [e \in Episodes |-> NoEpisode]
  /\ spent = 0
  /\ stopFile = None
  /\ sched = [p \in Schedulers |-> Resting]
  /\ report = NotReporting

(* The steps a holder of the lock takes by itself.                         *)
PassStep(p) ==
  \/ Reconcile(p) \/ Record(p) \/ SkipSlot(p) \/ Preflight(p) \/ EndPass(p)
  \/ CreateAttempt(p)
  \/ EndAttempt(p) \/ Reread(p)

Next ==
  \/ \E p \in Schedulers : Enqueue(p) \/ Acquire(p) \/ PassStep(p) \/ Spend(p)
                           \/ Abandon(p) \/ RequestStop(p)
  \/ \E e \in Episodes : Recover(e)
  \/ ReportRead \/ ReportRecord

Spec == Init /\ [][Next]_vars

(* An episode ends (EpisodeRun: its allowances are finite and its waits    *)
(* time out), so a pass that is not killed keeps stepping.                 *)
FairSpec == Spec /\ \A p \in Schedulers : WF_vars(PassStep(p))

-----------------------------------------------------------------------------
Outcomes == {"SCORED", "INFRASTRUCTURE_FAILURE", "OPERATOR_ABORT", "CAMPAIGN_INTERRUPTED"}
EndReasons == CampaignReasons \cup {"OPERATOR_REQUEST", "PROCESS_INTERRUPTED"}

Attempt == [slot : {0} \cup Slots, outcome : Outcomes \cup {None}, reason : EndReasons \cup {None}]
View == [Episodes -> Attempt]
StopRecord == [stage : {"preflight", "episode"}, slot : Slots, episode : Episodes \cup {None},
               reason : CampaignReasons, recovered : BOOLEAN]
SchedState ==
  [pc : {"idle", "queued", "reconcile", "record", "slots", "create", "run", "after"},
   slot : 0 .. NumSlots + 1, episode : Episodes \cup {None},
   stop : BOOLEAN, ran : BOOLEAN, seen : View]

ASSUME NoneAssumption == None \notin Outcomes \cup EndReasons \cup StopRecord

(* Every variable stays in its type; stop.json always holds a complete     *)
(* SchedulingStop with one of the two campaign reasons.                    *)
TypeOK ==
  /\ episode \in View
  /\ spent \in Nat
  /\ stopFile = None \/ stopFile \in StopRecord
  /\ sched \in [Schedulers -> SchedState]
  /\ report \in [pc : {"idle", "record"}, seen : View]

(* A slot never has more than two attempts and never more than one that    *)
(* did not fail as infrastructure, across passes, processes, crashes and   *)
(* recoveries: no ordinary loss is replayed (_run_batch;                   *)
(* max_infrastructure_replacements in plan_batch).                         *)
OneReplacement ==
  \A s \in Slots :
    LET as == AttemptsOf(episode, s)
    IN  /\ Cardinality(as) <= 2
        /\ \A d, e \in as :
             d # e => "INFRASTRUCTURE_FAILURE" \in {episode[d].outcome, episode[e].outcome}

(* A stop by an episode quotes the only terminal that refused the          *)
(* campaign; a preflight stop means that no terminal did and that its      *)
(* slot still cannot be afforded (SchedulingStop, _slot_affordable).       *)
StopIsFounded ==
  /\ \A d, e \in Refusals(episode) : d = e
  /\ stopFile # None =>
       IF stopFile.stage = "episode"
       THEN /\ stopFile.episode \in Refusals(episode)
            /\ stopFile.slot = episode[stopFile.episode].slot
            /\ stopFile.reason = episode[stopFile.episode].reason
       ELSE Refusals(episode) = {} /\ spent + Price[stopFile.slot] > CampaignCap

Halted == stopFile # None \/ Refusals(episode) # {}

(***************************************************************************)
(* What OneReplacement and StopIsFounded rest on.  A pass decides on the   *)
(* attempts it read last: while it holds the lock only `bh recover` can    *)
(* have changed them, and nothing is halted while it goes over the slots.  *)
(***************************************************************************)
EpisodesOK ==
  \A e \in Episodes :
    /\ episode[e].slot = 0 => episode[e].outcome = None
    /\ episode[e].outcome = None => episode[e].reason = None

SameOrRecovered(old, now) ==
  \/ now = old
  \/ /\ old.slot # 0 /\ old.outcome = None /\ old.reason = None
     /\ now.slot = old.slot
     /\ now.outcome = "INFRASTRUCTURE_FAILURE" /\ now.reason = "PROCESS_INTERRUPTED"

OneHolder == \A p, q \in Schedulers : Holding(p) /\ Holding(q) => p = q

PassOK(s) ==
  /\ s.pc \notin {"idle", "queued"} => s.slot # 0
  /\ s.pc \in {"create", "run"} => s.slot \in Slots
  /\ s.pc \in {"reconcile", "record", "slots", "create"} =>
       \A e \in Episodes : SameOrRecovered(s.seen[e], episode[e])
  /\ s.pc = "record" => Refusals(s.seen) # {}
  /\ s.pc \in {"slots", "create", "run"} => ~Halted
  /\ s.pc = "create" => MayAttempt(s.seen, s.slot)
  /\ s.pc = "run" => s.episode \in Episodes /\ episode[s.episode].slot = s.slot

ReportOK ==
  report.pc = "record" =>
    /\ Refusals(report.seen) # {}
    /\ \A e \in Refusals(report.seen) : episode[e] = report.seen[e]

IInv ==
  /\ EpisodesOK /\ OneHolder /\ ReportOK
  /\ \A p \in Schedulers : PassOK(sched[p])
  /\ OneReplacement /\ StopIsFounded

(* Once a terminal or stop.json refused the campaign, no attempt is ever   *)
(* created and nothing more is spent, also when the process dies before it *)
(* can write stop.json (docs/harness.md: "Funding stops are durable and    *)
(* cannot be resumed by rerunning a frozen batch").                        *)
(* And stop.json is written once: a report racing the pass that saw the    *)
(* refusal never replaces the stop it recorded (record_stop).              *)
StopsAreFinal ==
  [][/\ Halted => /\ Halted' /\ spent' = spent
                 /\ \A e \in Episodes : episode'[e].slot = episode[e].slot
     /\ stopFile # None => stopFile' = stopFile]_vars

(* The campaign as its abstract specification sees it.                     *)
Promise == INSTANCE Scheduling WITH
  attempts <- [s \in Slots |-> AttemptsOf(episode, s)],
  failed <- {e \in Episodes : episode[e].outcome = "INFRASTRUCTURE_FAILURE"},
  halted <- Halted

(* Campaign implements Scheduling: every step launches as it promises,     *)
(* reports a failure, halts, or changes nothing it can see.                *)
KeepsPromise == Promise!Spec

(* A pass that holds the lock gives it back: replacements are bounded and  *)
(* every slot is passed once.                                              *)
PassesEnd == \A p \in Schedulers : Holding(p) ~> ~Holding(p)
=============================================================================
