---------------------------- MODULE DecisionLedger ----------------------------
(* The journal of one run as its readers see it, and the decision ledger they
   compute from it (review/decision_ledger.py, review/action_accounting.py).

   The run may be the child of a branch, which starts with the committed
   actions of its ancestors.  Its journal is written by the runner and, when
   that cannot, by the service or by bh recover.  An event keeps its type and
   the request it belongs to; sequence numbers start at 1. *)
EXTENDS Integers, Sequences, FiniteSets, FiniteSetsExt

CONSTANTS
    Inherited,  \* committed actions of the ancestors, 0 for a root
    MaxEvents,  \* bound: events before the terminal
    None

ASSUME LineageAssumption == Inherited \in Nat /\ MaxEvents \in Nat

VARIABLES
    log,     \* the journal
    ending   \* payload of its terminal event

journalVars == <<log, ending>>

-----------------------------------------------------------------------------
Event(type, request) == [type |-> type, request |-> request]

Ended(events) == \E i \in DOMAIN events : events[i].type = "terminal"
Positions(events, type) == {i \in DOMAIN events : events[i].type = type}
Requests(events, type) == {events[i].request : i \in Positions(events, type)}
Boards(events) == Positions(events, "observation")
Commits(events) == Cardinality(Positions(events, "action_commit"))
Last(events) == IF events = <<>> THEN "nothing" ELSE events[Len(events)].type

-----------------------------------------------------------------------------
(* The writers.  A decision is an observation, perhaps the turns of a model,
   an intent and its commit; a rejected action ends the run. *)
Write(type, request, after) ==
    /\ Last(log) \in after /\ Len(log) < MaxEvents
    /\ log' = Append(log, Event(type, request))
    /\ UNCHANGED ending

LogStart == Write("episode_start", 0, {"nothing"})

Observe == Write("observation", 0, {"episode_start", "action_commit"})

TakeTurn == Write("agent_context", 0, {"observation"})

Intend ==
    Write("action_intent", Cardinality(Positions(log, "action_intent")) + 1,
          {"observation", "agent_context"})

Commit == Write("action_commit", log[Len(log)].request, {"action_intent"})

RejectNative == Write("action_rejected", log[Len(log)].request, {"action_intent"})

End(scope, count) ==
    /\ ~Ended(log)
    /\ log' = Append(log, Event("terminal", 0))
    /\ ending' = [scope |-> scope, committed |-> count]

(* Whatever ends a run that has started: game over, a cap, a failure, or an
   operator's stop, which is looked at between a commit and what follows. *)
Finish == log # <<>> /\ End("runner", Inherited + Commits(log))

(* The service ends a run that failed before its start, and one whose runner
   could not write its terminal. *)
FinishFailed ==
    \/ log = <<>> /\ End("unstarted", 0)
    \/ log # <<>> /\ End("incomplete", 0)

Recover == End("recovered", Commits(log))

WriteJournal ==
    \/ LogStart \/ Observe \/ TakeTurn \/ Intend \/ Commit \/ RejectNative
    \/ Finish \/ FinishFailed \/ Recover

JournalInit == log = <<>> /\ ending = None

-----------------------------------------------------------------------------
(* The ledger: a row for each commit whose settled board is recorded ... *)
Settled(events, i) == \E j \in Boards(events) : j > i
Rows(events) == {i \in Positions(events, "action_commit") : Settled(events, i)}
Settling(events) ==
    {events[i].request : i \in Positions(events, "action_commit") \ Rows(events)}

(* ... one for each other intent, with what is known of it ... *)
\* Mutant: a commit hides its intent before its board is recorded.
Uncommitted_Committed(events) ==
    {i \in Positions(events, "action_intent") :
        events[i].request \notin Requests(events, "action_commit")}
Uncommitted(events) ==
    {i \in Positions(events, "action_intent") :
        events[i].request \notin Requests(events, "action_commit") \ Settling(events)}

Status(events, i) ==
    LET request == events[i].request IN
    IF request \in Requests(events, "action_rejected") THEN "rejected"
    ELSE IF request \in Settling(events) THEN "awaiting_transition"
    ELSE IF ~Ended(events) THEN "in_progress"
    ELSE "no_committed_transition"

(* ... and the boards at which a model is, or was, at work without one. *)
BoardOf(events, i) == Max({j \in Boards(events) : j <= i})
Acted(events) ==
    {BoardOf(events, i) : i \in Positions(events, "action_intent")
                               \cup Positions(events, "action_commit")}
Pending(events) ==
    {BoardOf(events, i) : i \in Positions(events, "agent_context")} \ Acted(events)

(* A runner's terminal counts the lineage, the others only this journal. *)
Started(events) == Positions(events, "episode_start") # {}
Expected(events) ==
    Commits(events)
      + IF Started(events) /\ ending.scope # "recovered" THEN Inherited ELSE 0

(* build_summary refuses placeholders, a commit that nothing will settle any
   more, and totals that disagree. *)
Incomplete(events) == Ended(events) /\ ending.scope = "incomplete"
Unsettled(events) == Ended(events) /\ Boards(events) # {} /\ Settling(events) # {}
Balanced(events) ==
    Ended(events) =>
        /\ Cardinality(Rows(events)) = Commits(events)
        /\ ending.committed = Expected(events)
Opens(events) == ~Incomplete(events) /\ ~Unsettled(events) /\ Balanced(events)

(* A snapshot accounts for the journal: every intent in it has one row, with
   a status that agrees with what the journal says became of it. *)
Accounts(events) ==
    LET rowed == {events[i].request : i \in Rows(events)}
        open == {events[i].request : i \in Uncommitted(events)} IN
    /\ rowed \cap open = {}
    /\ rowed \cup open = Requests(log, "action_intent")
    /\ rowed \subseteq Requests(log, "action_commit")
    /\ \A i \in Uncommitted(events) :
          LET status == Status(events, i) IN
          /\ status = "awaiting_transition" <=>
                events[i].request \in Requests(log, "action_commit")
          /\ status = "in_progress" => ~Ended(log)
    /\ Pending(events) \cap Acted(events) = {}
    /\ Cardinality(Pending(events)) <= 1
=============================================================================
