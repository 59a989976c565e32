----------------------------- MODULE StagedReview -----------------------------
(* Reviewers of one run, which may still be played: the staged sessions of
   workbench/service.py, the explorer and the exposure ledger of
   review/service.py, and the operator's views of it.  Whatever reveals
   something of the run records an exposure before it answers; an annotation
   is labelled by what the ledger says then.

   A staged request is served in steps: the session's cursor is moved in its
   file; the journal is read, the exposure appended and a view answered; or,
   for an annotation, the ledger is read and the record appended.  The other
   requests are one step: after their single append they only answer.

   A human player's poll (workbench/routes.py) is not among them. *)
EXTENDS DecisionLedger

CONSTANTS
    Tokens,    \* staged sessions
    Threads,   \* requests served at a time
    MaxAsked   \* bound: requests and restarts

VARIABLES
    ledger,     \* the exposures of the run, summed up
    sessions,   \* the staged sessions
    exploring,  \* an explorer session is open
    job,        \* the requests being served
    notes,      \* the annotations
    cache,      \* events in the verified snapshot that is kept, 0 for none
    polled,     \* what the status view exposed last, None after a restart
    listed,     \* what the library exposed last
    asked,      \* how many requests and restarts there were
    (* history *)
    seen,       \* the last event an answer showed
    knew        \* an answer told the outcome

reviewVars == <<ledger, sessions, exploring, job, notes, cache, polled, listed, seen, knew>>
vars == <<journalVars, reviewVars, asked>>

-----------------------------------------------------------------------------
(* VerifiedReadCache: the snapshot is served while the file is the one it was
   taken of; journals only grow, so their length identifies them. *)
Snapshot == IF cache = Len(log) THEN SubSeq(log, 1, cache) ELSE log

Read == cache' = Len(Snapshot)

-----------------------------------------------------------------------------
(* A cursor is a decision and a stage of it. *)
Stages == <<"observation", "action", "transition">>
Rank(cursor) == 3 * cursor.index + CHOOSE k \in 1..3 : Stages[k] = cursor.stage
At(index, stage) == [index |-> index, stage |-> stage]

ActionTypes == {"agent_context", "action_intent", "action_commit", "action_rejected"}

BoardAt(events, n) ==
    CHOOSE i \in Boards(events) : Cardinality({j \in Boards(events) : j <= i}) = n
Decisions(events) == Cardinality(Boards(events))
SegmentEnd(events, n) ==
    IF n < Decisions(events) THEN BoardAt(events, n + 1) - 1 ELSE Len(events)
ActionEvents(events, n) ==
    {i \in BoardAt(events, n) + 1 .. SegmentEnd(events, n) : events[i].type \in ActionTypes}

(* What a view at a cursor shows, and how far it says to have gone: a view
   that is not staged leaves its action events out of that. *)
View(events, cursor, staged) ==
    LET n == cursor.index
        board == {BoardAt(events, n)}
        acts == IF cursor.stage = "observation" THEN {} ELSE ActionEvents(events, n)
        after == cursor.stage = "transition"
        onward == IF after /\ n < Decisions(events) THEN {BoardAt(events, n + 1)} ELSE {}
        outcome == after /\ n = Decisions(events) /\ Ended(events)
        end == IF outcome THEN {Len(events)} ELSE {}
        claimed == Max(board \cup onward \cup (IF staged THEN acts ELSE {})) IN
    [shown |-> Max(board \cup acts \cup onward \cup end),
     claimed |-> claimed,
     exposed |-> IF staged THEN Max({claimed} \cup end) ELSE claimed,
     outcome |-> outcome]

-----------------------------------------------------------------------------
(* expose appends a row; exposure sums the rows up. *)
Expose(last, outcome, prior) ==
    ledger' = [max |-> Max({ledger.max, last}),
               outcome |-> ledger.outcome \/ outcome,
               prior |-> ledger.prior \/ prior]

Answer(last, outcome) ==
    /\ seen' = Max({seen, last})
    /\ knew' = (knew \/ outcome)

\* Mutant: the label trusts the session and not the ledger.
ReviewMode_Session(mode, claimed) == mode
ReviewMode(mode, claimed) ==
    IF mode = "retrospective" THEN mode
    ELSE IF ledger.outcome \/ ledger.prior \/ ledger.max > claimed THEN "mixed"
    ELSE "prospective"

-----------------------------------------------------------------------------
(* Staged sessions.  The frontier is the furthest cursor there was. *)
Session(mode, cursor, frontier, had) ==
    [mode |-> mode, cursor |-> cursor, frontier |-> frontier, seen |-> had]

Cursors == [index : Nat \ {0}, stage : {"observation", "action", "transition"}]
SessionRecords == [mode : {"prospective", "retrospective"}, cursor : Cursors,
                   frontier : Cursors, seen : Nat]

ASSUME NoneAssumption == None \notin Tokens \cup Nat \cup BOOLEAN \cup SessionRecords

Idle == [pc |-> "idle"]

(* The request goes on to build its view, of a session or of the explorer
   (token None). *)
Serve(r, kind, token, mode, cursor) ==
    job' = [job EXCEPT ![r] =
        [pc |-> "reveal", kind |-> kind, token |-> token, mode |-> mode, cursor |-> cursor,
         before |-> IF kind = "note" THEN seen ELSE 0, knew |-> kind = "note" /\ knew]]

OpenReview(r, t, mode, prior) ==
    /\ job[r] = Idle /\ sessions[t] = None
    /\ sessions' = [sessions EXCEPT ![t] =
          Session(mode, At(1, "observation"), At(1, "observation"), 0)]
    /\ LET retrospective == mode = "retrospective" IN
          Expose(IF retrospective THEN Len(log) ELSE 0, retrospective, prior)
    /\ Serve(r, "view", t, mode, At(1, "observation"))
    /\ UNCHANGED <<exploring, notes, cache, polled, listed, seen, knew>>

Open(r, t) == job[r] = Idle /\ sessions[t] # None

Move(r, t, cursor, frontier) ==
    /\ sessions' = [sessions EXCEPT ![t].cursor = cursor, ![t].frontier = frontier]
    /\ Serve(r, "view", t, sessions[t].mode, cursor)
    /\ UNCHANGED <<ledger, exploring, notes, polled, listed, seen, knew>>

(* The view again, of a journal that may have grown. *)
ShowAgain(r, t) ==
    /\ Open(r, t)
    /\ Move(r, t, sessions[t].cursor, sessions[t].frontier)
    /\ UNCHANGED cache

(* Behind the frontier a step is a decision, at it a stage. *)
Advance(r, t) ==
    /\ Open(r, t)
    /\ LET cursor == sessions[t].cursor
           frontier == sessions[t].frontier
           stageAt(n) == IF n = frontier.index THEN frontier.stage ELSE "transition" IN
       \/ /\ cursor.index < frontier.index
          /\ Move(r, t, At(cursor.index + 1, stageAt(cursor.index + 1)), frontier)
          /\ UNCHANGED cache
       \/ \E k \in 1..2 :
             /\ cursor.index >= frontier.index /\ cursor.stage = Stages[k]
             /\ Move(r, t, At(cursor.index, Stages[k + 1]), At(cursor.index, Stages[k + 1]))
             /\ UNCHANGED cache
       \/ /\ cursor.index >= frontier.index /\ cursor.stage = "transition"
          /\ cursor.index < Decisions(Snapshot)
          /\ Read
          /\ Move(r, t, At(cursor.index + 1, "observation"), At(cursor.index + 1, "observation"))

\* Mutant: any recorded decision can be revisited.
Revealed_Recorded(t) == 1..Decisions(Snapshot)
Revealed(t) == 1..sessions[t].frontier.index

Revisit(r, t) ==
    /\ Open(r, t) /\ sessions[t].cursor.index <= Decisions(Snapshot)
    /\ Read
    /\ \E n \in Revealed(t) :
          LET frontier == sessions[t].frontier IN
          Move(r, t, At(n, IF n = frontier.index THEN frontier.stage ELSE "transition"), frontier)

Seek(r, t) ==
    /\ Open(r, t) /\ sessions[t].mode = "retrospective"
    /\ Read
    /\ \E n \in 1..Decisions(Snapshot) :
          LET cursor == At(n, "transition")
              frontier == sessions[t].frontier IN
          Move(r, t, cursor, IF n >= frontier.index THEN cursor ELSE frontier)

-----------------------------------------------------------------------------
(* _build_view: the exposure comes before the answer. *)
Reveal(r) ==
    /\ job[r].pc = "reveal"
    /\ Read
    /\ LET cursor == job[r].cursor
           t == job[r].token
           view == View(Snapshot, cursor, t # None) IN
       /\ cursor.index <= Decisions(Snapshot)
       /\ Expose(view.exposed, view.outcome, FALSE)
       /\ IF job[r].kind = "view"
          THEN /\ Answer(view.shown, view.outcome)
               /\ sessions' = [sessions EXCEPT ![t].seen = Max({@, view.shown})]
               /\ job' = [job EXCEPT ![r] = Idle]
          ELSE /\ job' = [job EXCEPT ![r] =
                     [pc |-> "label", mode |-> @.mode, claimed |-> view.claimed,
                      shown |-> view.shown, before |-> @.before, knew |-> @.knew]]
               /\ UNCHANGED <<sessions, seen, knew>>
    /\ UNCHANGED <<exploring, notes, polled, listed>>

(* DECISION_NOT_AVAILABLE; what the request wrote before stays. *)
NotAvailable(r) ==
    /\ job[r].pc = "reveal"
    /\ job[r].cursor.index > Decisions(Snapshot)
    /\ Read
    /\ job' = [job EXCEPT ![r] = Idle]
    /\ UNCHANGED <<ledger, sessions, exploring, notes, polled, listed, seen, knew>>

(* annotate: a view of the annotated decision, whose label and reach go into
   the record, or a refusal. *)
Annotate(r) ==
    /\ job[r] = Idle
    /\ \/ \E t \in Tokens :
             /\ sessions[t] # None
             /\ IF sessions[t].mode = "prospective"
                THEN Serve(r, "note", t, "prospective", sessions[t].cursor)
                ELSE \E n \in 1..Decisions(log) :
                       Serve(r, "note", t, "retrospective", At(n, "transition"))
       \/ /\ exploring
          /\ \E n \in 1..Decisions(log) : Serve(r, "note", None, "retrospective", At(n, "transition"))
    /\ UNCHANGED <<ledger, sessions, exploring, notes, cache, polled, listed, seen, knew>>

Label(r) ==
    /\ job[r].pc = "label"
    /\ job' = [job EXCEPT ![r] =
          [pc |-> "append",
           note |-> [mode |-> ReviewMode(@.mode, @.claimed), shown |-> @.shown,
                     before |-> @.before, knew |-> @.knew]]]
    /\ UNCHANGED <<ledger, sessions, exploring, notes, cache, polled, listed, seen, knew>>

AppendNote(r) ==
    /\ job[r].pc = "append"
    /\ \/ notes' = notes
       \/ notes' = notes \cup {job[r].note}
    /\ job' = [job EXCEPT ![r] = Idle]
    /\ UNCHANGED <<ledger, sessions, exploring, cache, polled, listed, seen, knew>>

-----------------------------------------------------------------------------
(* The explorer and its decisions, ledger and traces. *)
Retrospective == exploring \/ \E t \in Tokens :
    sessions[t] # None /\ sessions[t].mode = "retrospective"

OpenExplorer ==
    /\ exploring' = TRUE
    /\ Read
    /\ Expose(Len(Snapshot), TRUE, FALSE)
    /\ UNCHANGED <<sessions, job, notes, polled, listed, seen, knew>>

Explore ==
    /\ exploring
    /\ Read
    /\ \E n \in 1..Decisions(Snapshot) :
          LET view == View(Snapshot, At(n, "transition"), FALSE) IN
          Expose(view.exposed, view.outcome, FALSE) /\ Answer(view.shown, view.outcome)
    /\ UNCHANGED <<sessions, exploring, job, notes, polled, listed>>

(* Also bh summarize and the exports; a refusal may come after the exposure. *)
ShowLedger ==
    /\ Read
    /\ ~Incomplete(Snapshot)
    /\ Expose(Len(Snapshot), Ended(Snapshot), FALSE)
    /\ IF Opens(Snapshot) THEN Answer(Len(Snapshot), Ended(Snapshot))
       ELSE UNCHANGED <<seen, knew>>
    /\ UNCHANGED <<sessions, exploring, job, notes, polled, listed>>

(* The trace reads the journal itself, under the writer lock. *)
ShowTrace ==
    /\ Retrospective
    /\ \E n \in 1..Decisions(log) :
          LET last == IF n < Decisions(log) THEN BoardAt(log, n + 1) ELSE Len(log)
              outcome == n = Decisions(log) /\ Ended(log) IN
          Expose(last, outcome, FALSE) /\ Answer(last, outcome)
    /\ UNCHANGED <<sessions, exploring, job, notes, cache, polled, listed>>

-----------------------------------------------------------------------------
(* The operator's views of the run.  An unchanged one is not exposed again. *)
Polled == polled = Len(log)

PollStatus ==
    /\ IF Polled THEN UNCHANGED ledger ELSE Expose(Len(log), Ended(log), FALSE)
    /\ polled' = Len(log)
    /\ Answer(Len(log), Ended(log))
    /\ UNCHANGED <<sessions, exploring, job, notes, cache, listed>>

(* The index row may lag behind the journal. *)
ListRuns ==
    \E ended \in BOOLEAN :
        /\ ended => Ended(log)
        /\ IF listed = ended THEN UNCHANGED ledger ELSE Expose(0, ended, FALSE)
        /\ listed' = ended
        /\ Answer(0, ended)
        /\ UNCHANGED <<sessions, exploring, job, notes, cache, polled>>

CompareBranch ==
    /\ Expose(Len(log), TRUE, FALSE)
    /\ Answer(Len(log), Ended(log))
    /\ UNCHANGED <<sessions, exploring, job, notes, cache, polled, listed>>

(* The server dies; files stay. *)
Restart ==
    /\ job' = [r \in Threads |-> Idle]
    /\ cache' = 0 /\ polled' = None /\ listed' = None
    /\ UNCHANGED <<ledger, sessions, exploring, notes, seen, knew>>

-----------------------------------------------------------------------------
Init ==
    /\ JournalInit
    /\ ledger = [max |-> 0, outcome |-> FALSE, prior |-> FALSE]
    /\ sessions = [t \in Tokens |-> None]
    /\ exploring = FALSE
    /\ job = [r \in Threads |-> Idle]
    /\ notes = {}
    /\ cache = 0 /\ polled = None /\ listed = None
    /\ asked = 0 /\ seen = 0 /\ knew = FALSE

(* Requests, and what is left of them to serve. *)
Ask ==
    /\ asked < MaxAsked /\ asked' = asked + 1
    /\ \/ \E r \in Threads, t \in Tokens :
             \/ \E prior \in BOOLEAN : OpenReview(r, t, "prospective", prior)
             \/ OpenReview(r, t, "retrospective", FALSE)
             \/ ShowAgain(r, t) \/ Advance(r, t) \/ Revisit(r, t) \/ Seek(r, t)
       \/ \E r \in Threads : Annotate(r)
       \/ OpenExplorer \/ Explore \/ ShowLedger \/ ShowTrace
       \/ PollStatus \/ ListRuns \/ CompareBranch \/ Restart

Work == \E r \in Threads : Reveal(r) \/ NotAvailable(r) \/ Label(r) \/ AppendNote(r)

Next ==
    \/ WriteJournal /\ UNCHANGED <<reviewVars, asked>>
    \/ Ask /\ UNCHANGED journalVars
    \/ Work /\ UNCHANGED <<journalVars, asked>>

Spec == Init /\ [][Next]_vars

-----------------------------------------------------------------------------
(* An annotation is only labelled prospective if nothing beyond what its view
   shows, and not the outcome, had been answered to anyone before it was
   asked for: "retrospective edits cannot masquerade as original prospective
   labels" (annotate, _build_view, expose). *)
LabelsAreHonest ==
    \A n \in notes : n.mode = "prospective" => n.before <= n.shown /\ ~n.knew

(* How far a frontier lets a reviewer see. *)
Reach(cursor) == View(log, cursor, TRUE).shown

(* A prospective session has shown nothing beyond its frontier, which the
   cursor never passes, and nothing that is not in the exposure ledger, though
   its tabs race each other and the run goes on (revisit, advance, expose). *)
FrontierHolds ==
    \A t \in Tokens : sessions[t] # None =>
        LET s == sessions[t] IN
        /\ s.seen <= ledger.max
        /\ s.mode = "prospective" /\ s.seen # 0 =>
              Rank(s.cursor) <= Rank(s.frontier) /\ s.seen <= Reach(s.frontier)

(* The decision ledger opens and accounts for every intent of the journal as
   it is now, whichever writer ended it and whoever its ancestors are.  It
   does not open for placeholder totals, nor for a run that was stopped,
   failed or died after a commit and before the board that settles it: there
   it raises MISSING_SETTLED_OBSERVATION (build_summary, action_accounting,
   VerifiedReadCache). *)
LedgerBalances ==
    Incomplete(log) \/ Unsettled(log) \/ (Opens(Snapshot) /\ Accounts(Snapshot))
=============================================================================
