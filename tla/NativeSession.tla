---------------------------- MODULE NativeSession ----------------------------
(* Owned game processes of one Windows runtime (game/session.py,
   game/transport.py, native/bridge.ps1) and the connection they are reached
   by (game/windows_context.py).

   Several checkouts share the runtime, its port and its process.json.  Each
   has a worker lock, so one command at a time, and a registered session: a
   run, a session that leases one game after another, a restart probe
   (bh native diagnose --restart) or a diagnostic of evidence/collect
   (connection, interruption, expiry).  bh native launch and bh native stop
   take no lock and stand beside them.

   A launch only starts a helper, which looks at process.json, starts the game
   and records it; a game that starts while the port is free answers on it.
   Calls name no process: only the nonce that bh_inspect answers tells whose
   game it was.  A stop names one, unless it carries no nonce: then it stops
   the recorded game. *)
EXTENDS Integers, FiniteSets

CONSTANTS
    Checkouts,
    Shells,       \* WSL shells with an interop socket
    Work,         \* bound: the launches before which each checkout still begins
                  \* (or, for an interruption, repeats) each kind of command
    MaxMoves,     \* bound: moves and loads of a command of each checkout
    MaxMishaps,   \* bound: registrations, unlocked launches and stops, expired sockets,
                  \* crashed games, killed commands
    Operator,     \* who launches without a command of a checkout
    None

ASSUME ConstantsOK ==
    /\ MaxMoves \in [Checkouts -> Nat]
    /\ MaxMishaps \in Nat
    /\ Operator \notin Checkouts
    /\ None \notin (Checkouts \cup {Operator}) \X Nat

VARIABLES
    sockets,      \* interop sockets that exist
    registered,   \* the socket each checkout has registered
    chosen,       \* history: the one its operator registered last
    helpers,      \* launch helpers at work
    games,        \* games that run
    port,         \* the game that answers on the port
    record,       \* process.json: the game recorded last
    launched,     \* nonces drawn by each checkout, and without one
    command,      \* the command each checkout executes
    report,       \* the report of its last diagnostic
    killed,       \* its last command was killed
    mishaps

connectionVars == <<sockets, registered, chosen>>
gameVars == <<games, port>>
launchVars == <<helpers, record, launched>>
restVars == <<report, killed, mishaps>>
vars == <<connectionVars, gameVars, launchVars, command, restVars>>

-----------------------------------------------------------------------------
ChildSocket(c) == <<c, "child">>

Launchers == Checkouts \cup {Operator}

(* What a command carries: the nonce of its bridge, the last one it owned and
   whether that was closed, an open RPC process, the games its calls reached
   since the last verified answer, and the games it took for its own, stopped
   or suspended since it owns that one. *)
Idle == [kind |-> "none", pc |-> "idle", ok |-> TRUE, nonce |-> None, owned |-> None,
         closed |-> TRUE, pipe |-> FALSE, hit |-> {}, touched |-> {}, moves |-> 0,
         since |-> 0, saved |-> None]

Diagnostics == {"connection", "interruption", "expiry"}
Kinds == {"run", "session", "restart"} \cup Diagnostics

ASSUME WorkOK == Work \in [Checkouts -> [Kinds -> Nat]]

\* The worker lock of a checkout; a killed command drops it.
\* Mutant: bh review session --apply does not take it.
LockFree_Always(c) == TRUE
LockFree(c) == command[c].pc = "idle"

\* load_session, before a bridge process is spawned; an open one needs it no more.
Usable(c) == registered[c] \in sockets
CanCall(c) == command[c].pipe \/ Usable(c)

\* verify_identity of what bh_inspect answers.
\* Mutant: any game of this runtime will do.
Identified_AnyGame(c) == port # None
Identified(c) == port # None /\ port = command[c].nonce

\* require_idle: no process of this runtime, nobody on the port.
RuntimeIdle == games = {} /\ port = None

\* The process that stop mode kills: the recorded one, when a nonce is given only for it.
Victim(nonce) == {g \in games : g = record /\ (nonce = None \/ g = nonce)}

-----------------------------------------------------------------------------
(* Steps of a command. *)
Step(c, cmd) ==
    /\ command' = [command EXCEPT ![c] = cmd]
    /\ UNCHANGED restVars

Quietly(c, cmd) == Step(c, cmd) /\ UNCHANGED <<connectionVars, gameVars, launchVars>>

\* Only a diagnostic reports whether all went well.
StillOk(c, ok) == command[c].ok /\ (ok \/ command[c].kind \notin Diagnostics)

Stopping(c, ok) ==
    [command[c] EXCEPT !.pc = "stop", !.pipe = FALSE, !.hit = {}, !.moves = 0,
                       !.ok = StillOk(c, ok)]

\* A call that is answered, or whose answer is lost with or without effect.
Call(c, cmd, lost) ==
    \/ /\ port # None /\ CanCall(c)
       /\ Quietly(c, [cmd EXCEPT !.pipe = TRUE, !.hit = @ \cup {port}])
    \/ /\ CanCall(c)
       /\ \E reached \in SUBSET ({port} \ {None}) :
             Quietly(c, [lost EXCEPT !.pipe = FALSE, !.hit = @ \cup reached])

\* bh_inspect with this command's nonce: what its calls did is taken as its own.
Accepts(c, pc) ==
    /\ CanCall(c) /\ Identified(c)
    /\ Quietly(c, [command[c] EXCEPT !.pc = pc, !.pipe = TRUE, !.hit = {},
                                     !.touched = @ \cup command[c].hit])

Ends(c, passed) ==
    /\ command' = [command EXCEPT ![c] = Idle]
    /\ report' = [report EXCEPT ![c] =
          IF command[c].kind \in Diagnostics
          THEN [passed |-> passed, since |-> command[c].since]
          ELSE [passed |-> FALSE, since |-> 0]]
    /\ UNCHANGED <<connectionVars, gameVars, launchVars, killed, mishaps>>

-----------------------------------------------------------------------------
(* Commands begin under the worker lock.  A diagnostic that finds no session or
   a busy runtime only reports so. *)
FirstPlace(kind) ==
    IF kind = "expiry" THEN "child" ELSE IF kind = "restart" THEN "adopt" ELSE "launch"

Begin(c, kind) ==
    /\ LockFree(c) /\ command[c] = Idle /\ launched[c] < Work[c][kind]
    /\ kind \in Diagnostics => Usable(c) /\ RuntimeIdle
    /\ command' = [command EXCEPT ![c] =
          [Idle EXCEPT !.kind = kind, !.pc = FirstPlace(kind), !.since = launched[c]]]
    /\ report' = [report EXCEPT ![c] = [passed |-> FALSE, since |-> 0]]
    /\ UNCHANGED <<connectionVars, gameVars, launchVars, killed, mishaps>>

\* The nonce is drawn before the helper is spawned; spawning may fail.
Launch(c) ==
    LET nonce == <<c, launched[c] + 1>>
        owning == [command[c] EXCEPT !.pc = "await", !.nonce = nonce, !.owned = nonce,
                                     !.closed = FALSE, !.touched = {}]
    IN
    /\ command[c].pc = "launch" /\ Usable(c)
    /\ launched' = [launched EXCEPT ![c] = @ + 1]
    /\ \/ helpers' = helpers \cup {[nonce |-> nonce, at |-> "check"]} /\ Step(c, owning)
       \/ helpers' = helpers /\ Step(c, [owning EXCEPT !.pc = "stop", !.ok = StillOk(c, FALSE)])
    /\ UNCHANGED <<connectionVars, gameVars, record>>

\* Without a session, or with other files than the pinned ones, none is drawn.
LaunchRefused(c) ==
    /\ command[c].pc = "launch"
    /\ Quietly(c, [Stopping(c, FALSE) EXCEPT !.owned = None, !.touched = {}])

AfterLaunch == [run |-> "reset", interruption |-> "reset", session |-> "lease",
                expiry |-> "lease", connection |-> "menu", restart |-> "stop"]

\* A poll that is not answered by the own game leaves the RPC process open.
Poll(c) ==
    /\ command[c].pc = "await" /\ ~command[c].pipe /\ Usable(c)
    /\ Quietly(c, [command[c] EXCEPT !.pipe = TRUE])
Handshake(c) == command[c].pc = "await" /\ Accepts(c, AfterLaunch[command[c].kind])

(* A game on a process that runs already is verified before it is reset.  Each
   lease of a session brings a channel of its own; expiry lends its bridge. *)
Lease(c) ==
    /\ command[c].pc = "lease" /\ Identified(c)
    /\ IF command[c].kind = "session" THEN Usable(c) ELSE CanCall(c)
    /\ Quietly(c, [command[c] EXCEPT !.pc = "reset", !.pipe = TRUE])

\* start_run, its two calls as one.
StartRun(c) ==
    /\ command[c].pc = "reset"
    /\ Call(c, [command[c] EXCEPT !.pc = "settle"], Stopping(c, FALSE))

\* wait_ready, after a start or a move.
Ready(c) == command[c].pc = "settle" /\ Accepts(c, "play")

(* apply_public_action, for a run, a lease or a replayed step: without an
   answer its status is asked for once. *)
Moved(c) == [command[c] EXCEPT !.moves = @ + 1]
Move(c) ==
    /\ command[c].pc = "play" /\ command[c].moves < MaxMoves[c]
    /\ Call(c, [Moved(c) EXCEPT !.pc = "settle"],
               [Moved(c) EXCEPT !.pc = "status"])

\* Loads and fixtures are not reconciled.
Load(c) ==
    /\ command[c].pc = "play" /\ command[c].moves < MaxMoves[c]
    /\ Call(c, [Moved(c) EXCEPT !.pc = "settle"], Stopping(c, FALSE))

\* A rejection, whoever answers it, ends a run; a session's lease is given back.
Refusal(c) ==
    IF command[c].kind = "session"
    THEN [command[c] EXCEPT !.pc = "lease", !.pipe = FALSE, !.hit = {}]
    ELSE Stopping(c, FALSE)

MoveRefused(c) ==
    /\ command[c].pc = "play" /\ command[c].moves < MaxMoves[c]
    /\ port # None /\ CanCall(c)
    /\ Quietly(c, IF command[c].kind = "session" THEN [Refusal(c) EXCEPT !.moves = @ + 1]
                  ELSE Refusal(c))

\* Only a game the move reached knows it; any other answers that it is unknown.
StatusAnswered(c) ==
    /\ command[c].pc = "status" /\ port # None /\ CanCall(c)
    /\ IF port \in command[c].hit
       THEN \/ Quietly(c, [command[c] EXCEPT !.pc = "settle", !.pipe = TRUE])
            \/ Quietly(c, Refusal(c))
       ELSE Quietly(c, Stopping(c, FALSE))

\* The transport probe expects a move that stays unknown as well.
StatusUnknown(c) ==
    /\ command[c].pc = "status" /\ command[c].kind = "interruption"
    /\ Quietly(c, Stopping(c, TRUE))

(* The hang probe: a fresh RPC process verifies the game, a helper verifies
   process.json and suspends it for some seconds, and no answer comes. *)
Suspends(c) == Usable(c) /\ Victim(command[c].nonce) # {}
Hold(c) ==
    /\ command[c].pc = "play" /\ command[c].kind = "interruption"
    /\ Identified(c) /\ Suspends(c)
    /\ Quietly(c, [Stopping(c, TRUE) EXCEPT !.touched = @ \cup Victim(command[c].nonce)])

\* A lease ends and the next one may begin.
Release(c) ==
    /\ command[c].pc = "play" /\ command[c].kind = "session"
    /\ Quietly(c, [command[c] EXCEPT !.pc = "lease", !.pipe = FALSE])

EndPlay(c) ==
    /\ \/ command[c].pc = "play"
       \/ command[c].pc = "lease" /\ command[c].kind = "session"
    /\ Quietly(c, Stopping(c, TRUE))

\* A deadline, another game, a refusal or a divergence: the cleanup follows.
GivesUp(c) ==
    /\ command[c].pc \in {"await", "lease", "reset", "settle", "play", "status",
                          "menu", "register"}
    /\ Quietly(c, Stopping(c, FALSE))

-----------------------------------------------------------------------------
(* The connection check unregisters its own checkout, whose next call must be
   refused, and registers the same socket again. *)
AtMenu(c) ==
    /\ command[c].pc = "menu" /\ Accepts(c, "unregister")

Unregister(c) ==
    /\ command[c].pc = "unregister"
    /\ registered' = [registered EXCEPT ![c] = None]
    /\ Step(c, [command[c] EXCEPT !.pc = "refused", !.pipe = FALSE, !.saved = registered[c]])
    /\ UNCHANGED <<sockets, chosen, gameVars, launchVars>>

Refused(c) ==
    /\ command[c].pc = "refused"
    /\ registered' = [registered EXCEPT ![c] = command[c].saved]
    /\ Step(c, IF CanCall(c) THEN Stopping(c, FALSE) ELSE [command[c] EXCEPT !.pc = "register"])
    /\ UNCHANGED <<sockets, chosen, gameVars, launchVars>>

Reconnected(c) == command[c].pc = "register" /\ Usable(c) /\ Accepts(c, "stop")

-----------------------------------------------------------------------------
(* Expiry runs one replay in the session of a disposable child, ends the child
   and expects the next launch to be refused. *)
ChildStarts(c) ==
    /\ command[c].pc = "child"
    /\ \/ /\ Usable(c)
          /\ sockets' = sockets \cup {ChildSocket(c)}
          /\ Step(c, [command[c] EXCEPT !.pc = "swap"])
       \/ /\ sockets' = sockets
          /\ Step(c, [command[c] EXCEPT !.pc = "reap", !.ok = FALSE])
    /\ UNCHANGED <<registered, chosen, gameVars, launchVars>>

Swap(c) ==
    /\ command[c].pc = "swap"
    /\ IF Usable(c) /\ ChildSocket(c) \in sockets
       THEN /\ registered' = [registered EXCEPT ![c] = ChildSocket(c)]
            /\ Step(c, [command[c] EXCEPT !.pc = IF RuntimeIdle THEN "launch" ELSE "restore",
                                          !.ok = @ /\ RuntimeIdle, !.saved = registered[c]])
       ELSE /\ registered' = registered
            /\ Step(c, [command[c] EXCEPT !.pc = "reap", !.ok = FALSE])
    /\ UNCHANGED <<sockets, chosen, gameVars, launchVars>>

ExpireChild(c) ==
    /\ command[c].pc = "expire"
    /\ \/ /\ sockets' = sockets \ {ChildSocket(c)}
          /\ Step(c, [command[c] EXCEPT !.pc = "refuse"])
       \/ /\ sockets' = sockets
          /\ Step(c, [command[c] EXCEPT !.pc = "restore", !.ok = FALSE])
    /\ UNCHANGED <<registered, chosen, gameVars, launchVars>>

RefusedBeforeLaunch(c) ==
    /\ command[c].pc = "refuse"
    /\ Quietly(c, [command[c] EXCEPT !.pc = "restore", !.ok = @ /\ ~Usable(c)])

RestoreRegistration(c) ==
    /\ command[c].pc = "restore"
    /\ registered' = [registered EXCEPT ![c] = command[c].saved]
    /\ Step(c, [command[c] EXCEPT !.pc = "reap", !.ok = @ /\ command[c].saved \in sockets])
    /\ UNCHANGED <<sockets, chosen, gameVars, launchVars>>

ReapChild(c) ==
    /\ command[c].pc = "reap"
    /\ \/ /\ sockets' = sockets \ {ChildSocket(c)}
          /\ Step(c, [command[c] EXCEPT !.pc = "recover"])
       \/ /\ sockets' = sockets
          /\ Step(c, [command[c] EXCEPT !.pc = "recover", !.ok = FALSE])
    /\ UNCHANGED <<registered, chosen, gameVars, launchVars>>

-----------------------------------------------------------------------------
(* The end of every command.  Stop mode needs the session, kills only the
   recorded game, if a nonce is given only the one of this nonce, and may time
   out; the nonce is dropped anyway. *)
AfterStop(c, ok) ==
    IF command[c].kind = "expiry" /\ ~(command[c].ok /\ ok) THEN "restore" ELSE "after"

StopMode(c, nonce, done, failed) ==
    /\ \/ /\ Usable(c)
          /\ games' = games \ Victim(nonce)
          /\ port' = IF port \in Victim(nonce) THEN None ELSE port
          /\ \E cmd \in {done, failed} :
                Step(c, [cmd EXCEPT !.touched = @ \cup Victim(nonce)])
       \/ UNCHANGED gameVars /\ Step(c, failed)
    /\ UNCHANGED <<connectionVars, launchVars>>

\* A restart stops even without a nonce, when its launch drew none.
Stop(c) ==
    LET stopped == [command[c] EXCEPT !.nonce = None, !.pipe = FALSE, !.hit = {}]
    IN
    /\ command[c].pc = "stop" /\ (command[c].nonce # None \/ command[c].kind = "restart")
    /\ StopMode(c, command[c].nonce,
                [stopped EXCEPT !.pc = AfterStop(c, TRUE), !.closed = TRUE],
                [stopped EXCEPT !.pc = AfterStop(c, FALSE), !.ok = StillOk(c, FALSE)])

NothingToStop(c) ==
    /\ command[c].pc = "stop" /\ command[c].nonce = None /\ command[c].kind # "restart"
    /\ Quietly(c, [command[c] EXCEPT !.pc = AfterStop(c, TRUE), !.closed = TRUE])

(* A restart takes over the recorded game, whoever launched it, and stops it
   before it launches its own; what it cannot read or stop ends it. *)
Adopt(c) ==
    /\ command[c].pc = "adopt"
    /\ \/ /\ record = None
          /\ Quietly(c, [command[c] EXCEPT !.pc = "launch"])
       \/ /\ record # None
          /\ Quietly(c, [command[c] EXCEPT !.pc = "takeover", !.nonce = record, !.owned = record])
       \/ Quietly(c, [command[c] EXCEPT !.pc = "after"])

TakeOver(c) ==
    LET stopped == [command[c] EXCEPT !.nonce = None]
    IN
    /\ command[c].pc = "takeover"
    /\ StopMode(c, command[c].nonce, [stopped EXCEPT !.pc = "launch"],
                                     [stopped EXCEPT !.pc = "after"])

\* With the operator's session back, expiry stops what its replay left.
RecoverOwned(c) ==
    LET checked == [command[c] EXCEPT !.pc = "final", !.closed = TRUE]
    IN
    /\ command[c].pc = "recover"
    /\ IF command[c].closed \/ command[c].owned = None THEN Quietly(c, checked)
       ELSE StopMode(c, command[c].owned, checked, [checked EXCEPT !.ok = FALSE])

Checked(c) == command[c].ok /\ Usable(c) /\ RuntimeIdle

\* idle_after: the interruption check may make its next attempt.
After(c) ==
    /\ command[c].pc = "after"
    /\ \/ command[c].kind # "expiry" /\ Ends(c, Checked(c))
       \/ /\ command[c].kind = "expiry"
          /\ Quietly(c, [command[c] EXCEPT !.pc = IF Checked(c) THEN "expire" ELSE "restore",
                                           !.ok = Checked(c)])
       \/ /\ command[c].kind = "interruption" /\ Checked(c) /\ launched[c] < Work[c]["interruption"]
          /\ Quietly(c, [command[c] EXCEPT !.pc = "launch"])

Final(c) == command[c].pc = "final" /\ Ends(c, Checked(c))

-----------------------------------------------------------------------------
(* The operator, the helpers and what may go wrong. *)
Mishap == mishaps < MaxMishaps /\ mishaps' = mishaps + 1

Register(c) ==
    /\ LockFree(c)
    /\ \E shell \in Shells \cap sockets :
          /\ shell # registered[c]
          /\ registered' = [registered EXCEPT ![c] = shell]
          /\ chosen' = [chosen EXCEPT ![c] = shell]
    /\ killed' = [killed EXCEPT ![c] = FALSE]
    /\ Mishap
    /\ UNCHANGED <<sockets, gameVars, launchVars, command, report>>

(* bh native stop and bh native launch, at any time and without the lock: the
   one gives no nonce, the other leaves its game behind. *)
OperatorStops(c) ==
    /\ Usable(c)
    /\ Mishap
    /\ games' = games \ Victim(None)
    /\ port' = IF port \in Victim(None) THEN None ELSE port
    /\ UNCHANGED <<connectionVars, launchVars, command, report, killed>>

OperatorLaunches(c) ==
    /\ Usable(c)
    /\ Mishap
    /\ launched' = [launched EXCEPT ![Operator] = @ + 1]
    /\ helpers' = helpers \cup {[nonce |-> <<Operator, launched[Operator] + 1>>, at |-> "check"]}
    /\ UNCHANGED <<connectionVars, gameVars, record, command, report, killed>>

World == <<connectionVars, command, restVars>>

\* The recorded game must not run any more.
HelperChecks(h) ==
    /\ h.at = "check"
    /\ helpers' = (helpers \ {h}) \cup
          (IF record \in games THEN {} ELSE {[h EXCEPT !.at = "start"]})
    /\ UNCHANGED <<gameVars, record, launched, World>>

HelperStarts(h) ==
    /\ h.at = "start"
    /\ games' = games \cup {h.nonce}
    /\ port' = IF port = None THEN h.nonce ELSE port
    /\ helpers' = (helpers \ {h}) \cup {[h EXCEPT !.at = "record"]}
    /\ UNCHANGED <<record, launched, World>>

HelperRecords(h) ==
    /\ h.at = "record"
    /\ record' = h.nonce
    /\ helpers' = helpers \ {h}
    /\ UNCHANGED <<gameVars, launched, World>>

SocketExpires(s) ==
    /\ Mishap
    /\ sockets' = sockets \ {s}
    /\ UNCHANGED <<registered, chosen, gameVars, launchVars, command, report, killed>>

GameDies(g) ==
    /\ Mishap
    /\ games' = games \ {g}
    /\ port' = IF port = g THEN None ELSE port
    /\ UNCHANGED <<connectionVars, launchVars, command, report, killed>>

\* A killed command cleans nothing up; its child ends with the pipe to it.
Kill(c) ==
    /\ Mishap /\ command[c].pc # "idle"
    /\ command' = [command EXCEPT ![c] = Idle]
    /\ killed' = [killed EXCEPT ![c] = TRUE]
    /\ sockets' = sockets \ {ChildSocket(c)}
    /\ UNCHANGED <<registered, chosen, gameVars, launchVars, report>>

-----------------------------------------------------------------------------
Init ==
    /\ sockets = Shells
    /\ \E shell \in Shells : registered = [c \in Checkouts |-> shell]
    /\ chosen = registered
    /\ helpers = {} /\ games = {} /\ port = None /\ record = None
    /\ launched = [l \in Launchers |-> 0]
    /\ command = [c \in Checkouts |-> Idle]
    /\ report = [c \in Checkouts |-> [passed |-> FALSE, since |-> 0]]
    /\ killed = [c \in Checkouts |-> FALSE]
    /\ mishaps = 0

Opening(c) ==
    \/ \E kind \in Kinds : Begin(c, kind)
    \/ Launch(c) \/ LaunchRefused(c) \/ Poll(c) \/ Handshake(c) \/ Lease(c)
    \/ StartRun(c) \/ Ready(c)

Playing(c) ==
    \/ Move(c) \/ Load(c) \/ MoveRefused(c) \/ StatusAnswered(c) \/ StatusUnknown(c)
    \/ Hold(c) \/ Release(c) \/ EndPlay(c) \/ GivesUp(c)

Reconnecting(c) ==
    \/ AtMenu(c) \/ Unregister(c) \/ Refused(c) \/ Reconnected(c)
    \/ ChildStarts(c) \/ Swap(c) \/ ExpireChild(c) \/ RefusedBeforeLaunch(c)
    \/ RestoreRegistration(c) \/ ReapChild(c)

Closing(c) ==
    \/ Stop(c) \/ NothingToStop(c) \/ Adopt(c) \/ TakeOver(c) \/ RecoverOwned(c)
    \/ After(c) \/ Final(c)

Next ==
    \/ \E c \in Checkouts :
          Opening(c) \/ Playing(c) \/ Reconnecting(c) \/ Closing(c) \/ Register(c) \/ Kill(c)
    \/ \E c \in Checkouts : OperatorStops(c) \/ OperatorLaunches(c)
    \/ \E h \in helpers : HelperChecks(h) \/ HelperStarts(h) \/ HelperRecords(h)
    \/ \E s \in sockets : SocketExpires(s)
    \/ \E g \in games : GameDies(g)

Spec == Init /\ [][Next]_vars

-----------------------------------------------------------------------------
(* What a command takes for done, and what it stops or suspends, is the game it
   launched itself: although calls name no process, games die between two calls,
   other checkouts and the operator launch on the same port and stop what is
   recorded there, and other games answer and refuse its calls.  A restart
   is the exception by design: before its launch it stops the game that
   process.json names, whoever runs it, and when its launch draws no nonce
   (owned is None) its last stop names no game at all.  bh native stop is no
   command of a checkout: it stops the recorded game of anybody. *)
LaunchedIt(c) == {<<c, n>> : n \in command[c].since + 1 .. launched[c]}
OnlyItsOwnGame ==
    \A c \in Checkouts :
       LET cmd == command[c] IN
       IF cmd.kind # "restart" THEN cmd.touched \subseteq {cmd.owned} \cap LaunchedIt(c)
       ELSE cmd.owned # None => cmd.touched \subseteq {cmd.owned}

(* A diagnostic that reports success has left no game behind and no helper
   that could still start one; and whatever happened, unless it was killed,
   the registration is the operator's own again. *)
Since(c) == {c} \X (report[c].since + 1 .. launched[c])
LeavesNoTrace ==
    \A c \in Checkouts :
       /\ report[c].passed =>
             /\ Since(c) \cap games = {}
             /\ \A h \in helpers : h.nonce \in Since(c) => h.at = "record"
       /\ command[c].pc = "idle" /\ ~killed[c] => registered[c] = chosen[c]

-----------------------------------------------------------------------------
(* Every variable is well typed. *)
Nonces == Launchers \X (Nat \ {0})
Sockets == Shells \cup {ChildSocket(c) : c \in Checkouts}
Places == {"idle", "launch", "await", "lease", "reset", "settle", "play", "status", "menu",
           "unregister", "refused", "register", "child", "swap", "expire", "refuse",
           "restore", "reap", "recover", "stop", "after", "final", "adopt", "takeover"}
Commands == [kind : Kinds \cup {"none"}, pc : Places, ok : BOOLEAN,
             nonce : Nonces \cup {None}, owned : Nonces \cup {None}, closed : BOOLEAN,
             pipe : BOOLEAN, hit : SUBSET Nonces, touched : SUBSET Nonces, moves : Nat,
             since : Nat, saved : Sockets \cup {None}]

TypeOK ==
    /\ sockets \subseteq Sockets
    /\ registered \in [Checkouts -> Sockets \cup {None}]
    /\ helpers \subseteq [nonce : Nonces, at : {"check", "start", "record"}]
    /\ games \subseteq Nonces
    /\ port \in games \cup {None}
    /\ launched \in [Launchers -> Nat]
    /\ command \in [Checkouts -> Commands]

(* The strengthening of OnlyItsOwnGame that steps preserve.  A nonce is drawn
   once, its helper starts at most one game, and only then calls are made; so
   while the own game answers, no call can have reached another. *)
Drawn(nonce) == nonce[2] <= launched[nonce[1]]
Starting(nonce) == \E h \in helpers : h.nonce = nonce /\ h.at # "record"

LaunchesOK ==
    /\ \A h \in helpers : Drawn(h.nonce)
    /\ \A h1, h2 \in helpers : h1.nonce = h2.nonce => h1 = h2
    /\ \A h \in helpers : h.at # "record" => h.nonce \notin games
    /\ \A g \in games : Drawn(g)
    /\ record # None => record \in Nonces /\ Drawn(record)

Verified == {"lease", "reset", "settle", "play", "status", "menu", "unregister", "refused",
             "register"}
Bound == Verified \cup {"await", "takeover"}

OwnOK(c, kind, since, owned, touched) ==
    /\ since <= launched[c]
    /\ owned # None =>
          /\ Drawn(owned)
          /\ kind # "restart" => owned[1] = c /\ owned[2] > since
    /\ kind # "restart" \/ owned # None => touched \subseteq {owned}

CommandOK(c, cmd) ==
    /\ cmd.pc # "idle" => cmd.kind \in Kinds
    /\ cmd.pc \in {"adopt", "takeover"} => cmd.kind = "restart"
    /\ cmd.pc = "adopt" => cmd.touched = {}
    /\ cmd.nonce # None => cmd.nonce = cmd.owned /\ cmd.pc \in Bound \cup {"stop"}
    /\ cmd.pc \in Bound => cmd.nonce # None
    /\ cmd.kind = "restart" /\ cmd.pc = "stop" /\ cmd.nonce = None => cmd.owned = None
    /\ OwnOK(c, cmd.kind, cmd.since, cmd.owned, cmd.touched)
    /\ cmd.hit # {} => cmd.pc \in {"settle", "status", "stop"}
    /\ cmd.hit # {} \/ cmd.pc \in Verified => cmd.nonce # None /\ ~Starting(cmd.nonce)
    /\ cmd.nonce # None /\ port = cmd.nonce => cmd.hit \subseteq {cmd.nonce}

IInv == TypeOK /\ LaunchesOK /\ \A c \in Checkouts : CommandOK(c, command[c])

(* The strengthening of LeavesNoTrace.  A diagnostic that may still pass waits
   for no helper but the one of its last launch, and only until that game has
   answered; the connection and the expiry check know the operator's session
   for as long as another one, or none, is registered. *)
ReportsOK ==
    /\ chosen \in [Checkouts -> Sockets \cup {None}]
    /\ report \in [Checkouts -> [passed : BOOLEAN, since : Nat]]
    /\ killed \in [Checkouts -> BOOLEAN]

Reconnections == {"menu", "unregister", "refused", "register"}
Unlent == {"child", "swap", "reap", "recover", "final"}
PlaceOK(cmd) ==
    /\ cmd.pc = "idle" => cmd.kind = "none"
    /\ cmd.pc \in Reconnections => cmd.kind = "connection"
    /\ cmd.pc \in Unlent \cup {"expire", "refuse", "restore"} => cmd.kind = "expiry"

Lent(cmd) == cmd.pc = "refused" \/ (cmd.kind = "expiry" /\ cmd.pc \notin Unlent)
Returned(c) ==
    ~killed[c] => chosen[c] = IF Lent(command[c]) THEN command[c].saved ELSE registered[c]

Owing(c) == {c} \X (command[c].since + 1 .. launched[c])
Settled(c) ==
    command[c].kind \in Diagnostics /\ command[c].ok =>
       \A h \in helpers : h.nonce \in Owing(c) /\ h.at # "record" =>
          command[c].pc = "await" /\ h.nonce = command[c].nonce

Reported(c) ==
    report[c].passed =>
       /\ command[c].pc = "idle"
       /\ Since(c) \cap games = {}
       /\ \A h \in helpers : h.nonce \in Since(c) => h.at = "record"

TraceInv ==
    /\ ReportsOK
    /\ \A c \in Checkouts :
          PlaceOK(command[c]) /\ Returned(c) /\ Settled(c) /\ Reported(c)
=============================================================================
