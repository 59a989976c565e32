----------------------------- MODULE Deployment -----------------------------
(***************************************************************************)
(* Installing a candidate: the source of a workbench and the shared game   *)
(* runtime are replaced file by file, with a backup first and an explicit  *)
(* rollback.  A command may stop after any write (a check that fails, a    *)
(* crash, an operator's interrupt); its retry is another command.          *)
(*                                                                         *)
(* Base is the deployed checkout, Candidate the one under review; both     *)
(* read the one Windows runtime.  A source tree is two files: one of the   *)
(* native components, one of the rest of the fingerprinted harness.        *)
(***************************************************************************)
EXTENDS Naturals, FiniteSets

CONSTANTS
    Base, Candidate,    \* the two Linux checkouts
    None,
    MaxCommands,        \* bound: deployment and evidence commands
    MaxEdits            \* bound: commits to the candidate and hand edits

ASSUME DeploymentAssumption ==
    /\ Base # Candidate
    /\ {MaxCommands, MaxEdits} \subseteq Nat

VARIABLES
    tree,       \* src/balatro_horizons of each checkout
    commits,    \* source trees that git still knows
    rt,         \* the runtime: instrumentation files and environment.lock.json
    lock,       \* private/environment.lock.json of each checkout
    rep,        \* reports/verification of each checkout
    ptr,        \* private_runs/*/certificate-<decision>.json of each checkout
    active,     \* private/capability-certificate.json of each checkout
    saved,      \* the install backup
    backups,    \* runtime backups with their receipts
    dep,        \* the deployment command in progress
    eva,        \* the evidence command in progress
    commands,   \* commands begun
    edits

deployVars == <<saved, backups, dep>>
evidenceFiles == <<rep, ptr, active>>

Checkouts == {Base, Candidate}

SourceFiles == {"native", "harness"}
Torn == 0
Versions == {1, 2}
Tree == [SourceFiles -> Versions \cup {Torn}]
BaseTree == [f \in SourceFiles |-> 1]

RuntimeFiles == {"bridge", "mods"}
Edited == 3
Env == [RuntimeFiles -> {1, 2, Edited}]

\* native/bridge.ps1 and native/patches/*.lua of a checkout.
Instrument(c) == [f \in RuntimeFiles |-> IF c = Base THEN 1 ELSE 2]

NoDeploy == [step |-> "idle"]

\* The runtime files are those the checkout's lock names.
VerifyFiles(c) == rt.files = lock[c]

\* The evidence commands that hold an owned game process.
GameSteps == {"profiles", "invalid", "actions", "runs", "reorder", "faults", "replaying", "configs"}

\* The caller has stopped the service and holds the native worker lock.
Quiet == eva.step \notin GameSteps

\* Files are written one after the other, in the order of their paths.
FirstOf(todo) == CHOOSE f \in todo : f \in {"bridge", "harness"} \/ todo = {f}

\* One file of a kind is written, over an earlier one.
Written(files, k, v) == [x \in {k} \cup DOMAIN files |-> IF x = k THEN v ELSE files[x]]

\* The order of the file names under reports/verification.
ReportPlace ==
    [evidence |-> 1, faults |-> 2, fixtures |-> 3, invalid |-> 4, release |-> 5,
     reorder |-> 6, runs |-> 7, settlement |-> 8, profiles |-> 9]

Begin(command) ==
    /\ dep.step = "idle" /\ Quiet /\ commands < MaxCommands
    /\ dep' = command
    /\ commands' = commands + 1

Stop == dep' = NoDeploy

---------------------------------------------------------------------------
(* Runtime update: bh deploy runtime *)

\* The instrumentation of c replaces the runtime that b's lock describes.
PlanUpdate(c, b) ==
    LET rows == {f \in RuntimeFiles : rt.files[f] # Instrument(c)[f]}
        after == Instrument(c)
    IN  /\ c # b
        /\ rt.lock = lock[b] /\ VerifyFiles(b)
        /\ rows # {}
        /\ lock[c] \in {None, lock[b], after}
        /\ Begin([step |-> "backup", c |-> c, todo |-> rows,
                  plan |-> [rows |-> rows, before |-> rt.files, after |-> after]])
        /\ UNCHANGED <<tree, commits, rt, lock, evidenceFiles, saved,
                       backups, eva, edits>>

\* Nothing may be replaced before the snapshot and the receipt are on disk.
BackUpRuntime ==
    /\ dep.step = "backup"
    /\ backups' = backups \cup
            {[rows |-> dep.plan.rows, files |-> rt.files, lock |-> rt.lock,
              after |-> dep.plan.after]}
    /\ dep' = [dep EXCEPT !.step = "copy"]
    /\ UNCHANGED <<tree, commits, rt, lock, evidenceFiles, saved,
                   eva, commands, edits>>

\* Bug: the file is written in place, so that a crash leaves it torn.
StageCopy_InPlace(f, v) == \E w \in {v, Torn} : rt' = [rt EXCEPT !.files[f] = w]

\* A checked copy replaces the file at once.
StageCopy(f, v) == rt' = [rt EXCEPT !.files[f] = v]

CopyRuntime(f) ==
    /\ dep.step = "copy" /\ dep.todo # {} /\ f = FirstOf(dep.todo)
    /\ \/ /\ rt.files[f] = dep.plan.before[f]
          /\ StageCopy(f, dep.plan.after[f])
          /\ dep' = [dep EXCEPT !.todo = @ \ {f}]
       \/ /\ rt.files[f] # dep.plan.before[f]
          /\ Stop
          /\ UNCHANGED rt
    /\ UNCHANGED <<tree, commits, lock, evidenceFiles, saved, backups,
                   eva, commands, edits>>

\* The runtime's own lock follows the files ...
SealRuntime ==
    /\ dep.step = "copy" /\ dep.todo = {}
    /\ \/ /\ rt.files = dep.plan.after
          /\ rt' = [rt EXCEPT !.lock = dep.plan.after]
          /\ dep' = [dep EXCEPT !.step = "adopt"]
       \/ /\ rt.files # dep.plan.after
          /\ Stop
          /\ UNCHANGED rt
    /\ UNCHANGED <<tree, commits, lock, evidenceFiles, saved, backups,
                   eva, commands, edits>>

\* ... and the candidate's lock comes last.
AdoptLock ==
    /\ dep.step = "adopt"
    /\ lock' = [lock EXCEPT ![dep.c] = dep.plan.after]
    /\ Stop
    /\ UNCHANGED <<tree, commits, rt, evidenceFiles, saved, backups,
                   eva, commands, edits>>

\* Each touched file is as the update left it or as it was before.
RollbackAccepts(b) ==
    /\ \A f \in b.rows : rt.files[f] \in {b.files[f], b.after[f]}
    /\ rt.lock \in {b.lock, b.after}

Rollback(b) ==
    /\ RollbackAccepts(b)
    /\ Begin([step |-> "restore", todo |-> b.rows, backup |-> b])
    /\ UNCHANGED <<tree, commits, rt, lock, evidenceFiles, saved,
                   backups, eva, edits>>

RestoreRuntime(f) ==
    /\ dep.step = "restore" /\ dep.todo # {} /\ f = FirstOf(dep.todo)
    /\ StageCopy(f, dep.backup.files[f])
    /\ dep' = [dep EXCEPT !.todo = @ \ {f}]
    /\ UNCHANGED <<tree, commits, lock, evidenceFiles, saved, backups,
                   eva, commands, edits>>

RestoreLock ==
    /\ dep.step = "restore" /\ dep.todo = {}
    /\ rt' = [rt EXCEPT !.lock = dep.backup.lock]
    /\ Stop
    /\ UNCHANGED <<tree, commits, lock, evidenceFiles, saved, backups,
                   eva, commands, edits>>

---------------------------------------------------------------------------
(* Source install: bh deploy candidate *)

\* A reviewed manifest names files that differ between the release and the
\* candidate (fewer than now do, when it was prepared before the last commit);
\* its bytes are still there on both sides.  Evidence, pointers, lock and the
\* files to be replaced are saved before the first write.
BeginInstall(rows) ==
    /\ rows # {}
    /\ \A f \in rows : tree[Base][f] = BaseTree[f] /\ tree[Candidate][f] # BaseTree[f]
    /\ Begin([step |-> "install", todo |-> rows, ptrs |-> {}, reps |-> {}])
    /\ saved' = [rows |-> rows, before |-> tree[Base], after |-> tree[Candidate],
                 rep |-> rep[Base], ptr |-> ptr[Base], active |-> active[Base],
                 lock |-> lock[Base]]
    /\ UNCHANGED <<tree, commits, rt, lock, evidenceFiles, backups, eva, edits>>

\* The candidate's present bytes are copied, then compared.
InstallFile(f) ==
    /\ dep.step = "install" /\ f = FirstOf(dep.todo)
    /\ tree' = [tree EXCEPT ![Base][f] = tree[Candidate][f]]
    /\ \/ /\ tree[Candidate][f] = saved.after[f] /\ dep.todo # {f}
          /\ dep' = [dep EXCEPT !.todo = @ \ {f}]
       \/ /\ tree[Candidate][f] # saved.after[f] \/ dep.todo = {f}
          /\ Stop
    /\ UNCHANGED <<commits, rt, lock, evidenceFiles, saved, backups,
                   eva, commands, edits>>

RollbackInstall ==
    /\ saved # None
    /\ \A f \in saved.rows : tree[Base][f] \in {saved.before[f], saved.after[f]}
    /\ Begin([step |-> "undo", todo |-> saved.rows,
              ptrs |-> DOMAIN saved.ptr, reps |-> DOMAIN saved.rep])
    /\ UNCHANGED <<tree, commits, rt, lock, evidenceFiles, saved,
                   backups, eva, edits>>

\* What existed at the snapshot is copied back file by file, in the order of
\* the paths: data/private_runs, private, reports/verification, src.  What was
\* added since stays.  Episodes have random names, of one episode boundary 0 is
\* first.
UndoPointer(k) ==
    /\ dep.step = "undo" /\ k \in dep.ptrs
    /\ k[2] = 0 \/ <<k[1], 0>> \notin dep.ptrs
    /\ ptr' = [ptr EXCEPT ![Base] = Written(@, k, saved.ptr[k])]
    /\ dep' = [dep EXCEPT !.ptrs = @ \ {k}]
    /\ UNCHANGED <<tree, commits, rt, lock, rep, active, saved, backups, eva,
                   commands, edits>>

UndoSelection ==
    /\ dep.step = "undo" /\ dep.ptrs = {}
    /\ active' = [active EXCEPT ![Base] = IF saved.active = None THEN @ ELSE saved.active]
    /\ dep' = [dep EXCEPT !.step = "undo_lock"]
    /\ UNCHANGED <<tree, commits, rt, lock, rep, ptr, saved, backups, eva,
                   commands, edits>>

UndoLock ==
    /\ dep.step = "undo_lock"
    /\ lock' = [lock EXCEPT ![Base] = saved.lock]
    /\ dep' = [dep EXCEPT !.step = "undo_rest"]
    /\ UNCHANGED <<tree, commits, rt, evidenceFiles, saved, backups, eva,
                   commands, edits>>

UndoReport(name) ==
    /\ dep.step = "undo_rest" /\ name \in dep.reps
    /\ \A other \in dep.reps : ReportPlace[name] <= ReportPlace[other]
    /\ rep' = [rep EXCEPT ![Base] = Written(@, name, saved.rep[name])]
    /\ dep' = [dep EXCEPT !.reps = @ \ {name}]
    /\ UNCHANGED <<tree, commits, rt, lock, ptr, active, saved, backups, eva,
                   commands, edits>>

UndoSource(f) ==
    /\ dep.step = "undo_rest" /\ dep.reps = {} /\ f = FirstOf(dep.todo)
    /\ tree' = [tree EXCEPT ![Base][f] = saved.before[f]]
    /\ IF dep.todo = {f} THEN Stop ELSE dep' = [dep EXCEPT !.todo = @ \ {f}]
    /\ UNCHANGED <<commits, rt, lock, evidenceFiles, saved, backups,
                   eva, commands, edits>>

---------------------------------------------------------------------------
(* Interruptions and the world outside *)

\* The command dies; a source file that was being copied may be torn.
AbandonDeploy ==
    /\ dep.step # "idle"
    /\ Stop
    /\ \/ UNCHANGED tree
       \/ /\ dep.step \in {"install", "undo_rest"} /\ dep.reps = {}
          /\ tree' = [tree EXCEPT ![Base][FirstOf(dep.todo)] = Torn]
    /\ UNCHANGED <<commits, rt, lock, evidenceFiles, saved, backups,
                   eva, commands, edits>>

\* A commit to the candidate.
Commit(f, v) ==
    /\ edits < MaxEdits /\ v # tree[Candidate][f]
    /\ tree' = [tree EXCEPT ![Candidate][f] = v]
    /\ commits' = commits \cup {tree'[Candidate]}
    /\ edits' = edits + 1
    /\ UNCHANGED <<rt, lock, evidenceFiles, deployVars, eva, commands>>

\* Somebody edits an instrumentation file by hand.
HandEdit ==
    /\ edits < MaxEdits /\ Quiet
    /\ rt' = [rt EXCEPT !.files["mods"] = Edited]
    /\ edits' = edits + 1
    /\ UNCHANGED <<tree, commits, lock, evidenceFiles, deployVars, eva, commands>>

DeployNext ==
    \/ \E c, b \in Checkouts : PlanUpdate(c, b)
    \/ BackUpRuntime
    \/ \E f \in RuntimeFiles : CopyRuntime(f) \/ RestoreRuntime(f)
    \/ SealRuntime \/ AdoptLock
    \/ \E b \in backups : Rollback(b)
    \/ RestoreLock
    \/ \E rows \in SUBSET SourceFiles : BeginInstall(rows)
    \/ \E f \in SourceFiles : InstallFile(f) \/ UndoSource(f)
    \/ RollbackInstall \/ UndoSelection \/ UndoLock
    \/ saved # None /\ \/ \E k \in DOMAIN saved.ptr : UndoPointer(k)
                       \/ \E name \in DOMAIN saved.rep : UndoReport(name)
    \/ AbandonDeploy \/ HandEdit
    \/ \E f \in SourceFiles, v \in Versions : Commit(f, v)

DeployInit ==
    /\ tree = [c \in Checkouts |-> IF c = Base THEN BaseTree
                                              ELSE [BaseTree EXCEPT !.harness = 2]]
    /\ commits = {tree[Base], tree[Candidate]}
    /\ rt = [files |-> Instrument(Base), lock |-> Instrument(Base)]
    /\ lock = [c \in Checkouts |-> Instrument(Base)]
    /\ saved = None /\ backups = {}
    /\ dep = NoDeploy
    /\ commands = 0 /\ edits = 0

---------------------------------------------------------------------------
(* An update that stopped half way can be taken back by `bh deploy runtime
   --rollback`: while nobody edits the runtime by hand, a runtime that no
   longer matches its own lock, or whose lock no checkout holds, has a receipt
   whose rollback accepts every touched file.  Each check of update and
   rollback compares whole files, so one torn or unrecorded write would leave
   a runtime that neither starts nor rolls back. *)
UpdatesAreReversible ==
    LET edited == \E f \in RuntimeFiles : rt.files[f] = Edited
        settled == rt.files = rt.lock /\ \E c \in Checkouts : lock[c] = rt.lock
    IN  edited \/ settled \/ \E b \in backups : RollbackAccepts(b)
=============================================================================
