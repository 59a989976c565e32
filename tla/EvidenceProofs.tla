---------------------------- MODULE EvidenceProofs ----------------------------
(***************************************************************************)
(* Proofs about Deployment and Evidence, for every number of commands and  *)
(* of edits: what the documents of a checkout vouch for, whatever edits,   *)
(* updates, installs, rollbacks and crashes come between two of the steps  *)
(* that write them.                                                        *)
(*                                                                         *)
(* Deployment: while files of the runtime or a lock are being replaced, a  *)
(* receipt on disk names what each of them was and what it will be.        *)
(*                                                                         *)
(* Evidence: every report, pointer, certificate and snapshot vouches only  *)
(* for stages that ran while the source it names was on disk (the          *)
(* histories "ran" and "loaded"), and so does what the command in progress *)
(* holds in memory.  Facts are never taken back, so a document stays true  *)
(* when it is stale; what must be shown of each step is that what it       *)
(* writes follows from what it read, perhaps some edits ago.               *)
(***************************************************************************)
EXTENDS Evidence, TLAPS

-----------------------------------------------------------------------------
(***************************************************************************)
(* Deployment: types, and what a half-done update leaves.                  *)
(***************************************************************************)

Backup == [rows : SUBSET RuntimeFiles, files : Env, lock : Env, after : Env]
Plan == [rows : SUBSET RuntimeFiles, before : Env, after : Env]
InstallSteps == {"install", "undo", "undo_lock", "undo_rest"}
Installing == [step : InstallSteps, todo : SUBSET SourceFiles,
               ptrs : SUBSET DOMAIN saved.ptr, reps : SUBSET DOMAIN saved.rep]

Deploying ==
    {NoDeploy}
    \cup [step : {"backup", "copy", "adopt"}, c : Checkouts, todo : SUBSET RuntimeFiles, plan : Plan]
    \cup [step : {"restore"}, todo : SUBSET RuntimeFiles, backup : Backup]
    \cup Installing

\* An install's snapshot is there as long as a command uses it.
Kept == saved # None \/ dep.step \in InstallSteps

DeployTypeOK ==
    /\ tree \in [Checkouts -> Tree]
    /\ rt \in [files : Env, lock : Env]
    /\ lock \in [Checkouts -> Env]
    /\ backups \subseteq Backup
    /\ dep \in Deploying
    /\ {commands, edits} \subseteq Nat
    /\ Kept => saved.before \in Tree /\ saved.rows \subseteq SourceFiles

\* Each checkout's lock names an instrumentation, Base's always its own.
LocksKnown ==
    /\ lock[Base] = Instrument(Base)
    /\ lock[Candidate] \in {Instrument(Base), Instrument(Candidate)}
    /\ Kept => saved.lock = Instrument(Base)

\* Whatever is touched has one of the two contents that receipt b names, or
\* is what somebody wrote by hand.
Between(b) ==
    /\ \A f \in b.rows : rt.files[f] \in {b.files[f], b.after[f], Edited}
    /\ rt.lock \in {b.lock, b.after}

\* While files are being replaced the receipt is on disk already.
Covered ==
    /\ dep.step \in {"backup", "copy", "adopt"} => dep.plan.after = Instrument(dep.c)
    /\ dep.step = "backup" => dep.todo = dep.plan.rows
    /\ dep.step \in {"copy", "adopt"} =>
         /\ dep.todo \subseteq dep.plan.rows
         /\ \E b \in backups : b.rows = dep.plan.rows /\ b.after = dep.plan.after /\ Between(b)
    /\ dep.step = "restore" =>
         /\ dep.backup \in backups /\ dep.todo \subseteq dep.backup.rows /\ Between(dep.backup)

DeployInv == DeployTypeOK /\ LocksKnown /\ Covered /\ UpdatesAreReversible
-----------------------------------------------------------------------------
(***************************************************************************)
(* Evidence: types, and what each document vouches for.                    *)
(***************************************************************************)

Fingerprint == Versions \cup {Torn}
Plays == {"fixture", "gold"}
Game == [n : Nat, play : Plays, src : Tree, env : Env]
Certificate == [id : Nat, env : Env, accepted : Tree, native : Fingerprint,
                all : BOOLEAN, parent : Nat]
Release == [src : Tree, env : Env, fixture : Game, gold : Game]

SessionSteps ==
    {"profiles", "invalid", "actions", "win", "runs", "reorder", "faults", "fixtures", "read_collected"}
CertifySteps == {"certify", "replaying", "derive", "branch", "release"}
Rest == {Replays, Tail(Replays), Tail(Tail(Replays)), <<>>}

\* The commands by their steps.
Starting == [step : {"start"}, c : Checkouts]
Session == [step : SessionSteps, c : Checkouts, mode : Modes, env : Env,
            fixture : Game \cup {None}]
Certification == [step : CertifySteps, c : Checkouts, source : Tree, fixture : Game, gold : Game,
                  todo : Rest, seen : Tree \cup {None}]
Settlement == [step : {"settle"}, c : Checkouts, release : Release]
Publication == [step : {"record", "evidence", "select"}, c : Checkouts, cert : Certificate]
Activation == [step : {"activate"}, c : Checkouts, candidate : Checkouts, old : Certificate,
               cert : Certificate]
Sampling == [step : {"configs"}, c : Checkouts, root : Checkouts, source : Tree, env : Env,
             parent : Certificate]
Command ==
    {Idle} \cup Starting \cup Session \cup Certification \cup Settlement \cup Publication \cup Activation \cup Sampling

\* What a game that was played vouches for, and the fixture of a whole session.
Played(e, play, R) ==
    /\ e \in Game /\ e.play = play
    /\ Fact(IF play = "fixture" THEN "actions" ELSE "runs", e.src, e.env) \in R
    /\ play = "fixture" => Fact("invalid", None, e.env) \in R

Complete(e, R) == Played(e, "fixture", R) /\ Fact("win", None, e.env) \in R

Ran(kinds, t, R) == \A k \in kinds : Fact(k, t.src, t.env) \in R

ReleaseHolds(r, R) ==
    /\ Complete(r.fixture, R) /\ Played(r.gold, "gold", R)
    /\ Fact("branch", r.src, r.gold.env) \in R

\* The reports, by their names.
ReportsHold(p, R) ==
    /\ "profiles" \in DOMAIN p /\ p["profiles"].stable => Fact("profiles", None, p["profiles"].env) \in R
    /\ "fixtures" \in DOMAIN p => Complete(p["fixtures"], R)
    /\ "runs" \in DOMAIN p => Played(p["runs"], "gold", R)
    /\ "reorder" \in DOMAIN p => Ran({"reorder"}, p["reorder"], R)
    /\ "faults" \in DOMAIN p => Ran({"faults"}, p["faults"], R)
    /\ "release" \in DOMAIN p => ReleaseHolds(p["release"], R)
    /\ "settlement" \in DOMAIN p => Ran({"actions", "runs", "reorder", "faults"}, p["settlement"], R)

\* A replay certificate is of the environment its game was played in; one of a
\* later boundary comes from a replay of the whole prefix.
PointersHold(p, R) ==
    \A k \in DOMAIN p : p[k].passed =>
        /\ p[k].env = k[1].env
        /\ k[2] = 1 => Fact(k[1].play, p[k].src, p[k].env) \in R

\* A certificate's environment and native components went through the suite.
Proven(cert, R) ==
    /\ cert \in Certificate
    /\ \E s \in Tree :
         /\ s.native = cert.native
         /\ Suite(s, cert.env) \subseteq R
    /\ cert.all => \E s \in Tree : s.native = cert.native /\ Fact("configs", s, cert.env) \in R

\* What the command in progress has read or made so far.
Resumes == eva.mode = "resume_certification"

SessionHolds(R) ==
    eva.step \in SessionSteps =>
        /\ Resumes => eva.step \in {"reorder", "read_collected"}
        /\ eva.step = "actions" => Fact("invalid", None, eva.env) \in R
        /\ eva.step \in {"win", "runs", "reorder", "faults", "fixtures"} /\ ~Resumes
             => Played(eva.fixture, "fixture", R) /\ eva.fixture.env = eva.env
        /\ eva.step \in {"runs", "reorder", "faults", "fixtures"} /\ ~Resumes
             => Fact("win", None, eva.env) \in R

CertifyHolds(R) ==
    eva.step \in CertifySteps =>
        /\ Complete(eva.fixture, R) /\ Played(eva.gold, "gold", R)
        /\ eva.step \in {"certify", "replaying", "derive"} => eva.todo # <<>>
        /\ eva.step \in {"replaying", "derive"} => eva.seen \in Tree
        /\ eva.step = "derive" =>
             Mode = "seed_prefix" /\ Fact(Head(eva.todo), eva.seen, Subject.env) \in R
        /\ eva.step = "release" => Fact("branch", eva.source, eva.gold.env) \in R

CommandHolds(R) ==
    /\ SessionHolds(R) /\ CertifyHolds(R)
    /\ eva.step = "settle" => ReleaseHolds(eva.release, R)
    /\ eva.step \in {"activate", "record", "evidence", "select"} => Proven(eva.cert, R)

\* Every document of every checkout, and what an install's snapshot keeps.
RepOK(R) == DOMAIN rep = Checkouts /\ \A c \in Checkouts : ReportsHold(rep[c], R)
PtrOK(R) == DOMAIN ptr = Checkouts /\ \A c \in Checkouts : PointersHold(ptr[c], R)
ActiveOK(R) ==
    DOMAIN active = Checkouts /\ \A c \in Checkouts : active[c] # None => Proven(active[c], R)
EpisodesOK(R) ==
    DOMAIN episodes = Checkouts /\ \A c \in Checkouts : \A e \in episodes[c] : Played(e, "fixture", R)
MeasuredOK(R) == \A m \in measured : Fact("configs", m.src, m.env) \in R
SavedOK(R) ==
    Kept => /\ ReportsHold(saved.rep, R) /\ PointersHold(saved.ptr, R)
            /\ saved.active # None => Proven(saved.active, R)

EvidenceInv ==
    /\ eva \in Command /\ CommandHolds(ran)
    /\ RepOK(ran) /\ PtrOK(ran) /\ ActiveOK(ran) /\ EpisodesOK(ran) /\ MeasuredOK(ran)
    /\ SavedOK(ran)

\* The selection, wherever it was kept or is on its way, has its record.
SelectionInv ==
    /\ DOMAIN records = Checkouts
    /\ SelectionIsRecorded
    /\ eva.step \in {"evidence", "select"} => eva.cert \in records[eva.c]
    /\ Kept => saved.active \in records[Base] \cup {None}

Inv == DeployInv /\ EvidenceInv /\ SelectionInv

\* What has been on disk while the command's process ran: what is there now, and
\* what a certification read when it began.
LoadedInv ==
    /\ loaded \subseteq Tree
    /\ eva.step # "idle" => tree[eva.c] \in loaded
    /\ eva.step \in CertifySteps => eva.source \in loaded

IInv == Inv /\ LoadedInv

-----------------------------------------------------------------------------
(***************************************************************************)
(* Deployment: what each command leaves.                                   *)
(***************************************************************************)

\* The instrumentation of either checkout is a possible content of the runtime.
LEMMA InstrumentType ==
  \A c \in Checkouts : Instrument(c) \in Env
BY DEF Instrument, Env

\* Outside DeployTypeOK's own variables nothing of it can change.
LEMMA DeployInitHolds ==
  ASSUME DeployInit
  PROVE  DeployInv
<1> USE DeploymentAssumption DEF DeployInit
<1>1. dep = NoDeploy /\ NoDeploy.step = "idle"
  BY DEF NoDeploy
<1>2. ~Kept
  BY <1>1 DEF Kept, InstallSteps
<1>3. tree \in [Checkouts -> Tree]
  BY DEF Checkouts, Tree, BaseTree, Versions
<1>4. DeployTypeOK
  BY <1>1, <1>2, <1>3, InstrumentType DEF DeployTypeOK, Deploying, Checkouts
<1>5. LocksKnown
  BY <1>2 DEF LocksKnown, Checkouts
<1>6. Covered
  BY <1>1 DEF Covered
<1>7. UpdatesAreReversible
  BY DEF UpdatesAreReversible, Checkouts
<1> QED
  BY <1>4, <1>5, <1>6, <1>7 DEF DeployInv

\* A receipt between whose contents the runtime is accepts it, unless somebody
\* edited the runtime.
LEMMA BetweenAccepts ==
  ASSUME NEW b \in backups, Between(b), b \in Backup
  PROVE  UpdatesAreReversible
<1>1. CASE \E f \in RuntimeFiles : rt.files[f] = Edited
  BY <1>1 DEF UpdatesAreReversible
<1>2. CASE ~ \E f \in RuntimeFiles : rt.files[f] = Edited
  <2>1. RollbackAccepts(b)
    BY <1>2 DEF Between, RollbackAccepts, Backup
  <2> QED
    BY <2>1 DEF UpdatesAreReversible
<1> QED
  BY <1>1, <1>2

\* While files are being replaced a receipt covers them.
LEMMA CoveredReversible ==
  ASSUME DeployTypeOK, Covered, dep.step \in {"copy", "adopt", "restore"}
  PROVE  \E b \in backups : Between(b) /\ b \in Backup
BY DEF DeployTypeOK, Covered

\* The commands by their steps.
LEMMA DeployShapes ==
  ASSUME DeployTypeOK
  PROVE  /\ dep.step \in {"backup", "copy", "adopt"} =>
              dep \in [step : {"backup", "copy", "adopt"}, c : Checkouts,
                       todo : SUBSET RuntimeFiles, plan : Plan]
         /\ dep.step = "restore" =>
              dep \in [step : {"restore"}, todo : SUBSET RuntimeFiles, backup : Backup]
         /\ dep.step \in InstallSteps => dep \in Installing
         /\ dep.step = "idle" => dep = NoDeploy
         /\ dep.step \in {"idle", "backup", "copy", "adopt", "restore"} \cup InstallSteps
<1>1. /\ NoDeploy.step = "idle"
  BY DEF NoDeploy
<1> QED
  BY <1>1 DEF DeployTypeOK, Deploying, Installing, InstallSteps

\* The order in which the files are copied matters to none of the proofs.
LEMMA PlanUpdateKeeps ==
  ASSUME DeployInv, NEW c \in Checkouts, NEW b \in Checkouts, PlanUpdate(c, b)
  PROVE  DeployInv'
<1> DEFINE rows == {f \in RuntimeFiles : rt.files[f] # Instrument(c)[f]}
<1>1. /\ dep.step = "idle"
      /\ dep' = [step |-> "backup", c |-> c, todo |-> rows,
                 plan |-> [rows |-> rows, before |-> rt.files, after |-> Instrument(c)]]
      /\ commands' = commands + 1
      /\ UNCHANGED <<tree, rt, lock, saved, backups, edits>>
  BY DEF PlanUpdate, Begin, evidenceFiles
<1>2. dep' \in [step : {"backup", "copy", "adopt"}, c : Checkouts,
                todo : SUBSET RuntimeFiles, plan : Plan]
  <2>1. rt.files \in Env /\ Instrument(c) \in Env /\ rows \in SUBSET RuntimeFiles
    BY InstrumentType DEF DeployInv, DeployTypeOK
  <2>2. [rows |-> rows, before |-> rt.files, after |-> Instrument(c)] \in Plan
    BY <2>1 DEF Plan
  <2> QED
    BY <1>1, <2>1, <2>2
<1>3. Kept' => Kept
  BY <1>1 DEF Kept, InstallSteps
<1>4. DeployTypeOK'
  BY <1>1, <1>2, <1>3 DEF DeployInv, DeployTypeOK, Deploying
<1>5. LocksKnown'
  BY <1>1, <1>3 DEF DeployInv, LocksKnown
<1>6. Covered'
  BY <1>1 DEF Covered
<1>7. UpdatesAreReversible'
  BY <1>1 DEF DeployInv, UpdatesAreReversible, RollbackAccepts
<1> QED
  BY <1>4, <1>5, <1>6, <1>7 DEF DeployInv

LEMMA BackUpRuntimeKeeps ==
  ASSUME DeployInv, BackUpRuntime
  PROVE  DeployInv'
<1> DEFINE b == [rows |-> dep.plan.rows, files |-> rt.files, lock |-> rt.lock, after |-> dep.plan.after]
<1> USE DEF DeployInv
<1>1. /\ dep \in [step : {"backup", "copy", "adopt"}, c : Checkouts,
                  todo : SUBSET RuntimeFiles, plan : Plan]
      /\ dep.step = "backup" /\ dep' = [dep EXCEPT !.step = "copy"]
      /\ backups' = backups \cup {b}
      /\ UNCHANGED <<tree, rt, lock, saved, commands, edits>>
  BY DeployShapes DEF BackUpRuntime, evidenceFiles
<1>2. /\ dep' \in [step : {"backup", "copy", "adopt"}, c : Checkouts,
                   todo : SUBSET RuntimeFiles, plan : Plan]
      /\ dep'.step = "copy" /\ dep'.plan = dep.plan /\ dep'.todo = dep.todo /\ dep'.c = dep.c
  BY <1>1
<1>3. b \in Backup
  BY <1>1 DEF Backup, Plan, DeployTypeOK
<1>4. Kept' => Kept
  BY <1>1, <1>2 DEF Kept, InstallSteps
<1>5. DeployTypeOK'
  BY <1>1, <1>2, <1>3, <1>4 DEF DeployTypeOK, Deploying
<1>6. LocksKnown'
  BY <1>1, <1>4 DEF LocksKnown
<1>7. Between(b)'
  BY <1>1 DEF Between
<1>8. Covered'
  <2>1. dep'.todo \subseteq dep'.plan.rows /\ dep'.plan.after = Instrument(dep'.c)
    BY <1>1, <1>2 DEF Covered
  <2>2. b' \in backups' /\ b'.rows = dep'.plan.rows /\ b'.after = dep'.plan.after /\ Between(b)'
    BY <1>1, <1>2, <1>7
  <2> QED
    BY <1>2, <2>1, <2>2 DEF Covered
<1>9. UpdatesAreReversible'
  BY <1>1 DEF UpdatesAreReversible, RollbackAccepts
<1> QED
  BY <1>5, <1>6, <1>8, <1>9

\* A command that stops or goes on without touching the runtime keeps its types.
LEMMA CopyRuntimeKeeps ==
  ASSUME DeployInv, NEW f \in RuntimeFiles, CopyRuntime(f)
  PROVE  DeployInv'
<1> USE DEF DeployInv
<1>1. /\ dep \in [step : {"backup", "copy", "adopt"}, c : Checkouts,
                  todo : SUBSET RuntimeFiles, plan : Plan]
      /\ dep.step = "copy"
      /\ UNCHANGED <<tree, lock, saved, backups, commands, edits>>
  BY DeployShapes DEF CopyRuntime, evidenceFiles
<1>2. PICK b \in backups : b.rows = dep.plan.rows /\ b.after = dep.plan.after /\ Between(b)
  BY <1>1 DEF Covered
<1>3. b \in Backup
  BY DEF DeployTypeOK
<1>4. CASE /\ rt' = [rt EXCEPT !.files[f] = dep.plan.after[f]]
           /\ dep' = [dep EXCEPT !.todo = @ \ {f}]
  <2>1. /\ dep' \in [step : {"backup", "copy", "adopt"}, c : Checkouts,
                     todo : SUBSET RuntimeFiles, plan : Plan]
        /\ dep'.step = "copy" /\ dep'.plan = dep.plan /\ dep'.c = dep.c
        /\ dep'.todo = dep.todo \ {f}
    BY <1>1, <1>4
  <2>2. rt' \in [files : Env, lock : Env] /\ rt'.lock = rt.lock
    BY <1>1, <1>4 DEF DeployTypeOK, Env, Plan
  <2>3. ~Kept' \/ Kept
    BY <1>1, <2>1 DEF Kept, InstallSteps
  <2>4. DeployTypeOK'
    BY <1>1, <2>1, <2>2, <2>3 DEF DeployTypeOK, Deploying
  <2>5. LocksKnown'
    BY <1>1, <2>3 DEF LocksKnown
  <2>6. \A g \in b.rows : rt'.files[g] \in {b.files[g], b.after[g], Edited}
    <3>1. b.rows \subseteq RuntimeFiles
      BY <1>3 DEF Backup
    <3> SUFFICES ASSUME NEW g \in b.rows
                 PROVE  rt'.files[g] \in {b.files[g], b.after[g], Edited}
      OBVIOUS
    <3>2. CASE g = f
      BY <1>2, <1>4, <3>1, <3>2 DEF DeployTypeOK, Env
    <3>3. CASE g # f
      BY <1>2, <1>4, <3>1, <3>3 DEF DeployTypeOK, Env, Between
    <3> QED
      BY <3>2, <3>3
  <2>7. Between(b)'
    BY <1>1, <1>2, <2>2, <2>6 DEF Between
  <2>8. Covered'
    <3>1. dep'.todo \subseteq dep'.plan.rows /\ dep'.plan.after = Instrument(dep'.c)
      BY <1>1, <2>1 DEF Covered
    <3>2. b \in backups' /\ b.rows = dep'.plan.rows /\ b.after = dep'.plan.after
      BY <1>1, <1>2, <2>1
    <3> QED
      BY <2>1, <2>7, <3>1, <3>2 DEF Covered
  <2>9. UpdatesAreReversible'
    <3>1. b \in backups'
      BY <1>1
    <3> QED
      BY <1>3, <2>7, <3>1 DEF UpdatesAreReversible, Between, RollbackAccepts, Backup
  <2> QED
    BY <2>4, <2>5, <2>8, <2>9
<1>5. CASE dep' = NoDeploy /\ UNCHANGED rt
  <2>1. dep'.step = "idle"
    BY <1>5 DEF NoDeploy
  <2>2. ~Kept' \/ Kept
    BY <1>1, <2>1 DEF Kept, InstallSteps
  <2> QED
    BY <1>1, <1>5, <2>1, <2>2
    DEF DeployTypeOK, Deploying, LocksKnown, Covered, UpdatesAreReversible, RollbackAccepts
<1> QED
  BY <1>1, <1>4, <1>5 DEF CopyRuntime, StageCopy, Stop

LEMMA SealRuntimeKeeps ==
  ASSUME DeployInv, SealRuntime
  PROVE  DeployInv'
<1> USE DEF DeployInv
<1>1. /\ dep \in [step : {"backup", "copy", "adopt"}, c : Checkouts,
                  todo : SUBSET RuntimeFiles, plan : Plan]
      /\ dep.step = "copy"
      /\ UNCHANGED <<tree, lock, saved, backups, commands, edits>>
  BY DeployShapes DEF SealRuntime, evidenceFiles
<1>2. PICK b \in backups : b.rows = dep.plan.rows /\ b.after = dep.plan.after /\ Between(b)
  BY <1>1 DEF Covered
<1>3. b \in Backup
  BY DEF DeployTypeOK
<1>4. CASE /\ rt' = [rt EXCEPT !.lock = dep.plan.after]
           /\ dep' = [dep EXCEPT !.step = "adopt"]
  <2>1. /\ dep' \in [step : {"backup", "copy", "adopt"}, c : Checkouts,
                     todo : SUBSET RuntimeFiles, plan : Plan]
        /\ dep'.step = "adopt" /\ dep'.plan = dep.plan /\ dep'.c = dep.c
        /\ dep'.todo = dep.todo
    BY <1>1, <1>4
  <2>2. rt' \in [files : Env, lock : Env] /\ rt'.files = rt.files /\ rt'.lock = b.after
    BY <1>1, <1>2, <1>4 DEF DeployTypeOK, Plan
  <2>3. ~Kept' \/ Kept
    BY <1>1, <2>1 DEF Kept, InstallSteps
  <2>4. DeployTypeOK'
    BY <1>1, <2>1, <2>2, <2>3 DEF DeployTypeOK, Deploying
  <2>5. LocksKnown'
    BY <1>1, <2>3 DEF LocksKnown
  <2>7. Between(b)'
    BY <1>1, <1>2, <2>2 DEF Between
  <2>8. Covered'
    <3>1. dep'.todo \subseteq dep'.plan.rows /\ dep'.plan.after = Instrument(dep'.c)
      BY <1>1, <2>1 DEF Covered
    <3>2. b \in backups' /\ b.rows = dep'.plan.rows /\ b.after = dep'.plan.after
      BY <1>1, <1>2, <2>1
    <3> QED
      BY <2>1, <2>7, <3>1, <3>2 DEF Covered
  <2>9. UpdatesAreReversible'
    <3>1. b \in backups'
      BY <1>1
    <3> QED
      BY <1>3, <2>7, <3>1 DEF UpdatesAreReversible, Between, RollbackAccepts, Backup
  <2> QED
    BY <2>4, <2>5, <2>8, <2>9
<1>5. CASE dep' = NoDeploy /\ UNCHANGED rt
  <2>1. dep'.step = "idle"
    BY <1>5 DEF NoDeploy
  <2>2. ~Kept' \/ Kept
    BY <1>1, <2>1 DEF Kept, InstallSteps
  <2> QED
    BY <1>1, <1>5, <2>1, <2>2
    DEF DeployTypeOK, Deploying, LocksKnown, Covered, UpdatesAreReversible, RollbackAccepts
<1> QED
  BY <1>1, <1>4, <1>5 DEF SealRuntime, Stop

\* The last write of an update; until then its receipt accepts the runtime, and
\* it still does.
LEMMA AdoptLockKeeps ==
  ASSUME DeployInv, AdoptLock
  PROVE  DeployInv'
<1> USE DEF DeployInv
<1>1. /\ dep \in [step : {"backup", "copy", "adopt"}, c : Checkouts,
                  todo : SUBSET RuntimeFiles, plan : Plan]
      /\ dep.step = "adopt" /\ dep' = NoDeploy
      /\ lock' = [lock EXCEPT ![dep.c] = dep.plan.after]
      /\ UNCHANGED <<tree, rt, saved, backups, commands, edits>>
  BY DeployShapes DEF AdoptLock, evidenceFiles, Stop
<1>2. dep.plan.after = Instrument(dep.c) /\ dep.c \in Checkouts
  BY <1>1 DEF Covered
<1>3. dep'.step = "idle" /\ (~Kept' \/ Kept)
  BY <1>1 DEF Kept, InstallSteps, NoDeploy
<1>4. DeployTypeOK'
  BY <1>1, <1>2, <1>3, InstrumentType DEF DeployTypeOK, Deploying
<1>5. LocksKnown'
  BY <1>1, <1>2, <1>3 DEF LocksKnown, DeployTypeOK, Checkouts
<1>6. Covered'
  BY <1>3 DEF Covered
<1>7. PICK b \in backups : Between(b) /\ b \in Backup
  BY <1>1, CoveredReversible
<1>8. UpdatesAreReversible'
  BY <1>1, <1>7 DEF UpdatesAreReversible, Between, RollbackAccepts, Backup
<1> QED
  BY <1>4, <1>5, <1>6, <1>8

LEMMA RollbackKeeps ==
  ASSUME DeployInv, NEW b \in backups, Rollback(b)
  PROVE  DeployInv'
<1> USE DEF DeployInv
<1>1. /\ RollbackAccepts(b) /\ b \in Backup /\ dep.step = "idle"
      /\ dep' = [step |-> "restore", todo |-> b.rows, backup |-> b]
      /\ commands' = commands + 1
      /\ UNCHANGED <<tree, rt, lock, saved, backups, edits>>
  BY DEF Rollback, Begin, evidenceFiles, DeployTypeOK
<1>2. dep' \in [step : {"restore"}, todo : SUBSET RuntimeFiles, backup : Backup]
  BY <1>1 DEF Backup
<1>3. ~Kept' \/ Kept
  BY <1>1 DEF Kept, InstallSteps
<1>4. DeployTypeOK'
  BY <1>1, <1>2, <1>3 DEF DeployTypeOK, Deploying
<1>5. LocksKnown'
  BY <1>1, <1>3 DEF LocksKnown
<1>6. Between(b)'
  BY <1>1 DEF Between, RollbackAccepts
<1>7. Covered'
  BY <1>1, <1>6 DEF Covered
<1>8. UpdatesAreReversible'
  BY <1>1 DEF UpdatesAreReversible, RollbackAccepts
<1> QED
  BY <1>4, <1>5, <1>7, <1>8

LEMMA RestoreRuntimeKeeps ==
  ASSUME DeployInv, NEW f \in RuntimeFiles, RestoreRuntime(f)
  PROVE  DeployInv'
<1> USE DEF DeployInv
<1> PICK b : b = dep.backup
  OBVIOUS
<1>1. /\ dep \in [step : {"restore"}, todo : SUBSET RuntimeFiles, backup : Backup]
      /\ dep.step = "restore" /\ dep' = [dep EXCEPT !.todo = @ \ {f}]
      /\ rt' = [rt EXCEPT !.files[f] = b.files[f]]
      /\ UNCHANGED <<tree, lock, saved, backups, commands, edits>>
  BY DeployShapes DEF RestoreRuntime, StageCopy, evidenceFiles
<1>2. /\ dep' \in [step : {"restore"}, todo : SUBSET RuntimeFiles, backup : Backup]
      /\ dep'.step = "restore" /\ dep'.backup = b /\ dep'.todo = dep.todo \ {f}
  BY <1>1
<1>3. b \in backups /\ Between(b) /\ b \in Backup
  BY <1>1 DEF Covered
<1>4. rt' \in [files : Env, lock : Env] /\ rt'.lock = rt.lock
  BY <1>1, <1>3 DEF DeployTypeOK, Env, Backup
<1>5. ~Kept' \/ Kept
  BY <1>1, <1>2 DEF Kept, InstallSteps
<1>6. DeployTypeOK'
  BY <1>1, <1>2, <1>4, <1>5 DEF DeployTypeOK, Deploying
<1>7. LocksKnown'
  BY <1>1, <1>5 DEF LocksKnown
<1>8. \A g \in b.rows : rt'.files[g] \in {b.files[g], b.after[g], Edited}
  <2>1. b.rows \subseteq RuntimeFiles
    BY <1>3 DEF Backup
  <2> SUFFICES ASSUME NEW g \in b.rows
               PROVE  rt'.files[g] \in {b.files[g], b.after[g], Edited}
    OBVIOUS
  <2>2. CASE g = f
    BY <1>1, <2>1, <2>2 DEF DeployTypeOK, Env
  <2>3. CASE g # f
    BY <1>1, <1>3, <2>1, <2>3 DEF DeployTypeOK, Env, Between
  <2> QED
    BY <2>2, <2>3
<1>9. Between(b)'
  BY <1>3, <1>4, <1>8 DEF Between
<1>10. Covered'
  <2>1. dep'.backup \in backups' /\ dep'.todo \subseteq dep'.backup.rows
    BY <1>1, <1>2, <1>3 DEF Covered
  <2>2. Between(dep.backup)'
    BY <1>2, <1>9 DEF Between
  <2> QED
    BY <1>2, <2>1, <2>2 DEF Covered
<1>11. UpdatesAreReversible'
  <2>1. b \in backups'
    BY <1>1, <1>3
  <2> QED
    BY <1>3, <1>9, <2>1 DEF UpdatesAreReversible, Between, RollbackAccepts, Backup
<1> QED
  BY <1>6, <1>7, <1>10, <1>11

LEMMA RestoreLockKeeps ==
  ASSUME DeployInv, RestoreLock
  PROVE  DeployInv'
<1> USE DEF DeployInv
<1> DEFINE b == dep.backup
<1>1. /\ dep \in [step : {"restore"}, todo : SUBSET RuntimeFiles, backup : Backup]
      /\ dep.step = "restore" /\ dep' = NoDeploy
      /\ rt' = [rt EXCEPT !.lock = b.lock]
      /\ UNCHANGED <<tree, lock, saved, backups, commands, edits>>
  BY DeployShapes DEF RestoreLock, Stop, evidenceFiles
<1>2. b \in backups /\ Between(b) /\ b \in Backup
  BY <1>1 DEF Covered
<1>3. rt' \in [files : Env, lock : Env] /\ rt'.files = rt.files /\ rt'.lock = b.lock
  BY <1>1, <1>2 DEF DeployTypeOK, Backup
<1>4. dep'.step = "idle" /\ (~Kept' \/ Kept)
  BY <1>1 DEF Kept, InstallSteps, NoDeploy
<1>5. DeployTypeOK'
  BY <1>1, <1>3, <1>4 DEF DeployTypeOK, Deploying
<1>6. LocksKnown'
  BY <1>1, <1>4 DEF LocksKnown
<1>7. Covered'
  BY <1>4 DEF Covered
<1>8. UpdatesAreReversible'
  BY <1>1, <1>2, <1>3 DEF UpdatesAreReversible, Between, RollbackAccepts, Backup
<1> QED
  BY <1>5, <1>6, <1>7, <1>8

\* What the commands on the source do to the runtime, its receipts and the
\* locks: nothing, as far as DeployInv speaks of them.
LEMMA SourceCommandKeeps ==
  ASSUME DeployInv, tree' \in [Checkouts -> Tree], dep' \in Deploying,
         dep'.step \in {"idle"} \cup InstallSteps,
         UNCHANGED <<rt, lock, backups, saved>>, {commands', edits'} \subseteq Nat,
         Kept' => Kept
  PROVE  DeployInv'
<1> USE DEF DeployInv
<1>1. DeployTypeOK'
  BY DEF DeployTypeOK, Deploying, Installing
<1>2. LocksKnown'
  BY DEF LocksKnown
<1>3. Covered'
  BY DEF Covered, InstallSteps
<1>4. UpdatesAreReversible'
  BY DEF UpdatesAreReversible, RollbackAccepts
<1> QED
  BY <1>1, <1>2, <1>3, <1>4

\* Writing one file of a tree.
LEMMA WriteTree ==
  ASSUME tree \in [Checkouts -> Tree], NEW c, NEW f, NEW v \in Versions \cup {Torn}
  PROVE  [tree EXCEPT ![c][f] = v] \in [Checkouts -> Tree]
BY DEF Tree

LEMMA BeginInstallKeeps ==
  ASSUME DeployInv, NEW rows \in SUBSET SourceFiles, BeginInstall(rows)
  PROVE  DeployInv'
<1> USE DEF DeployInv
<1>1. /\ dep.step = "idle"
      /\ dep' = [step |-> "install", todo |-> rows, ptrs |-> {}, reps |-> {}]
      /\ commands' = commands + 1
      /\ saved' = [rows |-> rows, before |-> tree[Base], after |-> tree[Candidate],
                   rep |-> rep[Base], ptr |-> ptr[Base], active |-> active[Base],
                   lock |-> lock[Base]]
      /\ UNCHANGED <<tree, rt, lock, backups, edits>>
  BY DEF BeginInstall, Begin
<1>2. dep' \in Installing'
  BY <1>1 DEF Installing, InstallSteps
<1>3. DeployTypeOK'
  BY <1>1, <1>2 DEF DeployTypeOK, Deploying, Checkouts
<1>4. LocksKnown'
  BY <1>1 DEF LocksKnown
<1>5. Covered'
  BY <1>1 DEF Covered
<1>6. UpdatesAreReversible'
  BY <1>1 DEF UpdatesAreReversible, RollbackAccepts
<1> QED
  BY <1>3, <1>4, <1>5, <1>6

LEMMA InstallFileKeeps ==
  ASSUME DeployInv, NEW f \in SourceFiles, InstallFile(f)
  PROVE  DeployInv'
<1> USE DEF DeployInv
<1>1. /\ dep \in Installing /\ dep.step = "install"
      /\ UNCHANGED <<rt, lock, saved, backups, commands, edits>>
      /\ dep' = NoDeploy \/ dep' = [dep EXCEPT !.todo = @ \ {f}]
  BY DeployShapes DEF InstallFile, Stop, InstallSteps
<1>2. tree' \in [Checkouts -> Tree]
  <2>1. tree' = [tree EXCEPT ![Base][f] = tree[Candidate][f]]
    BY DEF InstallFile
  <2>2. tree[Candidate][f] \in Versions \cup {Torn}
    BY DEF DeployTypeOK, Checkouts, Tree
  <2> QED
    BY <2>1, <2>2, WriteTree DEF DeployTypeOK
<1>3. dep' \in Deploying /\ dep'.step \in {"idle"} \cup InstallSteps /\ Kept
  BY <1>1 DEF Deploying, Installing, NoDeploy, Kept, InstallSteps
<1> QED
  BY <1>1, <1>2, <1>3, SourceCommandKeeps DEF DeployTypeOK

LEMMA RollbackInstallKeeps ==
  ASSUME DeployInv, RollbackInstall
  PROVE  DeployInv'
<1> USE DEF DeployInv
<1>1. /\ saved # None
      /\ dep' = [step |-> "undo", todo |-> saved.rows,
                 ptrs |-> DOMAIN saved.ptr, reps |-> DOMAIN saved.rep]
      /\ commands' = commands + 1
      /\ UNCHANGED <<tree, rt, lock, saved, backups, edits>>
  BY DEF RollbackInstall, Begin, evidenceFiles
<1>2. Kept
  BY <1>1 DEF Kept
<1>3. dep' \in Deploying /\ dep'.step \in {"idle"} \cup InstallSteps
  BY <1>1, <1>2 DEF Deploying, Installing, InstallSteps, DeployTypeOK
<1> QED
  BY <1>1, <1>2, <1>3, SourceCommandKeeps DEF DeployTypeOK

\* The lock that an install's rollback puts back is the one there is.
LEMMA UndoLockKeeps ==
  ASSUME DeployInv, UndoLock
  PROVE  DeployInv'
<1> USE DEF DeployInv
<1>1. /\ dep \in Installing /\ dep.step = "undo_lock"
      /\ dep' = [dep EXCEPT !.step = "undo_rest"]
      /\ lock' = [lock EXCEPT ![Base] = saved.lock]
      /\ UNCHANGED <<tree, rt, saved, backups, commands, edits>>
  BY DeployShapes DEF UndoLock, evidenceFiles, InstallSteps
<1>2. Kept
  BY <1>1 DEF Kept, InstallSteps
<1>3. UNCHANGED lock
  BY <1>1, <1>2 DEF LocksKnown, DeployTypeOK
<1>4. dep' \in Deploying /\ dep'.step \in {"idle"} \cup InstallSteps
  BY <1>1 DEF Deploying, Installing, InstallSteps
<1> QED
  BY <1>1, <1>2, <1>3, <1>4, SourceCommandKeeps DEF DeployTypeOK

\* Its other documents are none that DeployInv speaks of.
LEMMA UndoDocumentKeeps ==
  ASSUME DeployInv, UndoSelection \/ (\E k : UndoPointer(k)) \/ (\E name : UndoReport(name))
  PROVE  DeployInv'
<1> USE DEF DeployInv
<1>1. /\ dep \in Installing
      /\ UNCHANGED <<tree, rt, lock, saved, backups, commands, edits>>
  BY DeployShapes DEF UndoSelection, UndoPointer, UndoReport, InstallSteps
<1>2. Kept
  BY <1>1 DEF Kept, Installing
<1>3. dep' \in Installing
  <2>1. CASE UndoSelection
    BY <1>1, <2>1 DEF UndoSelection, Installing, InstallSteps
  <2>2. CASE \E k : UndoPointer(k)
    BY <1>1, <2>2 DEF UndoPointer, Installing, InstallSteps
  <2>3. CASE \E name : UndoReport(name)
    BY <1>1, <2>3 DEF UndoReport, Installing, InstallSteps
  <2> QED
    BY <2>1, <2>2, <2>3
<1>4. dep' \in Deploying /\ dep'.step \in {"idle"} \cup InstallSteps
  BY <1>3 DEF Deploying, Installing
<1> QED
  BY <1>1, <1>2, <1>4, SourceCommandKeeps DEF DeployTypeOK

LEMMA UndoSourceKeeps ==
  ASSUME DeployInv, NEW f \in SourceFiles, UndoSource(f)
  PROVE  DeployInv'
<1> USE DEF DeployInv
<1>1. /\ dep \in Installing /\ dep.step = "undo_rest"
      /\ dep' = NoDeploy \/ dep' = [dep EXCEPT !.todo = @ \ {f}]
      /\ tree' = [tree EXCEPT ![Base][f] = saved.before[f]]
      /\ UNCHANGED <<rt, lock, saved, backups, commands, edits>>
  BY DeployShapes DEF UndoSource, Stop, InstallSteps, evidenceFiles
<1>2. Kept
  BY <1>1 DEF Kept, InstallSteps
<1>3. tree' \in [Checkouts -> Tree]
  <2>1. saved.before[f] \in Versions \cup {Torn}
    BY <1>2 DEF DeployTypeOK, Tree
  <2> QED
    BY <1>1, <2>1, WriteTree DEF DeployTypeOK
<1>4. dep' \in Deploying /\ dep'.step \in {"idle"} \cup InstallSteps
  BY <1>1 DEF Deploying, Installing, NoDeploy, InstallSteps
<1> QED
  BY <1>1, <1>2, <1>3, <1>4, SourceCommandKeeps DEF DeployTypeOK

LEMMA AbandonDeployKeeps ==
  ASSUME DeployInv, AbandonDeploy
  PROVE  DeployInv'
<1> USE DEF DeployInv
<1>1. /\ dep' = NoDeploy /\ dep'.step = "idle"
      /\ UNCHANGED <<rt, lock, saved, backups, commands, edits>>
      /\ tree' = tree \/ tree' = [tree EXCEPT ![Base][FirstOf(dep.todo)] = Torn]
  BY DEF AbandonDeploy, Stop, NoDeploy, evidenceFiles
<1>2. Kept' => Kept
  BY <1>1 DEF Kept, InstallSteps
<1>3. tree' \in [Checkouts -> Tree]
  <2>1. [tree EXCEPT ![Base][FirstOf(dep.todo)] = Torn] \in [Checkouts -> Tree]
    BY WriteTree DEF DeployTypeOK
  <2> QED
    BY <1>1, <2>1 DEF DeployTypeOK
<1> QED
  BY <1>1, <1>2, <1>3, SourceCommandKeeps DEF DeployTypeOK, Deploying

\* Operators edit the candidate's source and the runtime at any time.
LEMMA EditKeeps ==
  ASSUME DeployInv, HandEdit \/ \E f \in SourceFiles, v \in Versions : Commit(f, v)
  PROVE  DeployInv'
<1> USE DEF DeployInv
<1>1. UNCHANGED <<lock, saved, backups, dep, commands>> /\ edits' = edits + 1
  BY DEF HandEdit, Commit, deployVars
<1>2. Kept' <=> Kept
  BY <1>1 DEF Kept
<1>3. tree' \in [Checkouts -> Tree] /\ rt' \in [files : Env, lock : Env] /\ rt'.lock = rt.lock
  <2>1. CASE HandEdit
    BY <2>1 DEF HandEdit, DeployTypeOK, Env
  <2>2. CASE \E f \in SourceFiles, v \in Versions : Commit(f, v)
    <3>1. PICK f \in SourceFiles, v \in Versions : Commit(f, v)
      BY <2>2
    <3>2. tree' = [tree EXCEPT ![Candidate][f] = v] /\ UNCHANGED rt
      BY <3>1 DEF Commit
    <3> QED
      BY <3>2, WriteTree DEF DeployTypeOK
  <2> QED
    BY <2>1, <2>2
<1>4. \A f \in RuntimeFiles : rt'.files[f] \in {rt.files[f], Edited}
  BY DEF HandEdit, Commit, DeployTypeOK, Env
<1>5. DeployTypeOK'
  BY <1>1, <1>2, <1>3 DEF DeployTypeOK, Deploying, Installing
<1>6. LocksKnown'
  BY <1>1, <1>2 DEF LocksKnown
<1>7. ASSUME NEW b \in Backup, Between(b)
      PROVE  Between(b)'
  <2>1. b.rows \subseteq RuntimeFiles
    BY DEF Backup
  <2> QED
    BY <1>3, <1>4, <1>7, <2>1 DEF Between
<1>8. Covered'
  <2>1. CASE dep.step \in {"copy", "adopt"}
    <3>1. PICK b \in backups : b.rows = dep.plan.rows /\ b.after = dep.plan.after /\ Between(b)
      BY <2>1 DEF Covered
    <3>2. Between(b)'
      BY <1>7, <3>1 DEF DeployTypeOK
    <3> QED
      BY <1>1, <2>1, <3>1, <3>2 DEF Covered
  <2>2. CASE dep.step = "restore"
    <3>1. PICK b : b = dep.backup
      OBVIOUS
    <3>2. b \in backups /\ dep.todo \subseteq b.rows /\ Between(b)
      BY <2>2, <3>1 DEF Covered
    <3>3. Between(b)'
      BY <1>7, <3>2 DEF DeployTypeOK
    <3>4. Between(dep.backup)'
      BY <1>1, <3>1, <3>3 DEF Between
    <3> QED
      BY <1>1, <2>2, <3>1, <3>2, <3>4 DEF Covered
  <2>3. CASE dep.step \notin {"copy", "adopt", "restore"}
    BY <1>1, <2>3 DEF Covered
  <2> QED
    BY <2>1, <2>2, <2>3
<1>9. UpdatesAreReversible'
  <2>1. CASE HandEdit
    <3>1. rt'.files["mods"] = Edited /\ "mods" \in RuntimeFiles
      BY <2>1 DEF HandEdit, DeployTypeOK, Env, RuntimeFiles
    <3> QED
      BY <3>1 DEF UpdatesAreReversible
  <2>2. CASE \E f \in SourceFiles, v \in Versions : Commit(f, v)
    BY <2>2 DEF Commit, deployVars, UpdatesAreReversible, RollbackAccepts
  <2> QED
    BY <2>1, <2>2
<1> QED
  BY <1>5, <1>6, <1>8, <1>9

\* Every deployment step keeps the deployment invariant.
LEMMA DeployStep ==
  ASSUME DeployInv, DeployNext
  PROVE  DeployInv'
<1>1. CASE \E c, b \in Checkouts : PlanUpdate(c, b)
  BY <1>1, PlanUpdateKeeps
<1>2. CASE BackUpRuntime
  BY <1>2, BackUpRuntimeKeeps
<1>3. CASE \E f \in RuntimeFiles : CopyRuntime(f) \/ RestoreRuntime(f)
  BY <1>3, CopyRuntimeKeeps, RestoreRuntimeKeeps
<1>4. CASE SealRuntime \/ AdoptLock \/ RestoreLock
  BY <1>4, SealRuntimeKeeps, AdoptLockKeeps, RestoreLockKeeps
<1>5. CASE \E b \in backups : Rollback(b)
  BY <1>5, RollbackKeeps
<1>6. CASE \E rows \in SUBSET SourceFiles : BeginInstall(rows)
  BY <1>6, BeginInstallKeeps
<1>7. CASE \E f \in SourceFiles : InstallFile(f) \/ UndoSource(f)
  BY <1>7, InstallFileKeeps, UndoSourceKeeps
<1>8. CASE RollbackInstall \/ UndoLock \/ AbandonDeploy
  BY <1>8, RollbackInstallKeeps, UndoLockKeeps, AbandonDeployKeeps
<1>10. CASE UndoSelection \/ (\E k \in DOMAIN saved.ptr : UndoPointer(k))
            \/ (\E name \in DOMAIN saved.rep : UndoReport(name))
  BY <1>10, UndoDocumentKeeps
<1>9. CASE HandEdit \/ \E f \in SourceFiles, v \in Versions : Commit(f, v)
  BY <1>9, EditKeeps
<1> QED
  BY <1>1, <1>2, <1>3, <1>4, <1>5, <1>6, <1>7, <1>8, <1>9, <1>10 DEF DeployNext

\* Evidence commands leave everything that a deployment works on alone.
LEMMA DeployFrame ==
  ASSUME DeployInv, UNCHANGED deploymentVars, commands' \in Nat
  PROVE  DeployInv'
<1> USE DEF DeployInv, deploymentVars, deployVars
<1>1. DeployTypeOK'
  BY DEF DeployTypeOK, Deploying, Installing, Kept
<1>2. LocksKnown'
  BY DEF LocksKnown, Kept
<1>3. Covered'
  BY DEF Covered, Between
<1>4. UpdatesAreReversible'
  BY DEF UpdatesAreReversible, RollbackAccepts
<1> QED
  BY <1>1, <1>2, <1>3, <1>4

-----------------------------------------------------------------------------
(***************************************************************************)
(* Evidence: what was shown stays shown.                                   *)
(***************************************************************************)

LEMMA PlayedGrows ==
  ASSUME NEW R, NEW Q, R \subseteq Q, NEW e, NEW play, Played(e, play, R)
  PROVE  Played(e, play, Q)
BY DEF Played

LEMMA CompleteGrows ==
  ASSUME NEW R, NEW Q, R \subseteq Q, NEW e, Complete(e, R)
  PROVE  Complete(e, Q)
BY PlayedGrows DEF Complete

LEMMA ReleaseGrows ==
  ASSUME NEW R, NEW Q, R \subseteq Q, NEW r, ReleaseHolds(r, R)
  PROVE  ReleaseHolds(r, Q)
BY PlayedGrows, CompleteGrows DEF ReleaseHolds

LEMMA ReportsGrow ==
  ASSUME NEW R, NEW Q, R \subseteq Q, NEW p, ReportsHold(p, R)
  PROVE  ReportsHold(p, Q)
BY PlayedGrows, CompleteGrows, ReleaseGrows DEF ReportsHold, Ran

LEMMA PointersGrow ==
  ASSUME NEW R, NEW Q, R \subseteq Q, NEW p, PointersHold(p, R)
  PROVE  PointersHold(p, Q)
BY DEF PointersHold

LEMMA ProvenGrows ==
  ASSUME NEW R, NEW Q, R \subseteq Q, NEW cert, Proven(cert, R)
  PROVE  Proven(cert, Q)
BY DEF Proven

LEMMA CommandGrows ==
  ASSUME NEW R, NEW Q, R \subseteq Q, CommandHolds(R)
  PROVE  CommandHolds(Q)
<1>1. SessionHolds(Q)
  BY PlayedGrows DEF CommandHolds, SessionHolds
<1>2. CertifyHolds(Q)
  BY PlayedGrows, CompleteGrows DEF CommandHolds, CertifyHolds
<1> QED
  BY <1>1, <1>2, ReleaseGrows, ProvenGrows DEF CommandHolds

\* A new replay certificate.
LEMMA PointerWritten ==
  ASSUME NEW R, NEW p, PointersHold(p, R), NEW e, NEW d, NEW cert,
         cert.passed => /\ cert.env = e.env
                        /\ d = 1 => Fact(e.play, cert.src, cert.env) \in R
  PROVE  PointersHold(Written(p, <<e, d>>, cert), R)
<1> PICK q : q = Written(p, <<e, d>>, cert)
  OBVIOUS
<1> PICK k : k = <<e, d>>
  OBVIOUS
<1>1. /\ DOMAIN q = {k} \cup DOMAIN p
      /\ q[k] = cert
      /\ \A other \in DOMAIN p : other # k => q[other] = p[other]
  BY DEF Written
<1>2. k[1] = e /\ k[2] = d
  OBVIOUS
<1>3. PointersHold(q, R)
  <2> SUFFICES ASSUME NEW j \in DOMAIN q, q[j].passed
               PROVE  /\ q[j].env = j[1].env
                      /\ j[2] = 1 => Fact(j[1].play, q[j].src, q[j].env) \in R
    BY DEF PointersHold
  <2>1. CASE j = k
    BY <1>1, <1>2, <2>1
  <2>2. CASE j # k
    BY <1>1, <2>2 DEF PointersHold
  <2> QED
    BY <2>1, <2>2
<1> QED
  BY <1>3

\* One file of a snapshot comes back.
LEMMA PointerRestored ==
  ASSUME NEW R, NEW old, NEW new, PointersHold(old, R), PointersHold(new, R), NEW k \in DOMAIN old
  PROVE  PointersHold(Written(new, k, old[k]), R)
<1> PICK q : q = Written(new, k, old[k])
  OBVIOUS
<1>1. /\ DOMAIN q = {k} \cup DOMAIN new /\ q[k] = old[k]
      /\ \A other \in DOMAIN new : other # k => q[other] = new[other]
  BY DEF Written
<1>2. PointersHold(q, R)
  BY <1>1 DEF PointersHold
<1> QED
  BY <1>2

LEMMA ReportRestored ==
  ASSUME NEW R, NEW old, NEW new, ReportsHold(old, R), ReportsHold(new, R), NEW name \in DOMAIN old
  PROVE  ReportsHold(Written(new, name, old[name]), R)
<1> PICK q : q = Written(new, name, old[name])
  OBVIOUS
<1>1. /\ DOMAIN q = {name} \cup DOMAIN new /\ q[name] = old[name]
      /\ \A other \in DOMAIN new : other # name => q[other] = new[other]
  BY DEF Written
<1>2. ReportsHold(q, R)
  BY <1>1 DEF ReportsHold
<1> QED
  BY <1>2

\* A stage that runs counts for every source that was on disk by then.
LEMMA FactsOf ==
  ASSUME NEW kind, NEW env
  PROVE  /\ kind \notin Unsourced => \A s \in loaded : Fact(kind, s, env) \in Facts(kind, env)
         /\ kind \in Unsourced => Fact(kind, None, env) \in Facts(kind, env)
BY DEF Facts

\* The commands by their steps.
LEMMA CommandShapes ==
  ASSUME eva \in Command
  PROVE  /\ eva.step \in SessionSteps => eva \in Session
         /\ eva.step \in CertifySteps => eva \in Certification
         /\ eva.step = "settle" => eva \in Settlement
         /\ eva.step \in {"record", "evidence", "select"} => eva \in Publication
         /\ eva.step = "activate" => eva \in Activation
         /\ eva.step = "configs" => eva \in Sampling
BY DEF Command, Idle, Starting, Session, Certification, Settlement, Publication, Activation,
       Sampling, SessionSteps, CertifySteps

\* What remains of the replays is a suffix of the plan.
LEMMA RestFacts ==
  /\ \A todo \in Rest : todo # <<>> =>
       /\ Head(todo) \in {"fixture", "gold", "direct"} /\ Tail(todo) \in Rest
  /\ Replays \in Rest /\ <<>> \in Rest /\ Replays # <<>>
<1>1. /\ Tail(Replays) = <<"gold", "direct">> /\ Tail(Tail(Replays)) = <<"direct">>
      /\ Tail(Tail(Tail(Replays))) = <<>>
  BY DEF Replays
<1>2. /\ Head(Replays) = "fixture" /\ Head(Tail(Replays)) = "gold"
      /\ Head(Tail(Tail(Replays))) = "direct"
  BY <1>1 DEF Replays
<1> QED
  BY <1>1, <1>2 DEF Rest, Replays

\* A command that has ended, or died, has read nothing.
LEMMA IdleHolds ==
  ASSUME eva' = Idle
  PROVE  /\ (eva \in Command)' /\ CommandHolds(ran)'
         /\ eva'.step \notin {"evidence", "select"}
<1>1. eva'.step = "idle"
  BY DEF Idle
<1> QED
  BY <1>1 DEF Command, CommandHolds, SessionHolds, CertifyHolds, SessionSteps, CertifySteps

\* What a step of an evidence command does not write stays as it was.
LEMMA EvidenceFrame ==
  ASSUME Inv, UNCHANGED deploymentVars, commands' \in {commands, commands + 1}, ran \subseteq ran',
         (eva \in Command)', CommandHolds(ran)',
         UNCHANGED rep \/ RepOK(ran)', UNCHANGED ptr \/ PtrOK(ran)',
         UNCHANGED active \/ ActiveOK(ran)', UNCHANGED episodes \/ EpisodesOK(ran)',
         UNCHANGED measured \/ MeasuredOK(ran)',
         \/ SelectionInv'
         \/ UNCHANGED <<active, records>> /\ eva'.step \notin {"evidence", "select"}
  PROVE  Inv'
<1>1. DeployInv'
  <2>1. commands' \in Nat
    BY DEF Inv, DeployInv, DeployTypeOK
  <2> QED
    BY <2>1, DeployFrame DEF Inv
<1>2. RepOK(ran)' /\ PtrOK(ran)'
  BY ReportsGrow, PointersGrow DEF Inv, EvidenceInv, RepOK, PtrOK
<1>3. ActiveOK(ran)'
  BY ProvenGrows DEF Inv, EvidenceInv, ActiveOK
<1>4. EpisodesOK(ran)' /\ MeasuredOK(ran)'
  BY PlayedGrows DEF Inv, EvidenceInv, EpisodesOK, MeasuredOK
<1>5. UNCHANGED saved /\ (Kept' <=> Kept)
  BY DEF deploymentVars, deployVars, Kept
<1>6. SavedOK(ran)'
  BY <1>5, ReportsGrow, PointersGrow, ProvenGrows DEF Inv, EvidenceInv, SavedOK
<1>7. SelectionInv'
  BY <1>5 DEF Inv, SelectionInv, SelectionIsRecorded
<1> QED
  BY <1>1, <1>2, <1>3, <1>4, <1>6, <1>7 DEF Inv, EvidenceInv

-----------------------------------------------------------------------------
(***************************************************************************)
(* Deployment steps, as the evidence sees them.                            *)
(***************************************************************************)

\* Only the rollback of an install touches evidence: it returns what the
\* snapshot keeps, which was taken of what was there.
LEMMA DeployEffects ==
  ASSUME DeployInv, DeployNext
  PROVE  /\ UNCHANGED eva
         /\ \/ rep' = rep
            \/ /\ Kept
               /\ \E name \in DOMAIN saved.rep : rep' = [rep EXCEPT ![Base] = Written(@, name, saved.rep[name])]
         /\ \/ ptr' = ptr
            \/ /\ Kept
               /\ \E k \in DOMAIN saved.ptr : ptr' = [ptr EXCEPT ![Base] = Written(@, k, saved.ptr[k])]
         /\ \/ active' = active
            \/ /\ Kept
               /\ active' = [active EXCEPT ![Base] = IF saved.active = None THEN @ ELSE saved.active]
         /\ \/ saved' = saved /\ (Kept' => Kept)
            \/ /\ UNCHANGED <<rep, ptr, active>>
               /\ saved'.rep = rep[Base] /\ saved'.ptr = ptr[Base] /\ saved'.active = active[Base]
<1> DEFINE Calm == UNCHANGED <<eva, rep, ptr, active, saved>> /\ (Kept' => Kept)
<1>0. NoDeploy.step = "idle"
  BY DEF NoDeploy
<1>1. CASE \E c, b \in Checkouts : PlanUpdate(c, b)
  BY <1>1 DEF PlanUpdate, Begin, evidenceFiles, Kept, InstallSteps
<1>2. CASE BackUpRuntime \/ SealRuntime \/ AdoptLock \/ RestoreLock
  <2>1. UNCHANGED <<eva, rep, ptr, active, saved>> /\ dep.step \notin InstallSteps
    BY <1>2 DEF BackUpRuntime, SealRuntime, AdoptLock, RestoreLock, evidenceFiles, InstallSteps
  <2>2. dep'.step \notin InstallSteps
    BY <1>0, <1>2, DeployShapes DEF DeployInv, BackUpRuntime, SealRuntime, AdoptLock, RestoreLock,
       Stop, InstallSteps
  <2> QED
    BY <2>1, <2>2 DEF Kept
<1>3. CASE \E f \in RuntimeFiles : CopyRuntime(f) \/ RestoreRuntime(f)
  <2>1. UNCHANGED <<eva, rep, ptr, active, saved>> /\ dep.step \notin InstallSteps
    BY <1>3 DEF CopyRuntime, RestoreRuntime, evidenceFiles, InstallSteps
  <2>2. dep'.step \notin InstallSteps
    BY <1>0, <1>3, DeployShapes DEF DeployInv, CopyRuntime, RestoreRuntime, Stop, InstallSteps
  <2> QED
    BY <2>1, <2>2 DEF Kept
<1>4. CASE \E b \in backups : Rollback(b)
  BY <1>4 DEF Rollback, Begin, evidenceFiles, Kept, InstallSteps
<1>5. CASE \E rows \in SUBSET SourceFiles : BeginInstall(rows)
  BY <1>5 DEF BeginInstall, Begin, evidenceFiles
<1>6. CASE \E f \in SourceFiles : InstallFile(f) \/ UndoSource(f)
  BY <1>6 DEF InstallFile, UndoSource, evidenceFiles, Kept, InstallSteps
<1>7. CASE RollbackInstall
  BY <1>7 DEF RollbackInstall, evidenceFiles, Kept
<1>8. CASE UndoSelection \/ UndoLock
  BY <1>8 DEF UndoSelection, UndoLock, evidenceFiles, Kept, InstallSteps
<1>9. CASE \E k \in DOMAIN saved.ptr : UndoPointer(k)
  BY <1>9 DEF UndoPointer, Kept, InstallSteps
<1>12. CASE \E name \in DOMAIN saved.rep : UndoReport(name)
  BY <1>12 DEF UndoReport, Kept, InstallSteps
<1>10. CASE AbandonDeploy
  BY <1>0, <1>10 DEF AbandonDeploy, Stop, evidenceFiles, Kept, InstallSteps
<1>11. CASE HandEdit \/ \E f \in SourceFiles, v \in Versions : Commit(f, v)
  BY <1>11 DEF HandEdit, Commit, evidenceFiles, deployVars, Kept
<1> QED
  BY <1>1, <1>2, <1>3, <1>4, <1>5, <1>6, <1>7, <1>8, <1>9, <1>10, <1>11, <1>12 DEF DeployNext

LEMMA DeployKeepsEvidence ==
  ASSUME Inv, DeployNext, UNCHANGED <<episodes, records, measured, ran>>
  PROVE  Inv'
<1> USE DEF Inv
<1>1. DeployInv'
  BY DeployStep
<1>2. /\ UNCHANGED eva
      /\ \/ rep' = rep
         \/ /\ Kept
            /\ \E name \in DOMAIN saved.rep : rep' = [rep EXCEPT ![Base] = Written(@, name, saved.rep[name])]
      /\ \/ ptr' = ptr
         \/ /\ Kept
            /\ \E k \in DOMAIN saved.ptr : ptr' = [ptr EXCEPT ![Base] = Written(@, k, saved.ptr[k])]
      /\ \/ active' = active
         \/ /\ Kept
            /\ active' = [active EXCEPT ![Base] = IF saved.active = None THEN @ ELSE saved.active]
      /\ \/ saved' = saved /\ (Kept' => Kept)
         \/ /\ UNCHANGED <<rep, ptr, active>>
            /\ saved'.rep = rep[Base] /\ saved'.ptr = ptr[Base] /\ saved'.active = active[Base]
  BY DeployEffects
<1>3. Base \in Checkouts
  BY DEF Checkouts
<1>4. RepOK(ran)'
  BY <1>2, <1>3, ReportRestored DEF EvidenceInv, RepOK, SavedOK
<1>5. PtrOK(ran)'
  BY <1>2, <1>3, PointerRestored DEF EvidenceInv, PtrOK, SavedOK
<1>6. ActiveOK(ran)'
  BY <1>2, <1>3 DEF EvidenceInv, ActiveOK, SavedOK
<1>7. EpisodesOK(ran)' /\ MeasuredOK(ran)'
  BY DEF EvidenceInv, EpisodesOK, MeasuredOK
<1>8. SavedOK(ran)'
  <2>1. CASE saved' = saved /\ (Kept' => Kept)
    BY <2>1 DEF EvidenceInv, SavedOK
  <2>2. CASE saved'.rep = rep[Base] /\ saved'.ptr = ptr[Base] /\ saved'.active = active[Base]
    BY <1>3, <2>2 DEF EvidenceInv, SavedOK, RepOK, PtrOK, ActiveOK
  <2> QED
    BY <1>2, <2>1, <2>2
<1>9. (eva \in Command)' /\ CommandHolds(ran)'
  BY <1>2 DEF EvidenceInv, CommandHolds, SessionHolds, Resumes, CertifyHolds, Mode, Subject
<1>10. SelectionInv'
  <2>1. SelectionIsRecorded'
    BY <1>2, <1>3 DEF SelectionInv, SelectionIsRecorded, EvidenceInv, ActiveOK
  <2>2. Kept' => saved'.active \in records[Base] \cup {None}
    BY <1>2, <1>3 DEF SelectionInv, SelectionIsRecorded
  <2> QED
    BY <1>2, <2>1, <2>2 DEF SelectionInv
<1> QED
  BY <1>1, <1>4, <1>5, <1>6, <1>7, <1>8, <1>9, <1>10 DEF EvidenceInv

-----------------------------------------------------------------------------
(***************************************************************************)
(* Collection.                                                             *)
(***************************************************************************)

\* A report is written.
LEMMA ReportStep ==
  ASSUME RepOK(ran), ran \subseteq ran', NEW c \in Checkouts, NEW name, NEW value,
         Report(c, name, value),
         \A p : ReportsHold(p, ran') => ReportsHold(Written(p, name, value), ran')
  PROVE  RepOK(ran)'
<1>1. rep' = [rep EXCEPT ![c] = Written(@, name, value)]
  BY DEF Report
<1>2. ASSUME NEW d \in Checkouts
      PROVE  ReportsHold(rep'[d], ran')
  <2>1. ReportsHold(rep[d], ran')
    BY ReportsGrow DEF RepOK
  <2>2. rep'[d] = IF d = c THEN Written(rep[d], name, value) ELSE rep[d]
    BY <1>1 DEF RepOK
  <2> QED
    BY <2>1, <2>2
<1> QED
  BY <1>1, <1>2 DEF RepOK

\* Reports the invariant says nothing of may say anything.
LEMMA OtherReport ==
  ASSUME NEW R, NEW p, NEW name, NEW value, ReportsHold(p, R),
         name \notin {"profiles", "fixtures", "runs", "reorder", "faults", "release", "settlement"}
  PROVE  ReportsHold(Written(p, name, value), R)
<1> PICK q : q = Written(p, name, value)
  OBVIOUS
<1>1. /\ DOMAIN q = {name} \cup DOMAIN p
      /\ \A other \in DOMAIN p : other # name => q[other] = p[other]
  BY DEF Written
<1>2. ReportsHold(q, R)
  BY <1>1 DEF ReportsHold
<1> QED
  BY <1>2

\* The others need what they claim.
LEMMA NewReport ==
  ASSUME NEW R, NEW p, NEW name, NEW value, ReportsHold(p, R),
         name = "profiles" /\ value.stable => Fact("profiles", None, value.env) \in R,
         name = "fixtures" => Complete(value, R),
         name = "runs" => Played(value, "gold", R),
         name = "reorder" => Ran({"reorder"}, value, R),
         name = "faults" => Ran({"faults"}, value, R),
         name = "release" => ReleaseHolds(value, R),
         name = "settlement" => Ran({"actions", "runs", "reorder", "faults"}, value, R)
  PROVE  ReportsHold(Written(p, name, value), R)
<1> PICK q : q = Written(p, name, value)
  OBVIOUS
<1>1. /\ DOMAIN q = {name} \cup DOMAIN p
      /\ q[name] = value
      /\ \A other \in DOMAIN p : other # name => q[other] = p[other]
  BY DEF Written
<1>2. ReportsHold(q, R)
  BY <1>1 DEF ReportsHold
<1> QED
  BY <1>2

\* A session goes on to a later stage.
LEMMA SessionGoto ==
  ASSUME eva \in Session, NEW step \in SessionSteps, eva' = [eva EXCEPT !.step = step]
  PROVE  /\ eva' \in Session /\ (eva \in Command)'
         /\ eva'.step = step /\ eva'.c = eva.c /\ eva'.mode = eva.mode
         /\ eva'.env = eva.env /\ eva'.fixture = eva.fixture
<1>1. eva' \in Session
  BY DEF Session
<1> QED
  BY <1>1 DEF Session, Command

LEMMA StartProcessKeeps ==
  ASSUME Inv, NEW c \in Checkouts, StartProcess(c)
  PROVE  Inv'
<1>1. /\ eva' = [step |-> "start", c |-> c] /\ commands' = commands + 1
      /\ UNCHANGED deploymentVars /\ UNCHANGED <<rep, ptr, active, episodes, records, measured, ran>>
  BY DEF StartProcess
<1>2. eva' \in Starting /\ eva'.step = "start"
  BY <1>1 DEF Starting
<1>3. (eva \in Command)' /\ CommandHolds(ran)'
  BY <1>2 DEF Command, CommandHolds, SessionHolds, CertifyHolds, SessionSteps, CertifySteps
<1> QED
  BY <1>1, <1>2, <1>3, EvidenceFrame

LEMMA OpenSessionKeeps ==
  ASSUME Inv, NEW c \in Checkouts, NEW mode \in Modes, OpenSession(c, mode)
  PROVE  Inv'
<1> USE DEF Inv
<1>1. PICK e \in ResumedFixtures(c, mode) :
        Reads(c, [step |-> FirstStage(mode), c |-> c, mode |-> Remainder(mode),
                  env |-> lock[c], fixture |-> e])
  BY DEF OpenSession
<1>2. /\ eva' = [step |-> FirstStage(mode), c |-> c, mode |-> Remainder(mode),
                 env |-> lock[c], fixture |-> e]
      /\ commands' = commands
      /\ UNCHANGED deploymentVars /\ UNCHANGED <<rep, ptr, active, episodes, records, measured, ran>>
  BY <1>1 DEF Reads, At, OpenSession
<1>3. /\ FirstStage(mode) \in {"profiles", "invalid", "win", "reorder"}
      /\ FirstStage(mode) = "win" <=> mode = "resume_actions"
      /\ FirstStage(mode) = "reorder" <=> mode = "resume_certification"
      /\ Remainder(mode) \in Modes
      /\ Remainder(mode) = "resume_certification" <=> mode = "resume_certification"
  BY DEF Modes, FirstStage, Remainder
<1>4. /\ e \in Game \cup {None}
      /\ mode = "resume_actions" => Played(e, "fixture", ran) /\ e.env = lock[c]
  BY DEF ResumedFixtures, EvidenceInv, EpisodesOK, Played
<1>5. lock[c] \in Env /\ tree[c] \in Tree
  BY DEF DeployInv, DeployTypeOK
<1>6. eva' \in Session
  BY <1>2, <1>3, <1>4, <1>5 DEF Session, SessionSteps
<1>7. SessionHolds(ran)'
  BY <1>2, <1>3, <1>4 DEF SessionHolds, Resumes
<1>8. CommandHolds(ran)'
  BY <1>6, <1>7 DEF CommandHolds, CertifyHolds, Session, SessionSteps, CertifySteps
<1>9. (eva \in Command)' /\ eva'.step \notin {"evidence", "select"}
  BY <1>2, <1>3, <1>6 DEF Command
<1> QED
  BY <1>2, <1>8, <1>9, EvidenceFrame

LEMMA AuditProfilesKeeps ==
  ASSUME Inv, AuditProfiles
  PROVE  Inv'
<1> USE DEF Inv
<1>1. /\ eva \in Session /\ eva.step = "profiles" /\ eva.c \in Checkouts
      /\ UNCHANGED <<deploymentVars, commands>>
      /\ UNCHANGED <<ptr, active, episodes, records, measured>>
  BY CommandShapes DEF AuditProfiles, At, EvidenceInv, SessionSteps, Session
<1>2. PICK stable \in BOOLEAN :
        /\ Report(eva.c, "profiles", [env |-> eva.env, stable |-> stable])
        /\ IF stable THEN Goto("invalid") ELSE End
        /\ ran' = IF stable THEN ran \cup Facts("profiles", eva.env) ELSE ran
  BY DEF AuditProfiles
<1>0. ran \subseteq ran' /\ (stable => Fact("profiles", None, eva.env) \in ran')
  BY <1>2, FactsOf DEF Unsourced
<1>3. RepOK(ran)'
  <2>1. ASSUME NEW p, ReportsHold(p, ran')
        PROVE  ReportsHold(Written(p, "profiles", [env |-> eva.env, stable |-> stable]), ran')
    <3>1. stable => Fact("profiles", None, [env |-> eva.env, stable |-> stable].env) \in ran'
      BY <1>0
    <3> QED
      BY <2>1, <3>1, NewReport
  <2> QED
    BY <1>0, <1>1, <1>2, <2>1, ReportStep DEF EvidenceInv
<1>4. CASE stable
  <2>1. /\ eva' \in Session /\ (eva \in Command)' /\ eva'.step = "invalid" /\ eva'.mode = eva.mode
    BY <1>1, <1>2, <1>4, SessionGoto DEF Goto, SessionSteps
  <2>2. SessionHolds(ran)'
    BY <1>1, <2>1 DEF EvidenceInv, CommandHolds, SessionHolds, Resumes, SessionSteps
  <2>3. CommandHolds(ran)'
    BY <2>1, <2>2 DEF CommandHolds, CertifyHolds, CertifySteps
  <2> QED
    BY <1>0, <1>1, <1>3, <2>1, <2>3, EvidenceFrame
<1>5. CASE ~stable
  BY <1>0, <1>1, <1>2, <1>3, <1>5, IdleHolds, EvidenceFrame DEF End
<1> QED
  BY <1>4, <1>5

LEMMA CollectActionsKeeps ==
  ASSUME IInv, CollectActions
  PROVE  Inv'
<1> USE DEF Inv
<1> PICK e : e = Episode(eva.c, "fixture")
  OBVIOUS
<1>1. /\ eva \in Session /\ eva.step = "actions" /\ eva.c \in Checkouts
      /\ eva.env \in Env
      /\ UNCHANGED <<deploymentVars, commands>>
      /\ UNCHANGED <<rep, ptr, active, records, measured>>
      /\ episodes' = [episodes EXCEPT ![eva.c] = @ \cup {e}]
      /\ eva' = [eva EXCEPT !.step = "win", !.fixture = e]
      /\ ran' = ran \cup Facts("actions", eva.env)
  BY CommandShapes DEF IInv, CollectActions, At, EvidenceInv, SessionSteps, Session
<1>2. tree[eva.c] \in Tree /\ commands \in Nat
  BY <1>1 DEF IInv, DeployInv, DeployTypeOK
<1>3. e \in Game /\ e.play = "fixture" /\ e.src = tree[eva.c] /\ e.env = eva.env
  BY <1>1, <1>2 DEF Episode, Game, Plays
<1>4. Fact("actions", e.src, e.env) \in ran' /\ Fact("invalid", None, e.env) \in ran'
  <2>1. tree[eva.c] \in loaded
    BY <1>1 DEF IInv, LoadedInv
  <2>2. Fact("actions", tree[eva.c], eva.env) \in Facts("actions", eva.env)
    BY <2>1, FactsOf DEF Unsourced
  <2>3. Fact("invalid", None, eva.env) \in ran
    BY <1>1 DEF IInv, EvidenceInv, CommandHolds, SessionHolds, SessionSteps
  <2> QED
    BY <1>1, <1>3, <2>2, <2>3
<1>5. Played(e, "fixture", ran')
  BY <1>3, <1>4 DEF Played
<1>6. EpisodesOK(ran)'
  BY <1>1, <1>5, PlayedGrows DEF IInv, EvidenceInv, EpisodesOK
<1>7. /\ eva' \in Session /\ eva'.step = "win" /\ eva'.mode = eva.mode /\ eva'.fixture = e
      /\ eva'.env = eva.env
  BY <1>1, <1>3 DEF Session, SessionSteps
<1>8. SessionHolds(ran)'
  BY <1>1, <1>3, <1>5, <1>7 DEF IInv, EvidenceInv, CommandHolds, SessionHolds, Resumes, SessionSteps
<1>9. CommandHolds(ran)' /\ (eva \in Command)'
  BY <1>7, <1>8 DEF CommandHolds, CertifyHolds, CertifySteps, Command
<1> QED
  BY <1>1, <1>6, <1>7, <1>9, EvidenceFrame DEF IInv

LEMMA CollectWinKeeps ==
  ASSUME Inv, CollectWin
  PROVE  Inv'
<1> USE DEF Inv
<1>1. /\ eva \in Session /\ eva.step = "win" /\ eva.c \in Checkouts
      /\ UNCHANGED <<deploymentVars, commands>>
      /\ UNCHANGED <<rep, ptr, active, episodes, records, measured>>
      /\ eva' = [eva EXCEPT !.step = "runs"]
      /\ ran' = ran \cup Facts("win", eva.env)
  BY CommandShapes DEF CollectWin, At, Goto, EvidenceInv, SessionSteps, Session
<1>2. Fact("win", None, eva.env) \in ran'
  BY <1>1, FactsOf DEF Unsourced
<1>3. /\ eva' \in Session /\ (eva \in Command)' /\ eva'.step = "runs" /\ eva'.mode = eva.mode
      /\ eva'.env = eva.env /\ eva'.fixture = eva.fixture
  BY <1>1, SessionGoto DEF SessionSteps
<1>4. ~Resumes /\ Played(eva.fixture, "fixture", ran) /\ eva.fixture.env = eva.env
  BY <1>1 DEF EvidenceInv, CommandHolds, SessionHolds, SessionSteps
<1>5. Played(eva.fixture, "fixture", ran')
  BY <1>1, <1>4, PlayedGrows
<1>6. SessionHolds(ran)'
  BY <1>2, <1>3, <1>4, <1>5 DEF SessionHolds, Resumes
<1>7. CommandHolds(ran)' /\ eva'.step \notin {"evidence", "select"}
  BY <1>3, <1>6 DEF CommandHolds, CertifyHolds, CertifySteps
<1> QED
  BY <1>1, <1>3, <1>7, EvidenceFrame

\* A stage that leaves a report, tagged with what it ran under.
LEMMA CollectKeeps ==
  ASSUME IInv, NEW step \in {"invalid", "runs", "reorder", "faults"}, NEW next \in SessionSteps,
         NEW report, Collect(step, next, report),
         step = "runs" => report = Episode(eva.c, "gold"),
         step # "runs" => report = Tag(eva.c),
         step = "invalid" => next = "actions", step = "runs" => next = "reorder",
         step = "reorder" => next = IF eva.mode = "resume_certification" THEN "read_collected"
                                                                        ELSE "faults",
         step = "faults" => next = "fixtures"
  PROVE  Inv'
<1> USE DEF IInv, Inv
<1>1. /\ eva \in Session /\ eva.step = step /\ eva.c \in Checkouts /\ eva.env \in Env
      /\ UNCHANGED <<deploymentVars, commands>>
      /\ UNCHANGED <<ptr, active, episodes, records, measured>>
      /\ Report(eva.c, step, report)
      /\ eva' = [eva EXCEPT !.step = next]
      /\ ran' = ran \cup Facts(step, eva.env)
  BY CommandShapes DEF Collect, At, Goto, EvidenceInv, SessionSteps, Session
<1>2. tree[eva.c] \in Tree /\ commands \in Nat
  BY <1>1 DEF DeployInv, DeployTypeOK
<1>0. /\ step # "invalid" => Fact(step, tree[eva.c], eva.env) \in ran'
      /\ step = "invalid" => Fact("invalid", None, eva.env) \in ran'
  <2>1. tree[eva.c] \in loaded /\ (step # "invalid" => step \notin Unsourced)
    BY <1>1 DEF LoadedInv, Unsourced
  <2> QED
    BY <1>1, <2>1, FactsOf DEF Unsourced
<1>3. RepOK(ran)'
  <2>1. step = "runs" => Played(report, "gold", ran')
    <3> SUFFICES ASSUME step = "runs"
                 PROVE  Played(report, "gold", ran')
      OBVIOUS
    <3>1. /\ report \in Game /\ report.play = "gold"
          /\ report.src = tree[eva.c] /\ report.env = eva.env
      BY <1>1, <1>2 DEF Episode, Game, Plays
    <3> QED
      BY <1>0, <3>1 DEF Played
  <2>2. /\ step = "reorder" => Ran({"reorder"}, report, ran')
        /\ step = "faults" => Ran({"faults"}, report, ran')
    BY <1>0, <1>1 DEF Ran, Tag
  <2>3. ASSUME NEW p, ReportsHold(p, ran')
        PROVE  ReportsHold(Written(p, step, report), ran')
    BY <2>1, <2>2, <2>3, NewReport
  <2> QED
    BY <1>1, <2>3, ReportStep DEF EvidenceInv
<1>4. /\ eva' \in Session /\ (eva \in Command)'
      /\ eva'.step = next /\ eva'.mode = eva.mode /\ eva'.fixture = eva.fixture
      /\ eva'.env = eva.env
  BY <1>1, SessionGoto
<1>5. SessionHolds(ran)'
  <2>1. SessionHolds(ran')
    <3>1. SessionHolds(ran)
      BY DEF EvidenceInv, CommandHolds
    <3> QED
      BY <1>1, <3>1, PlayedGrows DEF SessionHolds
  <2>3. next = "actions" <=> step = "invalid"
    BY <1>1
  <2>2. eva.step \in SessionSteps
    BY <1>1 DEF Session
  <2> QED
    BY <1>0, <1>1, <1>4, <2>1, <2>2, <2>3 DEF SessionHolds, Resumes
<1>6. CommandHolds(ran)' /\ eva'.step \notin {"evidence", "select"}
  BY <1>4, <1>5 DEF CommandHolds, CertifyHolds, CertifySteps, SessionSteps
<1> QED
  BY <1>1, <1>3, <1>4, <1>6, EvidenceFrame

LEMMA CollectStagesKeep ==
  ASSUME IInv, CollectInvalid \/ CollectRuns \/ CollectReorder \/ CollectFaults
  PROVE  Inv'
<1>1. {"actions", "reorder", "read_collected", "faults", "fixtures"} \subseteq SessionSteps
  BY DEF SessionSteps
<1>2. CASE CollectInvalid
  BY <1>1, <1>2, CollectKeeps DEF CollectInvalid
<1>3. CASE CollectRuns
  BY <1>1, <1>3, CollectKeeps DEF CollectRuns
<1>4. CASE CollectReorder
  <2> PICK next : next = IF eva.mode = "resume_certification" THEN "read_collected" ELSE "faults"
    OBVIOUS
  <2>1. next \in SessionSteps
    BY <1>1
  <2> QED
    BY <1>4, <2>1, CollectKeeps DEF CollectReorder
<1>5. CASE CollectFaults
  BY <1>1, <1>5, CollectKeeps DEF CollectFaults
<1> QED
  BY <1>2, <1>3, <1>4, <1>5

LEMMA WriteFixturesKeeps ==
  ASSUME Inv, WriteFixtures
  PROVE  Inv'
<1> USE DEF Inv
<1>1. /\ eva \in Session /\ eva.step = "fixtures" /\ eva.c \in Checkouts
      /\ UNCHANGED <<deploymentVars, commands>>
      /\ UNCHANGED <<ptr, active, episodes, records, measured, ran>>
      /\ eva' = Idle
  BY CommandShapes DEF WriteFixtures, At, End, EvidenceInv, SessionSteps, Session
<1>2. Complete(eva.fixture, ran)
  BY <1>1 DEF EvidenceInv, CommandHolds, SessionHolds, SessionSteps, Complete
<1>3. UNCHANGED rep \/ Report(eva.c, "fixtures", eva.fixture)
  BY DEF WriteFixtures
<1>4. UNCHANGED rep \/ RepOK(ran)'
  <2>1. ASSUME NEW p, ReportsHold(p, ran')
        PROVE  ReportsHold(Written(p, "fixtures", eva.fixture), ran')
    BY <1>1, <1>2, <2>1, NewReport
  <2> QED
    BY <1>1, <1>3, <2>1, ReportStep DEF EvidenceInv
<1> QED
  BY <1>1, <1>4, IdleHolds, EvidenceFrame

-----------------------------------------------------------------------------
(***************************************************************************)
(* Replay and certification.                                               *)
(***************************************************************************)

\* The invariant of a certification, from its parts.
LEMMA CertificationHolds ==
  ASSUME NEW R, eva \in Certification, CertifyHolds(R)
  PROVE  CommandHolds(R)
BY DEF CommandHolds, SessionHolds, Certification, SessionSteps, CertifySteps

\* What is replayed was played.
LEMMA SubjectPlayed ==
  ASSUME NEW R, eva \in Certification, CertifyHolds(R), eva.todo # <<>>
  PROVE  /\ Head(eva.todo) \in {"fixture", "gold", "direct"} /\ Tail(eva.todo) \in Rest
         /\ Subject \in Game
         /\ Head(eva.todo) # "direct" => Subject.play = Head(eva.todo) /\ Mode = "seed_prefix"
         /\ Head(eva.todo) = "direct" => Mode = "checkpoint"
<1>1. Head(eva.todo) \in {"fixture", "gold", "direct"} /\ Tail(eva.todo) \in Rest
  BY RestFacts DEF Certification
<1>2. Complete(eva.fixture, R) /\ Played(eva.gold, "gold", R)
  BY DEF CertifyHolds, Certification
<1> QED
  BY <1>1, <1>2 DEF Subject, Mode, Complete, Played

\* What a step of a certification does not change of the command.
LEMMA CertifyBase ==
  ASSUME Inv, eva.step \in CertifySteps
  PROVE  /\ eva \in Certification /\ eva.c \in Checkouts /\ CertifyHolds(ran)
         /\ Complete(eva.fixture, ran) /\ Played(eva.gold, "gold", ran)
BY CommandShapes DEF Inv, EvidenceInv, CommandHolds, CertifyHolds, Certification

LEMMA StartReplayKeeps ==
  ASSUME Inv, StartReplay
  PROVE  Inv'
<1> USE DEF Inv
<1>1. /\ eva.step = "certify" /\ eva.step \in CertifySteps
      /\ UNCHANGED <<deploymentVars, commands>>
      /\ UNCHANGED <<rep, ptr, active, episodes, records, measured, ran>>
      /\ eva' = [eva EXCEPT !.step = "replaying", !.seen = tree[eva.c]]
  BY DEF StartReplay, At, CertifySteps
<1>2. /\ eva \in Certification /\ eva.c \in Checkouts /\ CertifyHolds(ran)
      /\ Complete(eva.fixture, ran) /\ Played(eva.gold, "gold", ran)
  BY <1>1, CertifyBase
<1>3. tree[eva.c] \in Tree
  BY <1>2 DEF DeployInv, DeployTypeOK
<1>4. /\ eva' \in Certification /\ eva'.step = "replaying"
      /\ eva'.fixture = eva.fixture /\ eva'.gold = eva.gold /\ eva'.todo = eva.todo
      /\ eva'.seen = tree[eva.c]
  BY <1>1, <1>2, <1>3 DEF Certification, CertifySteps
<1>5. eva.todo # <<>>
  BY <1>1, <1>2 DEF CertifyHolds
<1>6. CertifyHolds(ran)'
  BY <1>1, <1>2, <1>3, <1>4, <1>5 DEF CertifyHolds
<1>7. CommandHolds(ran)'
  BY <1>4, <1>6 DEF CommandHolds, SessionHolds, SessionSteps
<1> QED
  BY <1>1, <1>4, <1>7, EvidenceFrame DEF Command

\* One pointer is written.
LEMMA SelectStep ==
  ASSUME PtrOK(ran), ran \subseteq ran', eva.c \in Checkouts, NEW e, NEW d, NEW cert,
         Select(e, d, cert),
         cert.passed => /\ cert.env = e.env
                        /\ d = 1 => Fact(e.play, cert.src, cert.env) \in ran'
  PROVE  PtrOK(ran)'
<1>1. ptr' = [ptr EXCEPT ![eva.c] = Written(@, <<e, d>>, cert)]
  BY DEF Select
<1>2. ASSUME NEW c \in Checkouts
      PROVE  PointersHold(ptr'[c], ran')
  <2>1. PointersHold(ptr[c], ran')
    BY PointersGrow DEF PtrOK
  <2>2. ptr'[c] = IF c = eva.c THEN Written(ptr[c], <<e, d>>, cert) ELSE ptr[c]
    BY <1>1 DEF PtrOK
  <2>3. PointersHold(Written(ptr[c], <<e, d>>, cert), ran')
    BY <2>1, PointerWritten
  <2> QED
    BY <2>1, <2>2, <2>3
<1> QED
  BY <1>1, <1>2 DEF PtrOK

\* After a replay comes the next one, or the branch.
LEMMA OnwardHolds ==
  ASSUME eva \in Certification, CertifyHolds(ran), ran \subseteq ran',
         NEW todo \in Rest, Onward(todo)
  PROVE  /\ eva' \in Certification /\ (eva \in Command)' /\ CommandHolds(ran)'
         /\ eva'.step \notin {"evidence", "select"}
<1>1. /\ eva' \in Certification /\ eva'.step = IF todo = <<>> THEN "branch" ELSE "certify"
      /\ eva'.fixture = eva.fixture /\ eva'.gold = eva.gold /\ eva'.todo = todo
  BY DEF Onward, Certification, CertifySteps
<1>2. Complete(eva.fixture, ran') /\ Played(eva.gold, "gold", ran')
  BY PlayedGrows, CompleteGrows DEF CertifyHolds, Certification
<1>3. CertifyHolds(ran)'
  BY <1>1, <1>2 DEF CertifyHolds
<1>4. CommandHolds(ran)'
  BY <1>1, <1>3 DEF CommandHolds, SessionHolds, SessionSteps
<1> QED
  BY <1>1, <1>4 DEF Command

LEMMA ReplayPassesKeeps ==
  ASSUME IInv, ReplayPasses
  PROVE  Inv'
<1> USE DEF IInv, Inv
<1> PICK cert : cert = Outcome(TRUE)
  OBVIOUS
<1> PICK subject : subject = Subject
  OBVIOUS
<1>1. /\ eva.step = "replaying" /\ eva.step \in CertifySteps
      /\ UNCHANGED <<deploymentVars, commands>>
      /\ UNCHANGED <<rep, active, episodes, records, measured>>
      /\ Select(subject, 0, cert)
      /\ tree[eva.c] = eva.seen
      /\ ran' = ran \cup Facts(Head(eva.todo), subject.env)
      /\ IF Mode = "seed_prefix" THEN Goto("derive") ELSE Onward(Tail(eva.todo))
  BY DEF ReplayPasses, At, CertifySteps
<1>2. /\ eva \in Certification /\ eva.c \in Checkouts /\ CertifyHolds(ran)
      /\ Complete(eva.fixture, ran) /\ Played(eva.gold, "gold", ran)
  BY <1>1, CertifyBase
<1>3. eva.todo # <<>> /\ eva.seen \in Tree
  BY <1>1, <1>2 DEF CertifyHolds
<1>4. /\ Head(eva.todo) \in {"fixture", "gold", "direct"} /\ Tail(eva.todo) \in Rest
  BY <1>2, <1>3, SubjectPlayed
<1>5. PtrOK(ran)'
  <2>1. /\ cert.env = subject.env
        /\ 0 = 1 => Fact(subject.play, cert.src, cert.env) \in ran'
    BY DEF Outcome
  <2>2. PtrOK(ran) /\ ran \subseteq ran' /\ eva.c \in Checkouts /\ Select(subject, 0, cert)
    BY <1>1, <1>2 DEF EvidenceInv
  <2> QED
    BY <2>1, <2>2, SelectStep
<1>6. /\ (eva \in Command)' /\ CommandHolds(ran)'
      /\ eva'.step \notin {"evidence", "select"}
  <2>1. CASE Mode # "seed_prefix"
    BY <1>1, <1>2, <1>4, <2>1, OnwardHolds
  <2>2. CASE Mode = "seed_prefix"
    <3>1. eva' = [eva EXCEPT !.step = "derive"]
      BY <1>1, <2>2 DEF Goto
    <3>2. /\ eva' \in Certification /\ eva'.step = "derive"
          /\ eva'.fixture = eva.fixture /\ eva'.gold = eva.gold /\ eva'.todo = eva.todo
          /\ eva'.seen = eva.seen
      BY <1>2, <3>1 DEF Certification, CertifySteps
    <3>3. Subject' = subject /\ Mode' = "seed_prefix"
      BY <2>2, <3>2 DEF Subject, Mode
    <3>4. Complete(eva.fixture, ran') /\ Played(eva.gold, "gold", ran')
      BY <1>1, <1>2, PlayedGrows, CompleteGrows
    <3>5. Fact(Head(eva'.todo), eva'.seen, Subject'.env) \in ran'
      <4>1. eva.seen \in loaded
        BY <1>1 DEF LoadedInv, CertifySteps
      <4>2. Fact(Head(eva.todo), eva.seen, subject.env) \in Facts(Head(eva.todo), subject.env)
        BY <1>4, <4>1, FactsOf DEF Unsourced
      <4> QED
        BY <1>1, <3>2, <3>3, <4>2
    <3>6. CertifyHolds(ran)'
      BY <1>3, <3>2, <3>3, <3>4, <3>5 DEF CertifyHolds
    <3>7. CommandHolds(ran)'
      BY <3>2, <3>6 DEF CommandHolds, SessionHolds, SessionSteps
    <3> QED
      BY <3>2, <3>7 DEF Command
  <2> QED
    BY <2>1, <2>2
<1> QED
  BY <1>1, <1>5, <1>6, EvidenceFrame

LEMMA DeriveBoundaryKeeps ==
  ASSUME Inv, DeriveBoundary
  PROVE  Inv'
<1> USE DEF Inv
<1> PICK cert : cert = Outcome(TRUE)
  OBVIOUS
<1> PICK subject : subject = Subject
  OBVIOUS
<1>1. /\ eva.step = "derive" /\ eva.step \in CertifySteps
      /\ UNCHANGED <<deploymentVars, commands>>
      /\ UNCHANGED <<rep, active, episodes, records, measured, ran>>
      /\ Select(subject, 1, cert) /\ Onward(Tail(eva.todo))
  BY DEF DeriveBoundary, At, CertifySteps
<1>2. /\ eva \in Certification /\ eva.c \in Checkouts /\ CertifyHolds(ran)
  BY <1>1, CertifyBase
<1>3. /\ eva.todo # <<>> /\ eva.seen \in Tree /\ Mode = "seed_prefix"
      /\ Fact(Head(eva.todo), eva.seen, subject.env) \in ran
  BY <1>1, <1>2 DEF CertifyHolds, CertifySteps
<1>4. /\ Tail(eva.todo) \in Rest /\ subject.play = Head(eva.todo)
  BY <1>2, <1>3, SubjectPlayed
<1>5. PtrOK(ran)'
  <2>1. cert.env = subject.env /\ cert.src = eva.seen
    BY DEF Outcome
  <2> QED
    BY <1>1, <1>2, <1>3, <1>4, <2>1, SelectStep DEF EvidenceInv
<1> QED
  BY <1>1, <1>2, <1>4, <1>5, OnwardHolds, EvidenceFrame

LEMMA ReplayFailsKeeps ==
  ASSUME Inv, ReplayFails
  PROVE  Inv'
<1> USE DEF Inv
<1> PICK cert : cert = Outcome(FALSE)
  OBVIOUS
<1> PICK subject : subject = Subject
  OBVIOUS
<1>1. /\ eva.step = "replaying" /\ eva.step \in CertifySteps
      /\ UNCHANGED <<deploymentVars, commands>>
      /\ UNCHANGED <<rep, active, episodes, records, measured, ran>>
      /\ Select(subject, 0, cert) \/ UNCHANGED ptr
      /\ End \/ Onward(Tail(eva.todo))
  BY DEF ReplayFails, At, CertifySteps
<1>2. /\ eva \in Certification /\ eva.c \in Checkouts /\ CertifyHolds(ran)
  BY <1>1, CertifyBase
<1>3. Tail(eva.todo) \in Rest
  BY <1>1, <1>2, SubjectPlayed DEF CertifyHolds
<1>4. UNCHANGED ptr \/ PtrOK(ran)'
  <2>1. cert.passed = FALSE
    BY DEF Outcome
  <2>2. ASSUME Select(subject, 0, cert)
        PROVE  PtrOK(ran)'
    BY <1>1, <1>2, <2>1, <2>2, SelectStep DEF EvidenceInv
  <2> QED
    BY <1>1, <2>2
<1>5. (eva \in Command)' /\ CommandHolds(ran)' /\ eva'.step \notin {"evidence", "select"}
  BY <1>1, <1>2, <1>3, OnwardHolds, IdleHolds DEF End
<1> QED
  BY <1>1, <1>4, <1>5, EvidenceFrame

\* A certification begins with games that were collected.
LEMMA CertifyingHolds ==
  ASSUME Inv, NEW c \in Checkouts, Collected(c)
  PROVE  /\ Certifying(c) \in Certification
         /\ Complete(rep[c].fixtures, ran) /\ Played(rep[c].runs, "gold", ran)
<1>1. ReportsHold(rep[c], ran)
  BY DEF Inv, EvidenceInv, RepOK
<1>2. Complete(rep[c].fixtures, ran) /\ Played(rep[c].runs, "gold", ran)
  BY <1>1 DEF Collected, Has, ReportsHold
<1>3. tree[c] \in Tree
  BY DEF Inv, DeployInv, DeployTypeOK
<1> QED
  BY <1>2, <1>3, RestFacts DEF Certifying, Certification, CertifySteps, Complete, Played

LEMMA BeginCertifyKeeps ==
  ASSUME Inv, NEW c \in Checkouts,
         BeginCertify(c) \/ (ReadCollected /\ c = eva.c) \/ BeginBranch(c)
  PROVE  Inv'
<1> USE DEF Inv
<1>1. /\ Collected(c) /\ UNCHANGED deploymentVars /\ commands' = commands
      /\ UNCHANGED <<rep, ptr, active, episodes, records, measured, ran>>
      /\ eva' = Certifying(c) \/ eva' = [Certifying(c) EXCEPT !.step = "branch", !.todo = <<>>]
  BY DEF BeginCertify, ReadCollected, BeginBranch, Reads, At
<1>2. /\ Certifying(c) \in Certification
      /\ Complete(rep[c].fixtures, ran) /\ Played(rep[c].runs, "gold", ran)
  BY <1>1, CertifyingHolds
<1>3. /\ Certifying(c).step = "certify" /\ Certifying(c).todo = Replays
      /\ Certifying(c).fixture = rep[c].fixtures /\ Certifying(c).gold = rep[c].runs
  BY DEF Certifying
<1>4. /\ eva' \in Certification
      /\ (eva'.step = "certify" /\ eva'.todo # <<>>) \/ eva'.step = "branch"
      /\ eva'.fixture = rep[c].fixtures /\ eva'.gold = rep[c].runs
  BY <1>1, <1>2, <1>3, RestFacts DEF Certification, CertifySteps
<1>5. CertifyHolds(ran)'
  BY <1>1, <1>2, <1>4 DEF CertifyHolds
<1>6. CommandHolds(ran)'
  BY <1>4, <1>5 DEF CommandHolds, SessionHolds, SessionSteps
<1>7. (eva \in Command)' /\ eva'.step \notin {"evidence", "select"}
  BY <1>4 DEF Command
<1> QED
  BY <1>1, <1>6, <1>7, EvidenceFrame

LEMMA ReadCollectedKeeps ==
  ASSUME Inv, ReadCollected
  PROVE  Inv'
<1>1. eva \in Session
  BY CommandShapes DEF Inv, EvidenceInv, ReadCollected, At, SessionSteps
<1>2. eva.c \in Checkouts
  BY <1>1 DEF Session
<1> QED
  BY <1>2, BeginCertifyKeeps

LEMMA BranchRunKeeps ==
  ASSUME IInv, BranchRun
  PROVE  Inv'
<1> USE DEF IInv, Inv
<1>1. /\ eva.step = "branch" /\ eva.step \in CertifySteps
      /\ UNCHANGED <<deploymentVars, commands>>
      /\ UNCHANGED <<rep, ptr, active, episodes, records, measured>>
      /\ Usable(eva.c, eva.gold, 0)
      /\ eva' = [eva EXCEPT !.step = "release"]
      /\ ran' = ran \cup Facts("branch", lock[eva.c])
  BY DEF BranchRun, Goto, At, CertifySteps
<1>2. /\ eva \in Certification /\ eva.c \in Checkouts /\ CertifyHolds(ran)
      /\ Complete(eva.fixture, ran) /\ Played(eva.gold, "gold", ran)
  BY <1>1, CertifyBase
<1>3. Fact("branch", eva.source, lock[eva.c]) \in ran'
  <2>1. eva.source \in loaded
    BY <1>1 DEF LoadedInv
  <2> QED
    BY <1>1, <2>1, FactsOf DEF Unsourced
<1>4. lock[eva.c] = eva.gold.env
  <2>1. PointersHold(ptr[eva.c], ran)
    BY <1>2 DEF EvidenceInv, PtrOK
  <2> PICK k : k = <<eva.gold, 0>>
    OBVIOUS
  <2>2. k[1] = eva.gold /\ k \in DOMAIN ptr[eva.c] /\ ptr[eva.c][k].passed
        /\ ptr[eva.c][k].env = lock[eva.c]
    BY <1>1 DEF Usable
  <2> QED
    BY <2>1, <2>2 DEF PointersHold
<1>5. /\ eva' \in Certification /\ eva'.step = "release"
      /\ eva'.fixture = eva.fixture /\ eva'.gold = eva.gold /\ eva'.source = eva.source
  BY <1>1, <1>2 DEF Certification, CertifySteps
<1>6. Complete(eva.fixture, ran') /\ Played(eva.gold, "gold", ran')
  BY <1>1, <1>2, PlayedGrows, CompleteGrows
<1>7. CertifyHolds(ran)'
  BY <1>3, <1>4, <1>5, <1>6 DEF CertifyHolds
<1>8. CommandHolds(ran)'
  BY <1>5, <1>7 DEF CommandHolds, SessionHolds, SessionSteps
<1> QED
  BY <1>1, <1>5, <1>8, EvidenceFrame DEF Command

LEMMA WriteReleaseKeeps ==
  ASSUME Inv, WriteRelease
  PROVE  Inv'
<1> USE DEF Inv
<1> PICK r : r = [src |-> eva.source, env |-> lock[eva.c], fixture |-> eva.fixture, gold |-> eva.gold]
  OBVIOUS
<1>1. /\ eva.step = "release" /\ eva.step \in CertifySteps
      /\ UNCHANGED <<deploymentVars, commands>>
      /\ UNCHANGED <<ptr, active, episodes, records, measured, ran>>
      /\ Report(eva.c, "release", r)
      /\ eva' = [step |-> "settle", c |-> eva.c, release |-> r]
  BY DEF WriteRelease, At, CertifySteps
<1>2. /\ eva \in Certification /\ eva.c \in Checkouts /\ CertifyHolds(ran)
      /\ Complete(eva.fixture, ran) /\ Played(eva.gold, "gold", ran)
  BY <1>1, CertifyBase
<1>3. r \in Release
  <2>1. lock[eva.c] \in Env
    BY <1>2 DEF DeployInv, DeployTypeOK
  <2> QED
    BY <1>2, <2>1 DEF Release, Certification
<1>4. ReleaseHolds(r, ran')
  <2>1. Fact("branch", eva.source, eva.gold.env) \in ran
    BY <1>1, <1>2 DEF CertifyHolds
  <2> QED
    BY <1>1, <1>2, <2>1 DEF ReleaseHolds
<1>5. RepOK(ran)'
  <2>1. ASSUME NEW p, ReportsHold(p, ran')
        PROVE  ReportsHold(Written(p, "release", r), ran')
    BY <1>4, <2>1, NewReport
  <2> QED
    BY <1>1, <1>2, <2>1, ReportStep DEF EvidenceInv
<1>6. eva' \in Settlement /\ eva'.step = "settle" /\ eva'.release = r
  BY <1>1, <1>2, <1>3 DEF Settlement
<1>7. CommandHolds(ran)'
  BY <1>4, <1>6 DEF CommandHolds, SessionHolds, CertifyHolds, SessionSteps, CertifySteps
<1> QED
  BY <1>1, <1>5, <1>6, <1>7, EvidenceFrame DEF Command

LEMMA SettleKeeps ==
  ASSUME Inv, Settle
  PROVE  Inv'
<1> USE DEF Inv
<1> PICK r : r = eva.release
  OBVIOUS
<1> PICK value : value = [src |-> r.src, env |-> r.env]
  OBVIOUS
<1>1. /\ eva.step = "settle" /\ eva' = Idle
      /\ UNCHANGED <<deploymentVars, commands>>
      /\ UNCHANGED <<ptr, active, episodes, records, measured, ran>>
      /\ Settled(eva.c, r)
      /\ Report(eva.c, "settlement", value)
  BY DEF Settle, At, End
<1>2. eva.c \in Checkouts /\ ReleaseHolds(r, ran)
  BY <1>1, CommandShapes DEF EvidenceInv, CommandHolds, Settlement
<1>3. ReportsHold(rep[eva.c], ran)
  BY <1>2 DEF EvidenceInv, RepOK
<1>4. Ran({"actions", "runs", "reorder", "faults"}, value, ran)
  <2>1. /\ Tagged(r.fixture, r.src, r.env) /\ Tagged(r.gold, r.src, r.env)
        /\ Tagged(rep[eva.c].faults, r.src, r.env) /\ Tagged(rep[eva.c].reorder, r.src, r.env)
        /\ {"faults", "reorder"} \subseteq DOMAIN rep[eva.c]
    BY <1>1 DEF Settled, Has
  <2>2. Fact("actions", r.src, r.env) \in ran /\ Fact("runs", r.src, r.env) \in ran
    BY <1>2, <2>1 DEF ReleaseHolds, Complete, Played, Tagged
  <2>3. Fact("reorder", r.src, r.env) \in ran /\ Fact("faults", r.src, r.env) \in ran
    BY <1>3, <2>1 DEF ReportsHold, Ran, Tagged
  <2> QED
    BY <2>2, <2>3 DEF Ran
<1>5. RepOK(ran)'
  <2>1. ASSUME NEW p, ReportsHold(p, ran')
        PROVE  ReportsHold(Written(p, "settlement", value), ran')
    BY <1>1, <1>4, <2>1, NewReport
  <2> QED
    BY <1>1, <1>2, <2>1, ReportStep DEF EvidenceInv
<1> QED
  BY <1>1, <1>5, IdleHolds, EvidenceFrame

-----------------------------------------------------------------------------
(***************************************************************************)
(* Publication, reuse and the other configurations.                        *)
(***************************************************************************)

\* What Publishable compares is enough for the whole suite.
LEMMA PublishableProven ==
  ASSUME Inv, NEW c \in Checkouts, Publishable(c)
  PROVE  Proven(NativeCertificate(c), ran)
<1> USE DEF Inv
<1> PICK p : p = rep[c]
  OBVIOUS
<1> PICK r : r = p.release
  OBVIOUS
<1> PICK src : src = tree[c]
  OBVIOUS
<1> PICK env : env = lock[c]
  OBVIOUS
<1>1. ReportsHold(p, ran) /\ PointersHold(ptr[c], ran)
  BY DEF EvidenceInv, RepOK, PtrOK
<1>2. /\ {"release", "settlement", "profiles"} \subseteq DOMAIN p
      /\ Tagged(r, src, env) /\ Tagged(p.settlement, src, env)
      /\ p.profiles.env = env /\ p.profiles.stable
      /\ Usable(c, r.gold, 1) /\ Usable(c, r.fixture, 1)
  BY DEF Publishable, Has, PriorProfiles
<1>3. ReleaseHolds(r, ran) /\ Ran({"actions", "runs", "reorder", "faults"}, p.settlement, ran)
      /\ Fact("profiles", None, env) \in ran
  BY <1>1, <1>2 DEF ReportsHold
<1>4. /\ Fact("fixture", src, env) \in ran /\ Fact("gold", src, env) \in ran
      /\ r.gold.env = env /\ r.fixture.env = env
  <2> PICK k : k = <<r.gold, 1>>
    OBVIOUS
  <2> PICK j : j = <<r.fixture, 1>>
    OBVIOUS
  <2>1. /\ k \in DOMAIN ptr[c] /\ ptr[c][k].passed /\ ptr[c][k].env = env /\ ptr[c][k].src = src
        /\ j \in DOMAIN ptr[c] /\ ptr[c][j].passed /\ ptr[c][j].env = env /\ ptr[c][j].src = src
    BY <1>2 DEF Usable
  <2>2. k[1] = r.gold /\ k[2] = 1 /\ j[1] = r.fixture /\ j[2] = 1
    OBVIOUS
  <2>3. r.gold.play = "gold" /\ r.fixture.play = "fixture"
    BY <1>3 DEF ReleaseHolds, Complete, Played
  <2> QED
    BY <1>1, <2>1, <2>2, <2>3 DEF PointersHold
<1>5. \A k \in {"actions", "runs", "reorder", "faults"} : Fact(k, src, env) \in ran
  BY <1>2, <1>3 DEF Ran, Tagged
<1>6. /\ Fact("branch", src, env) \in ran
      /\ \A k \in Unsourced : Fact(k, None, env) \in ran
  BY <1>2, <1>3, <1>4 DEF ReleaseHolds, Complete, Played, Tagged, Unsourced
<1>7. Suite(src, env) \subseteq ran
  BY <1>4, <1>5, <1>6 DEF Suite
<1>8. src \in Tree /\ env \in Env /\ commands \in Nat
  BY DEF DeployInv, DeployTypeOK
<1>9. /\ NativeCertificate(c) \in Certificate /\ NativeCertificate(c).native = src.native
      /\ NativeCertificate(c).env = env /\ ~NativeCertificate(c).all
  BY <1>8 DEF NativeCertificate, Certificate, Fingerprint, Tree, SourceFiles
<1> QED
  BY <1>7, <1>8, <1>9 DEF Proven

\* A command that carries a proven certificate to its record.
LEMMA CarriesProven ==
  ASSUME eva' \in Publication \cup Activation, Proven(eva'.cert, ran')
  PROVE  (eva \in Command)' /\ CommandHolds(ran)'
BY DEF Command, CommandHolds, SessionHolds, CertifyHolds, SessionSteps, CertifySteps,
       Publication, Activation

LEMMA PublishKeeps ==
  ASSUME Inv, NEW c \in Checkouts, Publish(c)
  PROVE  Inv'
<1> PICK cert : cert = NativeCertificate(c)
  OBVIOUS
<1>1. /\ eva' = [step |-> "record", c |-> c, cert |-> cert] /\ commands' = commands
      /\ UNCHANGED deploymentVars
      /\ UNCHANGED <<rep, ptr, active, episodes, records, measured, ran>>
  BY DEF Publish, Reads, At, Publishing
<1>2. Proven(cert, ran) /\ cert \in Certificate
  BY PublishableProven DEF Publish, Proven
<1>3. eva' \in Publication /\ eva'.cert = cert /\ eva'.step = "record"
  BY <1>1, <1>2 DEF Publication
<1>4. (eva \in Command)' /\ CommandHolds(ran)'
  BY <1>1, <1>2, <1>3, CarriesProven
<1> QED
  BY <1>1, <1>3, <1>4, EvidenceFrame

\* The certificate on its way, at each of the three writes.
LEMMA PublicationBase ==
  ASSUME Inv, eva.step \in {"record", "evidence", "select"}
  PROVE  eva \in Publication /\ eva.c \in Checkouts /\ Proven(eva.cert, ran)
BY CommandShapes DEF Inv, EvidenceInv, CommandHolds, Publication

LEMMA WriteRecordKeeps ==
  ASSUME Inv, WriteRecord
  PROVE  Inv'
<1> USE DEF Inv
<1>1. /\ eva.step = "record" /\ UNCHANGED <<deploymentVars, commands>>
      /\ UNCHANGED <<rep, ptr, active, episodes, measured, ran>>
      /\ records' = [records EXCEPT ![eva.c] = @ \cup {eva.cert}]
      /\ eva' = [eva EXCEPT !.step = "evidence"]
  BY DEF WriteRecord, At, Goto
<1>2. eva \in Publication /\ eva.c \in Checkouts /\ Proven(eva.cert, ran)
  BY <1>1, PublicationBase
<1>3. eva' \in Publication /\ eva'.cert = eva.cert /\ eva'.c = eva.c
  BY <1>1, <1>2 DEF Publication
<1>4. (eva \in Command)' /\ CommandHolds(ran)'
  BY <1>1, <1>2, <1>3, CarriesProven
<1>5. SelectionInv'
  <2>1. DOMAIN records' = Checkouts /\ \A c \in Checkouts : records[c] \subseteq records'[c]
    BY <1>1 DEF SelectionInv
  <2>2. eva'.cert \in records'[eva'.c]
    BY <1>1, <1>2, <1>3 DEF SelectionInv
  <2>3. UNCHANGED saved /\ (Kept' <=> Kept) /\ Base \in Checkouts
    BY <1>1 DEF deploymentVars, deployVars, Kept, Checkouts
  <2>4. SelectionIsRecorded'
    BY <1>1, <2>1 DEF SelectionInv, SelectionIsRecorded
  <2>5. Kept' => saved'.active \in records'[Base] \cup {None}
    BY <2>1, <2>3 DEF SelectionInv
  <2> QED
    BY <2>1, <2>2, <2>4, <2>5 DEF SelectionInv
<1> QED
  BY <1>1, <1>4, <1>5, EvidenceFrame

LEMMA WriteEvidenceKeeps ==
  ASSUME Inv, WriteEvidence
  PROVE  Inv'
<1> USE DEF Inv
<1> PICK value : value = [env |-> eva.cert.env, accepted |-> eva.cert.accepted]
  OBVIOUS
<1>1. /\ eva.step = "evidence" /\ UNCHANGED <<deploymentVars, commands>>
      /\ UNCHANGED <<ptr, active, episodes, records, measured, ran>>
      /\ Report(eva.c, "evidence", value)
      /\ eva' = [eva EXCEPT !.step = "select"]
  BY DEF WriteEvidence, At, Goto
<1>2. eva \in Publication /\ eva.c \in Checkouts /\ Proven(eva.cert, ran)
  BY <1>1, PublicationBase
<1>3. eva' \in Publication /\ eva'.cert = eva.cert /\ eva'.c = eva.c
  BY <1>1, <1>2 DEF Publication
<1>4. (eva \in Command)' /\ CommandHolds(ran)'
  BY <1>1, <1>2, <1>3, CarriesProven
<1>5. SelectionInv'
  <2>1. UNCHANGED saved /\ (Kept' <=> Kept)
    BY <1>1 DEF deploymentVars, deployVars, Kept
  <2> QED
    BY <1>1, <1>3, <2>1 DEF SelectionInv, SelectionIsRecorded
<1>6. RepOK(ran)'
  <2>1. ASSUME NEW p, ReportsHold(p, ran')
        PROVE  ReportsHold(Written(p, "evidence", value), ran')
    BY <2>1, OtherReport
  <2> QED
    BY <1>1, <1>2, <2>1, ReportStep DEF EvidenceInv
<1> QED
  BY <1>1, <1>4, <1>5, <1>6, EvidenceFrame

LEMMA SelectCertificateKeeps ==
  ASSUME Inv, SelectCertificate
  PROVE  Inv'
<1> USE DEF Inv
<1>1. /\ eva.step = "select" /\ UNCHANGED <<deploymentVars, commands>>
      /\ UNCHANGED <<rep, ptr, episodes, records, measured, ran>>
      /\ active' = [active EXCEPT ![eva.c] = eva.cert]
      /\ eva' = Idle
  BY DEF SelectCertificate, At, End
<1>2. eva \in Publication /\ eva.c \in Checkouts /\ Proven(eva.cert, ran)
  BY <1>1, PublicationBase
<1>3. /\ (eva \in Command)' /\ CommandHolds(ran)' /\ eva'.step \notin {"evidence", "select"}
  BY <1>1, IdleHolds
<1>4. ActiveOK(ran)'
  BY <1>1, <1>2 DEF EvidenceInv, ActiveOK
<1>5. SelectionInv'
  <2>1. UNCHANGED saved /\ (Kept' <=> Kept)
    BY <1>1 DEF deploymentVars, deployVars, Kept
  <2>2. SelectionIsRecorded'
    BY <1>1, <1>2 DEF SelectionInv, SelectionIsRecorded, EvidenceInv, ActiveOK
  <2> QED
    BY <1>1, <1>3, <2>1, <2>2 DEF SelectionInv
<1> QED
  BY <1>1, <1>3, <1>4, <1>5, EvidenceFrame

\* A receipt says what its certificate said of environment and components.
LEMMA ReceiptProven ==
  ASSUME Inv, NEW root \in Checkouts, NEW c \in Checkouts, Reusable(root, c)
  PROVE  /\ active[root] \in Certificate /\ active[root] # None /\ Proven(active[root], ran)
         /\ Receipt(root, c) \in Certificate /\ Proven(Receipt(root, c), ran)
         /\ Receipt(root, c).env = active[root].env
         /\ Receipt(root, c).native = active[root].native
         /\ active[root].native = tree[c].native
<1> PICK old : old = active[root]
  OBVIOUS
<1> PICK new : new = Receipt(root, c)
  OBVIOUS
<1>1. old # None /\ NativeIdentity(old, tree[c])
  BY DEF Reusable
<1>2. Proven(old, ran) /\ old \in Certificate
  BY <1>1 DEF Inv, EvidenceInv, ActiveOK, Proven
<1>3. tree[c] \in Tree /\ commands \in Nat
  BY DEF Inv, DeployInv, DeployTypeOK
<1>4. /\ new \in Certificate /\ new.env = old.env /\ new.native = old.native /\ new.all = old.all
  BY <1>2, <1>3 DEF Receipt, Certificate
<1>5. Proven(new, ran)
  BY <1>2, <1>4 DEF Proven
<1> QED
  BY <1>1, <1>2, <1>4, <1>5 DEF NativeIdentity

LEMMA PrepareReuseKeeps ==
  ASSUME Inv, NEW root \in Checkouts, NEW c \in Checkouts, PrepareReuse(root, c)
  PROVE  Inv'
<1> PICK cert : cert = Receipt(root, c)
  OBVIOUS
<1>1. /\ eva' = [step |-> "activate", c |-> root, candidate |-> c, old |-> active[root], cert |-> cert]
      /\ commands' = commands /\ UNCHANGED deploymentVars
      /\ UNCHANGED <<rep, ptr, active, episodes, records, measured, ran>>
      /\ Reusable(root, c)
  BY DEF PrepareReuse, Reads, At
<1>2. commands \in Nat
  BY DEF Inv, DeployInv, DeployTypeOK
<1>3. active[root] \in Certificate /\ cert \in Certificate /\ Proven(cert, ran)
  BY <1>1, <1>2, ReceiptProven
<1>4. eva' \in Activation /\ eva'.cert = cert /\ eva'.step = "activate"
  BY <1>1, <1>3 DEF Activation
<1>5. (eva \in Command)' /\ CommandHolds(ran)'
  BY <1>1, <1>3, <1>4, CarriesProven
<1> QED
  BY <1>1, <1>4, <1>5, EvidenceFrame

LEMMA ActivateKeeps ==
  ASSUME Inv, Activate
  PROVE  Inv'
<1>1. /\ eva.step = "activate" /\ UNCHANGED <<deploymentVars, commands>>
      /\ UNCHANGED <<rep, ptr, active, episodes, records, measured, ran>>
      /\ eva' = [step |-> "record", c |-> eva.c, cert |-> eva.cert]
  BY DEF Activate, At, Publishing
<1>2. eva \in Activation /\ Proven(eva.cert, ran)
  BY <1>1, CommandShapes DEF Inv, EvidenceInv, CommandHolds
<1>3. eva' \in Publication /\ eva'.cert = eva.cert /\ eva'.step = "record"
  BY <1>1, <1>2 DEF Publication, Activation
<1>4. (eva \in Command)' /\ CommandHolds(ran)'
  BY <1>1, <1>2, <1>3, CarriesProven
<1> QED
  BY <1>1, <1>3, <1>4, EvidenceFrame

LEMMA CollectConfigurationsKeeps ==
  ASSUME Inv, NEW root \in Checkouts, NEW c \in Checkouts, CollectConfigurations(root, c)
  PROVE  Inv'
<1>1. /\ eva' = [step |-> "configs", c |-> c, root |-> root, source |-> tree[c],
                 env |-> lock[c], parent |-> active[root]]
      /\ commands' = commands /\ UNCHANGED deploymentVars
      /\ UNCHANGED <<rep, ptr, active, episodes, records, measured, ran>>
      /\ Reusable(root, c)
  BY DEF CollectConfigurations, Reads, At
<1>2. active[root] \in Certificate
  BY <1>1, ReceiptProven DEF Inv, DeployInv, DeployTypeOK
<1>3. tree[c] \in Tree /\ lock[c] \in Env
  BY DEF Inv, DeployInv, DeployTypeOK
<1>4. eva' \in Sampling /\ eva'.step = "configs"
  BY <1>1, <1>2, <1>3 DEF Sampling
<1>5. (eva \in Command)' /\ CommandHolds(ran)'
  BY <1>4 DEF Command, CommandHolds, SessionHolds, CertifyHolds, SessionSteps, CertifySteps
<1> QED
  BY <1>1, <1>4, <1>5, EvidenceFrame

LEMMA ReportConfigurationsKeeps ==
  ASSUME IInv, ReportConfigurations
  PROVE  Inv'
<1>1. /\ eva' = Idle /\ UNCHANGED <<deploymentVars, commands>>
      /\ UNCHANGED <<rep, ptr, active, episodes, records>>
      /\ tree[eva.c] = eva.source
      /\ measured' = measured \cup {[src |-> eva.source, env |-> eva.env, parent |-> eva.parent.id]}
      /\ ran' = ran \cup Facts("configs", eva.env)
      /\ eva.step = "configs"
  BY DEF ReportConfigurations, At, End, Unchanged
<1>2. Fact("configs", eva.source, eva.env) \in ran'
  <2>1. eva.source \in loaded
    BY <1>1 DEF IInv, LoadedInv
  <2> QED
    BY <1>1, <2>1, FactsOf DEF Unsourced
<1>3. MeasuredOK(ran)'
  BY <1>1, <1>2 DEF IInv, Inv, EvidenceInv, MeasuredOK
<1> QED
  BY <1>1, <1>3, IdleHolds, EvidenceFrame DEF IInv

LEMMA AcceptConfigurationsKeeps ==
  ASSUME Inv, NEW root \in Checkouts, NEW r \in measured, AcceptConfigurations(root, r)
  PROVE  Inv'
<1> PICK receipt : receipt = Receipt(root, root)
  OBVIOUS
<1> PICK cert : cert = [receipt EXCEPT !.all = TRUE]
  OBVIOUS
<1>1. /\ eva' = [step |-> "activate", c |-> root, candidate |-> root, old |-> active[root],
                 cert |-> cert]
      /\ commands' = commands /\ UNCHANGED deploymentVars
      /\ UNCHANGED <<rep, ptr, active, episodes, records, measured, ran>>
      /\ Reusable(root, root)
      /\ r = [src |-> tree[root], env |-> active[root].env, parent |-> active[root].id]
  BY DEF AcceptConfigurations, Reads, At
<1>2. commands \in Nat /\ tree[root] \in Tree
  BY DEF Inv, DeployInv, DeployTypeOK
<1>3. /\ active[root] \in Certificate /\ receipt \in Certificate /\ Proven(receipt, ran)
      /\ receipt.env = active[root].env /\ receipt.native = tree[root].native
  BY <1>1, <1>2, ReceiptProven
<1>4. Fact("configs", tree[root], receipt.env) \in ran
  BY <1>1, <1>3 DEF Inv, EvidenceInv, MeasuredOK
<1>5. /\ cert \in Certificate /\ cert.env = receipt.env /\ cert.native = receipt.native
  BY <1>3 DEF Certificate
<1>6. Proven(cert, ran)
  BY <1>2, <1>3, <1>4, <1>5 DEF Proven
<1>7. eva' \in Activation /\ eva'.cert = cert /\ eva'.step = "activate"
  BY <1>1, <1>3, <1>5 DEF Activation
<1>8. (eva \in Command)' /\ CommandHolds(ran)'
  BY <1>1, <1>6, <1>7, CarriesProven
<1> QED
  BY <1>1, <1>7, <1>8, EvidenceFrame

LEMMA AbandonCommandKeeps ==
  ASSUME Inv, AbandonCommand
  PROVE  Inv'
BY IdleHolds, EvidenceFrame DEF AbandonCommand, End

-----------------------------------------------------------------------------
(***************************************************************************)
(* The theorems.                                                           *)
(***************************************************************************)

LEMMA InitInv ==
  ASSUME Init
  PROVE  IInv
<1> DEFINE env == Instrument(Base)
           t == [src |-> BaseTree, env |-> env]
           g(play) == [n |-> 0, play |-> play, src |-> BaseTree, env |-> env]
           cert == [id |-> 0, env |-> env, accepted |-> BaseTree, native |-> BaseTree.native,
                    all |-> FALSE, parent |-> 0]
           base == [profiles |-> [env |-> env, stable |-> TRUE], fixtures |-> g("fixture"),
                    runs |-> g("gold"), invalid |-> t, reorder |-> t, faults |-> t, settlement |-> t,
                    release |-> [src |-> BaseTree, env |-> env, fixture |-> g("fixture"),
                                 gold |-> g("gold")],
                    evidence |-> [env |-> env, accepted |-> BaseTree]]
           passed == [mode |-> "seed_prefix", passed |-> TRUE, src |-> BaseTree, env |-> env]
           nothing == [k \in {} |-> None]
           pointers == [k \in {g("fixture"), g("gold")} \X {0, 1} |-> passed]
<1>1. /\ DeployInit /\ eva = Idle /\ measured = {} /\ loaded = {} /\ ran = Suite(BaseTree, env)
      /\ rep = [c \in Checkouts |-> IF c = Base THEN base ELSE nothing]
      /\ ptr = [c \in Checkouts |-> IF c = Base THEN pointers ELSE nothing]
      /\ active = [c \in Checkouts |-> IF c = Base THEN cert ELSE None]
      /\ episodes = [c \in Checkouts |-> IF c = Base THEN {g("fixture")} ELSE {}]
      /\ records = [c \in Checkouts |-> IF c = Base THEN {cert} ELSE {}]
  BY DEF Init
<1>2. BaseTree \in Tree /\ env \in Env /\ Base \in Checkouts
  BY InstrumentType DEF BaseTree, Tree, Versions, Checkouts
<1>3. DeployInv
  BY <1>1, DeployInitHolds
<1>4. /\ \A k \in Unsourced : Fact(k, None, env) \in ran
      /\ \A k \in {"actions", "runs", "reorder", "faults", "fixture", "gold", "branch"} :
           Fact(k, BaseTree, env) \in ran
  BY <1>1 DEF Suite
<1>5. Complete(g("fixture"), ran) /\ Played(g("gold"), "gold", ran)
  BY <1>2, <1>4 DEF Complete, Played, Game, Plays, Unsourced
<1>6. ReportsHold(base, ran) /\ ReportsHold(nothing, ran)
  <2>1. Ran({"reorder"}, t, ran) /\ Ran({"faults"}, t, ran)
        /\ Ran({"actions", "runs", "reorder", "faults"}, t, ran)
    BY <1>4 DEF Ran
  <2>2. ReleaseHolds(base.release, ran)
    BY <1>4, <1>5 DEF ReleaseHolds
  <2> QED
    BY <1>4, <1>5, <2>1, <2>2 DEF ReportsHold, Unsourced
<1>7. PointersHold(pointers, ran) /\ PointersHold(nothing, ran)
  BY <1>4 DEF PointersHold
<1>8. Proven(cert, ran)
  <2>1. cert \in Certificate
    BY <1>2 DEF Certificate, Fingerprint, Tree, SourceFiles
  <2> QED
    BY <1>1, <1>2, <2>1 DEF Proven
<1>9. eva \in Command /\ CommandHolds(ran) /\ eva.step = "idle"
  BY <1>1 DEF Idle, Command, CommandHolds, SessionHolds, CertifyHolds, SessionSteps, CertifySteps
<1>10. RepOK(ran) /\ PtrOK(ran)
  BY <1>1, <1>6, <1>7 DEF RepOK, PtrOK
<1>11. ActiveOK(ran) /\ EpisodesOK(ran) /\ MeasuredOK(ran)
  BY <1>1, <1>5, <1>8 DEF ActiveOK, EpisodesOK, MeasuredOK, Complete
<1>12. ~Kept
  BY <1>1 DEF DeployInit, Kept, NoDeploy, InstallSteps
<1>13. SelectionInv
  BY <1>1, <1>9, <1>12 DEF SelectionInv, SelectionIsRecorded
<1>14. LoadedInv
  BY <1>1, <1>9 DEF LoadedInv, CertifySteps
<1> QED
  BY <1>3, <1>9, <1>10, <1>11, <1>12, <1>13, <1>14 DEF IInv, Inv, EvidenceInv, SavedOK

LEMMA NextInv ==
  ASSUME IInv, [Next]_vars
  PROVE  Inv'
<1> USE DEF IInv
<1>1. CASE \E c \in Checkouts : StartProcess(c) \/ \E mode \in Modes : OpenSession(c, mode)
  BY <1>1, StartProcessKeeps, OpenSessionKeeps
<1>2. CASE \/ AuditProfiles \/ CollectInvalid \/ CollectActions \/ CollectWin \/ CollectRuns
           \/ CollectReorder \/ CollectFaults \/ WriteFixtures
  BY <1>2, AuditProfilesKeeps, CollectActionsKeeps, CollectWinKeeps, CollectStagesKeep,
     WriteFixturesKeeps
<1>3. CASE StartReplay \/ ReplayPasses \/ DeriveBoundary \/ ReplayFails
  BY <1>3, StartReplayKeeps, ReplayPassesKeeps, DeriveBoundaryKeeps, ReplayFailsKeeps
<1>4. CASE ReadCollected \/ \E c \in Checkouts : BeginCertify(c) \/ BeginBranch(c)
  BY <1>4, BeginCertifyKeeps, ReadCollectedKeeps
<1>5. CASE BranchRun \/ WriteRelease \/ Settle
  BY <1>5, BranchRunKeeps, WriteReleaseKeeps, SettleKeeps
<1>6. CASE \/ \E c \in Checkouts : Publish(c)
           \/ WriteRecord \/ WriteEvidence \/ SelectCertificate
  BY <1>6, PublishKeeps, WriteRecordKeeps, WriteEvidenceKeeps, SelectCertificateKeeps
<1>7. CASE Activate \/ \E root, c \in Checkouts : PrepareReuse(root, c)
  BY <1>7, ActivateKeeps, PrepareReuseKeeps
<1>8. CASE \/ \E root, c \in Checkouts : CollectConfigurations(root, c)
           \/ ReportConfigurations
           \/ \E c \in Checkouts : \E r \in measured : AcceptConfigurations(c, r)
  BY <1>8, CollectConfigurationsKeeps, ReportConfigurationsKeeps, AcceptConfigurationsKeeps
<1>9. CASE AbandonCommand
  BY <1>9, AbandonCommandKeeps
<1>10. CASE DeployNext /\ UNCHANGED <<episodes, records, measured, ran>>
  BY <1>10, DeployKeepsEvidence
<1>11. CASE UNCHANGED vars
  <2>1. /\ UNCHANGED deploymentVars /\ UNCHANGED commands
        /\ UNCHANGED <<rep, ptr, active, eva, episodes, records, measured, ran>>
    BY <1>11 DEF vars, evidenceVars
  <2>2. (eva \in Command)' /\ CommandHolds(ran)'
    BY <2>1 DEF Inv, EvidenceInv, CommandHolds, SessionHolds, Resumes, CertifyHolds, Mode, Subject
  <2>3. SelectionInv'
    BY <2>1 DEF Inv, SelectionInv, SelectionIsRecorded, deploymentVars, deployVars, Kept
  <2> QED
    BY <2>1, <2>2, <2>3, EvidenceFrame
<1> QED
  BY <1>1, <1>2, <1>3, <1>4, <1>5, <1>6, <1>7, <1>8, <1>9, <1>10, <1>11 DEF Next, EvidenceNext

\* No evidence command touches what deployments replace.
LEMMA EvidenceFiles ==
  ASSUME EvidenceNext
  PROVE  UNCHANGED deploymentVars
<1>1. CASE \E c \in Checkouts : StartProcess(c) \/ BeginCertify(c) \/ BeginBranch(c) \/ Publish(c)
  BY <1>1 DEF StartProcess, BeginCertify, BeginBranch, Publish, Reads, At
<1>2. CASE \/ \E c \in Checkouts, mode \in Modes : OpenSession(c, mode)
           \/ \E c \in Checkouts : \E r \in measured : AcceptConfigurations(c, r)
           \/ \E root, c \in Checkouts : PrepareReuse(root, c) \/ CollectConfigurations(root, c)
  BY <1>2 DEF OpenSession, AcceptConfigurations, PrepareReuse, CollectConfigurations, Reads, At
<1>3. CASE AuditProfiles \/ CollectInvalid \/ CollectActions \/ CollectWin \/ CollectRuns \/ CollectReorder
           \/ CollectFaults \/ WriteFixtures
  BY <1>3 DEF AuditProfiles, CollectInvalid, CollectActions, CollectWin, CollectRuns,
     CollectReorder, CollectFaults, WriteFixtures, Collect, At
<1>4. CASE StartReplay \/ ReplayPasses \/ DeriveBoundary \/ ReplayFails \/ ReadCollected
           \/ BranchRun \/ WriteRelease \/ Settle
  BY <1>4 DEF StartReplay, ReplayPasses, DeriveBoundary, ReplayFails, ReadCollected, BranchRun,
     WriteRelease, Settle, At
<1>5. CASE WriteRecord \/ WriteEvidence \/ SelectCertificate \/ Activate \/ ReportConfigurations
           \/ AbandonCommand
  BY <1>5 DEF WriteRecord, WriteEvidence, SelectCertificate, Activate, ReportConfigurations,
     AbandonCommand, At
<1> QED
  BY <1>1, <1>2, <1>3, <1>4, <1>5 DEF EvidenceNext

\* What a certification read when it began does not change later.
LEMMA SourceFollows ==
  ASSUME Inv, EvidenceNext, eva'.step \in CertifySteps
  PROVE  \/ eva.step \in CertifySteps /\ eva'.source = eva.source
         \/ eva'.source = tree[eva'.c]
<1> USE DEF CertifySteps
<1>0. eva \in Command
  BY DEF Inv, EvidenceInv
<1>1. CASE \E c \in Checkouts : BeginCertify(c) \/ BeginBranch(c)
  <2>1. PICK c \in Checkouts : BeginCertify(c) \/ BeginBranch(c)
    BY <1>1
  <2>2. eva'.c = c /\ eva'.source = tree[c]
    <3>1. CASE BeginCertify(c)
      BY <3>1 DEF BeginCertify, Reads, Certifying
    <3>2. CASE BeginBranch(c)
      <4>1. eva' = [Certifying(c) EXCEPT !.step = "branch", !.todo = <<>>]
        BY <3>2 DEF BeginBranch, Reads
      <4> QED
        BY <4>1 DEF Certifying
    <3> QED
      BY <2>1, <3>1, <3>2
  <2> QED
    BY <2>2
<1>2. CASE ReadCollected
  BY <1>2 DEF ReadCollected, Certifying
<1>3. CASE StartReplay \/ ReplayPasses \/ DeriveBoundary \/ ReplayFails \/ BranchRun
  <2>1. eva \in Certification
    BY <1>0, <1>3, CommandShapes DEF StartReplay, ReplayPasses, DeriveBoundary, ReplayFails, BranchRun, At
  <2>2. \/ eva' = [eva EXCEPT !.step = "replaying", !.seen = tree[eva.c]]
        \/ \E step \in {"derive", "release"} : eva' = [eva EXCEPT !.step = step]
        \/ \E todo : eva' = [eva EXCEPT !.step = IF todo = <<>> THEN "branch" ELSE "certify", !.todo = todo]
        \/ eva' = Idle
    BY <1>3 DEF StartReplay, ReplayPasses, DeriveBoundary, ReplayFails, BranchRun, Goto, Onward, End
  <2> QED
    <3>1. eva.step \in CertifySteps
      BY <2>1 DEF Certification
    <3>2. eva' = Idle => eva'.step \notin CertifySteps
      BY DEF Idle, CertifySteps
    <3>3. eva' # Idle => eva'.source = eva.source
      BY <2>1, <2>2 DEF Certification
    <3> QED
      BY <3>1, <3>2, <3>3
<1>4. CASE \/ AuditProfiles \/ CollectInvalid \/ CollectActions \/ CollectWin \/ CollectRuns
           \/ CollectReorder \/ CollectFaults
  <2>1. eva \in Session
    BY <1>0, <1>4, CommandShapes DEF AuditProfiles, CollectInvalid, CollectActions, CollectWin,
       CollectRuns, CollectReorder, CollectFaults, Collect, At, SessionSteps
  <2>2. \/ \E step \in SessionSteps : eva' = [eva EXCEPT !.step = step]
        \/ \E e : eva' = [eva EXCEPT !.step = "win", !.fixture = e]
        \/ eva' = Idle
    BY <1>4 DEF AuditProfiles, CollectInvalid, CollectActions, CollectWin, CollectRuns,
       CollectReorder, CollectFaults, Collect, Goto, End, SessionSteps
  <2>3. eva'.step \in SessionSteps \cup {"idle"}
    <3>1. CASE \E step \in SessionSteps : eva' = [eva EXCEPT !.step = step]
      BY <2>1, <3>1 DEF Session
    <3>2. CASE \E e : eva' = [eva EXCEPT !.step = "win", !.fixture = e]
      BY <2>1, <3>2 DEF Session, SessionSteps
    <3>3. CASE eva' = Idle
      BY <3>3 DEF Idle
    <3> QED
      BY <2>2, <3>1, <3>2, <3>3
  <2> QED
    BY <2>3 DEF SessionSteps
<1>5. CASE \E c \in Checkouts : StartProcess(c) \/ \E mode \in Modes : OpenSession(c, mode)
  BY <1>5 DEF StartProcess, OpenSession, Reads, FirstStage, Modes
<1>6. CASE \/ \E c \in Checkouts : Publish(c) \/ \E r \in measured : AcceptConfigurations(c, r)
           \/ \E root, c \in Checkouts : PrepareReuse(root, c) \/ CollectConfigurations(root, c)
           \/ WriteRelease \/ Activate
  BY <1>6 DEF Publish, AcceptConfigurations, PrepareReuse, CollectConfigurations, WriteRelease,
     Activate, Reads, Publishing
<1>7. CASE WriteFixtures \/ Settle \/ SelectCertificate \/ ReportConfigurations \/ AbandonCommand
  BY <1>7 DEF WriteFixtures, Settle, SelectCertificate, ReportConfigurations, AbandonCommand, End, Idle
<1>8. CASE WriteRecord \/ WriteEvidence
  <2>1. eva \in Publication
    BY <1>0, <1>8, CommandShapes DEF WriteRecord, WriteEvidence, At
  <2> QED
    BY <1>8, <2>1 DEF WriteRecord, WriteEvidence, Goto, Publication
<1> QED
  BY <1>1, <1>2, <1>3, <1>4, <1>5, <1>6, <1>7, <1>8 DEF EvidenceNext

LEMMA LoadedStep ==
  ASSUME IInv, [Next]_vars, Inv'
  PROVE  LoadedInv'
<1>1. CASE UNCHANGED vars
  BY <1>1 DEF IInv, LoadedInv, vars, evidenceVars, deploymentVars
<1>2. CASE Next
  <2>1. /\ Loads
        /\ EvidenceNext \/ (DeployNext /\ UNCHANGED eva)
    BY <1>2, DeployEffects DEF Next, IInv, Inv
  <2>2. eva'.step # "idle" => tree'[eva'.c] \in Tree
    <3>1. eva'.step # "idle" => eva'.c \in Checkouts
      BY DEF Inv, EvidenceInv, Command, Idle, Starting, Session, Certification, Settlement,
         Publication, Activation, Sampling
    <3> QED
      BY <3>1 DEF Inv, DeployInv, DeployTypeOK
  <2>3. CASE eva'.step = "idle"
    BY <2>1, <2>3 DEF Loads, LoadedInv, CertifySteps
  <2>4. CASE eva'.step # "idle"
    <3>1. loaded' = loaded \cup {tree'[eva'.c]} /\ loaded \subseteq Tree
      BY <2>1, <2>4 DEF Loads, IInv, LoadedInv
    <3>2. eva'.step \in CertifySteps => eva'.source \in loaded'
      <4>1. CASE EvidenceNext
        <5>1. UNCHANGED tree
          BY <4>1, EvidenceFiles DEF deploymentVars
        <5> QED
          BY <3>1, <4>1, <5>1, SourceFollows DEF IInv, LoadedInv
      <4>2. CASE UNCHANGED eva
        BY <3>1, <4>2 DEF IInv, LoadedInv
      <4> QED
        BY <2>1, <4>1, <4>2
    <3> QED
      BY <2>2, <2>4, <3>1, <3>2 DEF LoadedInv
  <2> QED
    BY <2>3, <2>4
<1> QED
  BY <1>1, <1>2

\* The invariant: every document, certificate and snapshot on disk vouches only
\* for stages that ran in processes which had the source it names on disk, and
\* every half-done update has its receipt.
THEOREM InvHolds == Spec => []IInv
<1>1. Init => IInv
  BY InitInv
<1>2. IInv /\ [Next]_vars => IInv'
  BY NextInv, LoadedStep DEF IInv
<1> QED
  BY <1>1, <1>2, PTL DEF Spec

\* An update that stopped half way (a failed check, a crash, an interrupt
\* between two files or before either lock) can be taken back, unless somebody
\* edited the runtime by hand.
THEOREM UpdatesReverse == Spec => []UpdatesAreReversible
<1>1. IInv => UpdatesAreReversible
  BY DEF IInv, Inv, DeployInv
<1> QED
  BY <1>1, InvHolds, PTL

\* The selected certificate has its immutable record, whatever write of a
\* publication or of an install's rollback was the last one.
THEOREM SelectionsRecorded == Spec => []SelectionIsRecorded
<1>1. IInv => SelectionIsRecorded
  BY DEF IInv, Inv, SelectionInv
<1> QED
  BY <1>1, InvHolds, PTL

\* Whatever a launch is admitted for went through the whole suite in the
\* runtime that is installed.
LEMMA ProvenAdmits ==
  ASSUME Inv
  PROVE  AdmittedRuntimeWasProven
<1> SUFFICES ASSUME NEW c \in Checkouts, Admits(c)
             PROVE  /\ \E s \in Tree : /\ s.native = tree[c].native
                                       /\ Suite(s, lock[c]) \subseteq ran
                    /\ active[c].all =>
                         \E s \in Tree : s.native = tree[c].native /\ Fact("configs", s, lock[c]) \in ran
  BY DEF AdmittedRuntimeWasProven
<1>1. active[c].env = lock[c] /\ active[c].native = tree[c].native /\ Proven(active[c], ran)
  BY DEF Inv, EvidenceInv, ActiveOK, Admits, AcceptedSource
<1>2. PICK s \in Tree : s.native = tree[c].native /\ Suite(s, lock[c]) \subseteq ran
  BY <1>1 DEF Proven
<1>4. active[c].all => \E u \in Tree : u.native = tree[c].native /\ Fact("configs", u, lock[c]) \in ran
  BY <1>1 DEF Proven
<1> QED
  BY <1>2, <1>4

\* A launch is admitted only for native components that went through the whole
\* suite in the runtime that is installed, each stage in a process that had one
\* and the same source tree on disk: whatever stale reports, edits, updates,
\* installs and rollbacks came in between.
THEOREM AdmittedProven == Spec => []AdmittedRuntimeWasProven
<1>1. IInv => AdmittedRuntimeWasProven
  BY ProvenAdmits DEF IInv
<1> QED
  BY <1>1, InvHolds, PTL
=============================================================================
