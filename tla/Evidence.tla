------------------------------ MODULE Evidence ------------------------------
(***************************************************************************)
(* From games that ran to a runtime that may play: collection, replay      *)
(* certificates, the release report, publication, and the reuse of a       *)
(* published certificate for a harness with the same native components.    *)
(*                                                                         *)
(* Every stage leaves a report or an episode tagged with the source        *)
(* fingerprint and the environment lock it ran under; commands read what   *)
(* earlier commands left, of whichever source, while the checkouts are     *)
(* edited, installed and rolled back (Deployment).  A command may raise or *)
(* die after any step.                                                     *)
(***************************************************************************)
EXTENDS Deployment, Sequences

VARIABLES
    episodes,   \* complete action fixtures in data/ of each checkout
    records,    \* private/capability-record-*.json of each checkout
    measured,   \* passed configuration reports
    loaded,     \* history: sources on disk since the command's process began
    ran         \* history: the stages that ran, see Facts

evidenceVars == <<rep, ptr, active, eva, episodes, records, measured, loaded, ran>>
deploymentVars == <<tree, commits, rt, lock, deployVars, edits>>
vars == <<deploymentVars, evidenceVars, commands>>

Idle == [step |-> "idle"]
Fact(kind, src, env) == [kind |-> kind, src |-> src, env |-> env]

\* A stage runs the modules its process imported, most at its start and some
\* later, while every fingerprint hashes the disk.  It counts for each source
\* that was on disk while the process ran; unless the checkout was edited
\* meanwhile that is the one that ran.  Nothing asks for the source of the
\* unsourced stages.
Unsourced == {"profiles", "invalid", "win"}
Facts(kind, env) ==
    {Fact(kind, s, env) : s \in IF kind \in Unsourced THEN {None} ELSE loaded}
Loads == loaded' = IF eva'.step = "idle" THEN {} ELSE loaded \cup {tree'[eva'.c]}

\* What the first checkpoint of an episode says; an episode that will be
\* replayed is also known by the command that played it and what it played.
Tag(c) == [src |-> tree[c], env |-> eva.env]
Episode(c, play) == [n |-> commands, play |-> play, src |-> tree[c], env |-> eva.env]
Tagged(r, src, env) == r.src = src /\ r.env = env

Has(c, names) == names \subseteq DOMAIN rep[c]
Report(c, name, value) == rep' = [rep EXCEPT ![c] = Written(@, name, value)]

\* A command's process starts in a checkout, then makes its first reads.
StartProcess(c) ==
    /\ eva.step = "idle" /\ commands < MaxCommands
    /\ eva' = [step |-> "start", c |-> c]
    /\ commands' = commands + 1
    /\ UNCHANGED <<deploymentVars, rep, ptr, active, episodes, records, measured, ran>>

At(step) == eva.step = step /\ UNCHANGED <<deploymentVars, commands>>
Goto(step) == eva' = [eva EXCEPT !.step = step]
End == eva' = Idle

Reads(c, next) == At("start") /\ eva.c = c /\ eva' = next

\* The native worker lock is free and the pinned files are in place.
MayLaunch(c) == dep.step = "idle" /\ VerifyFiles(c)

---------------------------------------------------------------------------
(* bh evidence collect *)

PriorProfiles(c) ==
    /\ Has(c, {"profiles"})
    /\ rep[c].profiles.env = lock[c] /\ rep[c].profiles.stable

Modes == {"full", "functional", "gameplay", "resume_actions", "resume_certification"}

\* Where a plan suffix begins.
FirstStage(mode) ==
    CASE mode = "full" -> "profiles"
      [] mode \in {"functional", "gameplay"} -> "invalid"
      [] mode = "resume_actions" -> "win"
      [] mode = "resume_certification" -> "reorder"

\* Behind their first stage these differ no more.
Remainder(mode) == IF mode \in {"full", "resume_actions"} THEN "functional" ELSE mode

\* A resumed collection takes the earlier rejection report and a complete
\* action fixture, both of the same environment and of any source.
ResumedFixtures(c, mode) ==
    IF mode # "resume_actions" THEN {None}
    ELSE {e \in episodes[c] : /\ e.env = lock[c]
                              /\ Has(c, {"invalid"}) /\ rep[c].invalid.env = lock[c]}

OpenSession(c, mode) ==
    /\ MayLaunch(c)
    /\ mode \in {"full", "gameplay"} \/ PriorProfiles(c)
    /\ \E e \in ResumedFixtures(c, mode) :
        Reads(c, [step |-> FirstStage(mode), c |-> c, mode |-> Remainder(mode),
                  env |-> lock[c], fixture |-> e])
    /\ UNCHANGED <<rep, ptr, active, episodes, records, measured, ran>>

\* Two fresh processes; an unstable profile is reported and ends the command.
AuditProfiles ==
    /\ At("profiles")
    /\ \E stable \in BOOLEAN :
        /\ Report(eva.c, "profiles", [env |-> eva.env, stable |-> stable])
        /\ IF stable THEN Goto("invalid") ELSE End
        /\ ran' = IF stable THEN ran \cup Facts("profiles", eva.env) ELSE ran
    /\ UNCHANGED <<ptr, active, episodes, records, measured>>

CollectActions ==
    /\ At("actions")
    /\ episodes' = [episodes EXCEPT ![eva.c] = @ \cup {Episode(eva.c, "fixture")}]
    /\ eva' = [eva EXCEPT !.step = "win", !.fixture = Episode(eva.c, "fixture")]
    /\ ran' = ran \cup Facts("actions", eva.env)
    /\ UNCHANGED <<rep, ptr, active, records, measured>>

\* The winning fixture raises unless the game is won.  The fixture report
\* keeps the outcome, and neither the source nor the environment it was won under.
CollectWin ==
    /\ At("win")
    /\ Goto("runs")
    /\ ran' = ran \cup Facts("win", eva.env)
    /\ UNCHANGED <<rep, ptr, active, episodes, records, measured>>

\* The stages that leave a report of their own, in order.
Collect(step, next, report) ==
    /\ At(step)
    /\ Report(eva.c, step, report)
    /\ Goto(next)
    /\ ran' = ran \cup Facts(step, eva.env)
    /\ UNCHANGED <<ptr, active, episodes, records, measured>>

CollectInvalid == Collect("invalid", "actions", Tag(eva.c))
CollectRuns == Collect("runs", "reorder", Episode(eva.c, "gold"))
CollectReorder ==
    Collect("reorder", IF eva.mode = "resume_certification" THEN "read_collected" ELSE "faults",
            Tag(eva.c))
CollectFaults == Collect("faults", "fixtures", Tag(eva.c))

\* The fixtures are reported last, unless only gameplay was asked for; whether
\* the source is still the one the command began with is checked after that.
WriteFixtures ==
    /\ At("fixtures")
    /\ IF eva.mode = "gameplay" THEN UNCHANGED rep
                                ELSE Report(eva.c, "fixtures", eva.fixture)
    /\ End
    /\ UNCHANGED <<ptr, active, episodes, records, measured, ran>>

---------------------------------------------------------------------------
(* Replay certificates *)

\* require_checkpoint_certificate
Usable(c, e, d) ==
    LET k == <<e, d>> IN
    /\ k \in DOMAIN ptr[c]
    /\ ptr[c][k].passed /\ ptr[c][k].env = lock[c] /\ ptr[c][k].src = tree[c]

Select(e, d, cert) == ptr' = [ptr EXCEPT ![eva.c] = Written(@, <<e, d>>, cert)]

\* The replays of a certification, in order.
Replays == <<"fixture", "gold", "direct">>
Subject == IF Head(eva.todo) = "fixture" THEN eva.fixture ELSE eva.gold
Mode == IF Head(eva.todo) = "direct" THEN "checkpoint" ELSE "seed_prefix"
Outcome(passed) ==
    [mode |-> Mode, passed |-> passed, src |-> eva.seen, env |-> Subject.env]
Onward(todo) ==
    eva' = [eva EXCEPT !.step = IF todo = <<>> THEN "branch" ELSE "certify", !.todo = todo]

StartReplay ==
    /\ At("certify") /\ dep.step = "idle"
    /\ eva' = [eva EXCEPT !.step = "replaying", !.seen = tree[eva.c]]
    /\ UNCHANGED <<rep, ptr, active, episodes, records, measured, ran>>

\* Every fresh process agreed, under the episode's own environment, and the
\* source did not change meanwhile.
ReplayPasses ==
    /\ At("replaying")
    /\ VerifyFiles(eva.c) /\ lock[eva.c] = Subject.env
    /\ tree[eva.c] = eva.seen
    /\ Select(Subject, 0, Outcome(TRUE))
    /\ ran' = ran \cup Facts(Head(eva.todo), Subject.env)
    /\ IF Mode = "seed_prefix" THEN Goto("derive") ELSE Onward(Tail(eva.todo))
    /\ UNCHANGED <<rep, active, episodes, records, measured>>

\* Every later boundary the replay went through gets a certificate derived
\* from the one just made, whatever the file of boundary 0 says by now.
DeriveBoundary ==
    /\ At("derive")
    /\ Select(Subject, 1, Outcome(TRUE))
    /\ Onward(Tail(eva.todo))
    /\ UNCHANGED <<rep, active, episodes, records, measured, ran>>

\* A failed recheck disables the certificate of the same mode; a failed prefix
\* ends the certification, a failed direct restoration does not.
ReplayFails ==
    /\ At("replaying")
    /\ LET k == <<Subject, 0>>
       IN  IF k \in DOMAIN ptr[eva.c] /\ ptr[eva.c][k].mode = Mode
           THEN Select(Subject, 0, Outcome(FALSE))
           ELSE UNCHANGED ptr
    /\ IF Mode = "seed_prefix" THEN End ELSE Onward(Tail(eva.todo))
    /\ UNCHANGED <<rep, active, episodes, records, measured, ran>>

---------------------------------------------------------------------------
(* bh evidence certify *)

Collected(c) == Has(c, {"fixtures", "runs"})

Certifying(c) ==
    [step |-> "certify", c |-> c, source |-> tree[c], fixture |-> rep[c].fixtures,
     gold |-> rep[c].runs, todo |-> Replays, seen |-> None]

BeginCertify(c) ==
    /\ Collected(c)
    /\ Reads(c, Certifying(c))
    /\ UNCHANGED <<rep, ptr, active, episodes, records, measured, ran>>

\* A resumed certification reads them after its reorder stage.
ReadCollected ==
    /\ At("read_collected") /\ Collected(eva.c)
    /\ eva' = Certifying(eva.c)
    /\ UNCHANGED <<rep, ptr, active, episodes, records, measured, ran>>

\* From the branch stage on: the direct certificate of an earlier one is used.
BeginBranch(c) ==
    /\ Collected(c) /\ Usable(c, rep[c].runs, 0)
    /\ Reads(c, [Certifying(c) EXCEPT !.step = "branch", !.todo = <<>>])
    /\ UNCHANGED <<rep, ptr, active, episodes, records, measured, ran>>

BranchRun ==
    /\ At("branch") /\ MayLaunch(eva.c) /\ Usable(eva.c, eva.gold, 0)
    /\ Goto("release")
    /\ ran' = ran \cup Facts("branch", lock[eva.c])
    /\ UNCHANGED <<rep, ptr, active, episodes, records, measured>>

\* Only the two ends of the command are compared.
WriteRelease ==
    LET r == [src |-> eva.source, env |-> lock[eva.c],
              fixture |-> eva.fixture, gold |-> eva.gold]
    IN  /\ At("release") /\ tree[eva.c] = eva.source
        /\ Report(eva.c, "release", r)
        /\ eva' = [step |-> "settle", c |-> eva.c, release |-> r]
        /\ UNCHANGED <<ptr, active, episodes, records, measured, ran>>

\* Every episode of the settlement has the release's source and environment.
Settled(c, r) ==
    /\ Has(c, {"faults", "reorder"})
    /\ \A e \in {r.fixture, r.gold, rep[c].faults, rep[c].reorder} : Tagged(e, r.src, r.env)

Settle ==
    LET r == eva.release IN
    /\ At("settle") /\ Settled(eva.c, r)
    /\ Report(eva.c, "settlement", [src |-> r.src, env |-> r.env])
    /\ End
    /\ UNCHANGED <<ptr, active, episodes, records, measured, ran>>

---------------------------------------------------------------------------
(* bh evidence publish *)

Publishable(c) ==
    LET r == rep[c].release IN
    /\ Has(c, {"release", "settlement", "reorder", "profiles", "invalid", "faults"})
    /\ VerifyFiles(c)
    /\ \A e \in {r, rep[c].settlement, rep[c].reorder} : Tagged(e, tree[c], lock[c])
    /\ PriorProfiles(c)
    /\ Usable(c, r.gold, 0) /\ Usable(c, r.gold, 1)
    /\ Usable(c, r.fixture, 1) /\ ptr[c][<<r.fixture, 1>>].mode = "seed_prefix"

NativeCertificate(c) ==
    [id |-> commands, env |-> lock[c], accepted |-> tree[c],
     native |-> tree[c].native, all |-> FALSE, parent |-> 0]

Publishing(c, cert) == [step |-> "record", c |-> c, cert |-> cert]

Publish(c) ==
    /\ Publishable(c)
    /\ Reads(c, Publishing(c, NativeCertificate(c)))
    /\ UNCHANGED <<rep, ptr, active, episodes, records, measured, ran>>

\* Bug: the selection comes first.
WriteRecord_SelectsFirst ==
    /\ At("record")
    /\ active' = [active EXCEPT ![eva.c] = eva.cert]
    /\ Goto("evidence")
    /\ UNCHANGED <<rep, ptr, episodes, records, measured, ran>>

\* Immutable record, evidence, then the selection.
WriteRecord ==
    /\ At("record")
    /\ records' = [records EXCEPT ![eva.c] = @ \cup {eva.cert}]
    /\ Goto("evidence")
    /\ UNCHANGED <<rep, ptr, active, episodes, measured, ran>>

WriteEvidence ==
    /\ At("evidence")
    /\ Report(eva.c, "evidence", [env |-> eva.cert.env, accepted |-> eva.cert.accepted])
    /\ Goto("select")
    /\ UNCHANGED <<ptr, active, episodes, records, measured, ran>>

SelectCertificate ==
    /\ At("select")
    /\ active' = [active EXCEPT ![eva.c] = eva.cert]
    /\ End
    /\ UNCHANGED <<rep, ptr, episodes, records, measured, ran>>

---------------------------------------------------------------------------
(* bh evidence reuse, bh evidence configurations *)

\* The native components of the certified revision are the candidate's.
NativeIdentity(old, after) == old.native = old.accepted.native /\ after.native = old.native

\* A receipt for candidate c, from the active certificate of root.
Reusable(root, c) ==
    LET old == active[root] IN
    /\ old # None /\ old \in records[root]
    /\ old.accepted \in commits
    /\ NativeIdentity(old, tree[c])
    /\ old.env = lock[root]
    /\ Has(root, {"evidence"})
    /\ rep[root].evidence = [env |-> old.env, accepted |-> old.accepted]

Receipt(root, c) ==
    [active[root] EXCEPT !.id = commands, !.accepted = tree[c], !.parent = active[root].id]

PrepareReuse(root, c) ==
    /\ Reusable(root, c)
    /\ Reads(root, [step |-> "activate", c |-> root, candidate |-> c, old |-> active[root],
                    cert |-> Receipt(root, c)])
    /\ UNCHANGED <<rep, ptr, active, episodes, records, measured, ran>>

\* Only a candidate that is installed, under the certificate it came from.
Activate ==
    /\ At("activate")
    /\ tree[eva.c] = eva.cert.accepted /\ tree[eva.candidate] = eva.cert.accepted
    /\ active[eva.c] = eva.old /\ lock[eva.c] = eva.cert.env
    /\ eva' = Publishing(eva.c, eva.cert)
    /\ UNCHANGED <<rep, ptr, active, episodes, records, measured, ran>>

\* One process starts every configuration, for the receipt root would give.
CollectConfigurations(root, c) ==
    /\ Reusable(root, c)
    /\ lock[c] = active[root].env /\ MayLaunch(c)
    /\ Reads(c, [step |-> "configs", c |-> c, root |-> root, source |-> tree[c],
                 env |-> lock[c], parent |-> active[root]])
    /\ UNCHANGED <<rep, ptr, active, episodes, records, measured, ran>>

Unchanged ==
    /\ tree[eva.c] = eva.source
    /\ lock[eva.c] = eva.env /\ active[eva.root] = eva.parent

ReportConfigurations ==
    /\ At("configs") /\ Unchanged
    /\ measured' = measured \cup {[src |-> eva.source, env |-> eva.env, parent |-> eva.parent.id]}
    /\ ran' = ran \cup Facts("configs", eva.env)
    /\ End
    /\ UNCHANGED <<rep, ptr, active, episodes, records>>

\* Measured starts extend the receipt of the installed source.
AcceptConfigurations(root, r) ==
    /\ Reusable(root, root)
    /\ r = [src |-> tree[root], env |-> active[root].env, parent |-> active[root].id]
    /\ Reads(root, [step |-> "activate", c |-> root, candidate |-> root, old |-> active[root],
                    cert |-> [Receipt(root, root) EXCEPT !.all = TRUE]])
    /\ UNCHANGED <<rep, ptr, active, episodes, records, measured, ran>>

---------------------------------------------------------------------------
(* The system *)

\* A refused check, a lost session, an interrupt or a crash.
AbandonCommand ==
    /\ eva.step # "idle"
    /\ End
    /\ UNCHANGED <<deploymentVars, commands, rep, ptr, active, episodes, records, measured, ran>>

\* Bug: the fingerprint leaves the native components out.
AcceptedSource_Harness(c) == active[c].accepted.harness = tree[c].harness

\* accepted_source_matches
AcceptedSource(c) == active[c].accepted = tree[c] /\ active[c].native = tree[c].native

\* A native launch passes verify_files and require_environment_certificate.
Admits(c) ==
    /\ active[c] # None
    /\ VerifyFiles(c) /\ active[c].env = lock[c] /\ AcceptedSource(c)

EvidenceNext ==
    \/ \E c \in Checkouts : StartProcess(c)
    \/ \E c \in Checkouts :
          /\ eva.step = "start" /\ eva.c = c
          /\ \/ \E mode \in Modes : OpenSession(c, mode)
             \/ BeginCertify(c) \/ BeginBranch(c) \/ Publish(c)
             \/ \E r \in measured : AcceptConfigurations(c, r)
             \/ \E other \in Checkouts : PrepareReuse(c, other) \/ CollectConfigurations(other, c)
    \/ AuditProfiles \/ CollectInvalid \/ CollectActions \/ CollectWin \/ CollectRuns
    \/ CollectReorder \/ CollectFaults
    \/ WriteFixtures
    \/ StartReplay \/ ReplayPasses \/ DeriveBoundary \/ ReplayFails
    \/ ReadCollected \/ BranchRun \/ WriteRelease \/ Settle
    \/ WriteRecord \/ WriteEvidence \/ SelectCertificate
    \/ Activate \/ ReportConfigurations
    \/ AbandonCommand

Next ==
    \/ EvidenceNext /\ Loads
    \/ DeployNext /\ Loads /\ UNCHANGED <<episodes, records, measured, ran>>

\* What a release shows of a source and an environment.
Suite(src, env) ==
    {Fact(k, None, env) : k \in Unsourced} \cup
    {Fact(k, src, env) : k \in {"actions", "runs", "reorder", "faults", "fixture", "gold", "branch"}}

\* The deployed checkout was published from its own collection.
Init ==
    LET nothing == [k \in {} |-> None]
        env == Instrument(Base)
        t == [src |-> BaseTree, env |-> env]
        e == [play \in {"fixture", "gold"} |-> [n |-> 0, play |-> play, src |-> BaseTree, env |-> env]]
        cert == [id |-> 0, env |-> env, accepted |-> BaseTree, native |-> BaseTree.native,
                 all |-> FALSE, parent |-> 0]
        passed == [mode |-> "seed_prefix", passed |-> TRUE, src |-> BaseTree, env |-> env]
        base == [profiles |-> [env |-> env, stable |-> TRUE], fixtures |-> e.fixture, runs |-> e.gold,
                 invalid |-> t, reorder |-> t, faults |-> t, settlement |-> t,
                 release |-> [src |-> BaseTree, env |-> env, fixture |-> e.fixture, gold |-> e.gold],
                 evidence |-> [env |-> env, accepted |-> BaseTree]]
    IN  /\ DeployInit
        /\ eva = Idle
        /\ rep = [c \in Checkouts |-> IF c = Base THEN base ELSE nothing]
        /\ ptr = [c \in Checkouts |-> IF c = Base THEN [k \in {e.fixture, e.gold} \X {0, 1} |-> passed]
                                                  ELSE nothing]
        /\ active = [c \in Checkouts |-> IF c = Base THEN cert ELSE None]
        /\ episodes = [c \in Checkouts |-> IF c = Base THEN {e.fixture} ELSE {}]
        /\ records = [c \in Checkouts |-> IF c = Base THEN {cert} ELSE {}]
        /\ measured = {} /\ loaded = {}
        /\ ran = Suite(BaseTree, env)

Spec == Init /\ [][Next]_vars

---------------------------------------------------------------------------
(* A launch is admitted only for native components that went through the
   whole suite in exactly the runtime that is installed, each stage in a process
   during which one and the same source tree with these components was on disk
   (the source that ran, unless the checkout was edited under that process); the
   profiles, the rejected actions and the won game, whose source nothing checks,
   are bound to the runtime only; a certificate for every configuration moreover had them all
   started.  Each stage is tagged on its own and each command picks up what
   earlier ones left, so that a stale report, an edit between two stages or
   between the start of a process and its first fingerprint, an update, a
   rollback or a resumed collection could each let a mixture through. *)
AdmittedRuntimeWasProven ==
    \A c \in Checkouts : Admits(c) =>
        /\ \E s \in Tree : s.native = tree[c].native /\ Suite(s, lock[c]) \subseteq ran
        /\ active[c].all =>
            \E s \in Tree : s.native = tree[c].native /\ Fact("configs", s, lock[c]) \in ran

(* The selected certificate always has its immutable record, so that it can be
   inspected and reused: after a crash between the three writes of a
   publication, and after the rollback of an install put an older selection
   back. *)
SelectionIsRecorded == \A c \in Checkouts : active[c] \in records[c] \cup {None}
=============================================================================
