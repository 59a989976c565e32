--------------------------- MODULE CampaignProofs ---------------------------
(***************************************************************************)
(* Proofs about Campaign, for any slots and prices, any number of          *)
(* episodes and scheduling processes, any cap and charges.                 *)
(***************************************************************************)
EXTENDS Campaign, FiniteSetTheorems, TLAPS

Inv == TypeOK /\ IInv

USE SlotsAssumption DEF Slots

-----------------------------------------------------------------------------
(***************************************************************************)
(* Values and views.                                                       *)
(***************************************************************************)

\* The absent value is no outcome, no reason, no stop and no episode.
LEMMA NoneIsNothing ==
  /\ None \notin Outcomes /\ None \notin EndReasons /\ None \notin CampaignReasons
  /\ None \notin StopRecord /\ None \notin Episodes
  BY NoneAssumption, IdsAssumption DEF EndReasons

\* A pass at rest has its type and promises nothing.
LEMMA RestingOK == Resting \in SchedState /\ PassOK(Resting)
  BY DEF Resting, NoEpisode, SchedState, View, Attempt, PassOK

\* What recovery may have done to an attempt since it was read leaves its slot,
\* its campaign refusal and its failure as infrastructure in place.
LEMMA SeenIsTrue ==
  ASSUME Inv, NEW view \in View,
         \A e \in Episodes : SameOrRecovered(view[e], episode[e])
  PROVE  /\ Refusals(view) = Refusals(episode)
         /\ \A e \in Refusals(view) : view[e] = episode[e]
         /\ \A s \in Slots : AttemptsOf(view, s) = AttemptsOf(episode, s)
         /\ \A e \in Episodes : view[e].outcome = "INFRASTRUCTURE_FAILURE"
                                  => episode[e].outcome = "INFRASTRUCTURE_FAILURE"
<1>1. \A e \in Episodes : \/ view[e] = episode[e]
                          \/ /\ view[e].slot = episode[e].slot
                             /\ view[e].reason = None /\ view[e].outcome = None
                             /\ episode[e].reason = "PROCESS_INTERRUPTED"
  BY DEF SameOrRecovered
<1>2. None \notin CampaignReasons /\ None \notin Outcomes
  BY NoneIsNothing
<1>3. \A e \in Episodes : view[e].reason \in CampaignReasons \/ episode[e].reason \in CampaignReasons
                            => view[e] = episode[e]
  BY <1>1, <1>2 DEF CampaignReasons
<1>4. Refusals(view) = Refusals(episode) /\ \A e \in Refusals(view) : view[e] = episode[e]
  BY <1>3 DEF Refusals
<1>5. \A s \in Slots : AttemptsOf(view, s) = AttemptsOf(episode, s)
  BY <1>1 DEF AttemptsOf
<1>6. \A e \in Episodes : view[e].outcome = "INFRASTRUCTURE_FAILURE"
                            => episode[e].outcome = "INFRASTRUCTURE_FAILURE"
  BY <1>1, <1>2 DEF Outcomes
<1> QED
  BY <1>4, <1>5, <1>6

\* A refusal has a terminal, and its episode has a slot.
LEMMA RefusalsEnded ==
  ASSUME Inv
  PROVE  \A e \in Refusals(episode) :
           /\ e \in Episodes /\ Terminated(episode, e) /\ episode[e].slot \in Slots
           /\ episode[e].reason \in CampaignReasons
<1> SUFFICES ASSUME NEW e \in Refusals(episode)
             PROVE  /\ e \in Episodes /\ Terminated(episode, e) /\ episode[e].slot \in Slots
                    /\ episode[e].reason \in CampaignReasons
  OBVIOUS
<1>1. e \in Episodes /\ episode[e].reason \in CampaignReasons
  BY DEF Refusals
<1>2. episode[e].reason # None
  BY <1>1, NoneIsNothing
<1>3. Terminated(episode, e)
  BY <1>1, <1>2 DEF Inv, IInv, EpisodesOK, Terminated
<1>4. episode[e].slot # 0
  BY <1>1, <1>3 DEF Inv, IInv, EpisodesOK, Terminated
<1>5. episode[e].slot \in {0} \cup Slots
  BY <1>1 DEF Inv, TypeOK, View, Attempt
<1> QED
  BY <1>1, <1>3, <1>4, <1>5

\* The stop that a true view leads to is a whole record of the only refusal.
LEMMA EpisodeStopFounded ==
  ASSUME Inv, NEW view, NEW recovered \in BOOLEAN,
         Refusals(view) # {},
         \A e \in Refusals(view) : view[e] = episode[e]
  PROVE  LET stop == EpisodeStop(view, recovered)
         IN  /\ stop \in StopRecord
             /\ stop.stage = "episode"
             /\ stop.episode \in Refusals(episode)
             /\ stop.slot = episode[stop.episode].slot
             /\ stop.reason = episode[stop.episode].reason
<1> DEFINE e == CHOOSE x \in Refusals(view) : TRUE
<1>1. e \in Refusals(view)
  OBVIOUS
<1>2. e \in Refusals(episode) /\ view[e] = episode[e]
  BY <1>1 DEF Refusals
<1>3. e \in Episodes /\ episode[e].slot \in Slots /\ episode[e].reason \in CampaignReasons
  BY <1>2, RefusalsEnded
<1>4. EpisodeStop(view, recovered) = [stage |-> "episode", slot |-> episode[e].slot, episode |-> e,
                                      reason |-> episode[e].reason, recovered |-> recovered]
  BY <1>2 DEF EpisodeStop
<1> HIDE DEF e
<1> QED
  BY <1>2, <1>3, <1>4 DEF StopRecord

\* Between its lock and its release a pass is the only one.
LEMMA OthersRest ==
  ASSUME Inv, NEW p \in Schedulers, Holding(p), NEW q \in Schedulers, q # p
  PROVE  sched[q].pc \in {"idle", "queued"}
  BY DEF Inv, IInv, OneHolder, Holding

-----------------------------------------------------------------------------
(***************************************************************************)
(* The inductive invariant.                                                *)
(***************************************************************************)
LEMMA IndInit == Init => Inv
<1> SUFFICES ASSUME Init PROVE Inv
  OBVIOUS
<1> USE DEF Init
<1>1. \A e \in Episodes : episode[e] = NoEpisode
  OBVIOUS
<1>2. TypeOK
  BY RestingOK DEF TypeOK, View, Attempt, NoEpisode, NotReporting
<1>3. EpisodesOK
  BY <1>1 DEF EpisodesOK, NoEpisode
<1>4. OneHolder /\ ReportOK
  BY DEF OneHolder, Holding, Resting, ReportOK, NotReporting
<1>5. \A p \in Schedulers : PassOK(sched[p])
  BY RestingOK
<1>6. \A s \in Slots : AttemptsOf(episode, s) = {}
  BY <1>1 DEF AttemptsOf, NoEpisode
<1>7. OneReplacement
  <2>1. Cardinality({}) <= 2
    BY FS_EmptySet
  <2> SUFFICES ASSUME NEW s \in Slots
               PROVE  /\ Cardinality(AttemptsOf(episode, s)) <= 2
                      /\ \A d, e \in AttemptsOf(episode, s) : d # e =>
                           "INFRASTRUCTURE_FAILURE" \in {episode[d].outcome, episode[e].outcome}
    BY DEF OneReplacement
  <2>2. AttemptsOf(episode, s) = {}
    BY <1>6
  <2> QED
    BY <2>1, <2>2
<1>8. Refusals(episode) = {}
  BY <1>1, NoneIsNothing DEF Refusals, NoEpisode
<1>9. StopIsFounded
  BY <1>8 DEF StopIsFounded
<1> QED
  BY <1>2, <1>3, <1>4, <1>5, <1>7, <1>9 DEF Inv, IInv

\* Steps of one pass that leave the disk and the report alone.
LEMMA PassOnly ==
  ASSUME Inv, NEW p \in Schedulers, NEW s \in SchedState, PassOK(s),
         s.pc \notin {"idle", "queued"} => Holding(p) \/ LockFree,
         sched' = [sched EXCEPT ![p] = s],
         UNCHANGED <<episode, spent, stopFile, report>>
  PROVE  Inv'
<1>1. \A q \in Schedulers : sched'[q] = IF q = p THEN s ELSE sched[q]
  BY DEF Inv, TypeOK
<1>2. TypeOK'
  BY DEF Inv, TypeOK
<1>3. \A v : PassOK(v) <=> PassOK(v)'
  BY DEF PassOK, Halted, MayAttempt, AttemptsOf, Refusals
<1>4. \A q \in Schedulers : PassOK(sched[q])'
  <2> SUFFICES ASSUME NEW q \in Schedulers PROVE PassOK(sched[q])'
    OBVIOUS
  <2>1. PassOK(sched'[q])
    BY <1>1 DEF Inv, IInv
  <2> QED
    BY <2>1, <1>1 DEF PassOK, Halted, MayAttempt, AttemptsOf, Refusals
<1>5. OneHolder'
  BY <1>1 DEF Inv, IInv, OneHolder, Holding, LockFree
<1>6. (EpisodesOK /\ ReportOK /\ OneReplacement /\ StopIsFounded)'
  BY DEF Inv, IInv, EpisodesOK, ReportOK, OneReplacement, StopIsFounded, AttemptsOf, Refusals
<1> QED
  BY <1>2, <1>4, <1>5, <1>6 DEF Inv, IInv

\* Queueing, taking and leaving the lock, reading the attempts, and passing a slot.
LEMMA PassMoves ==
  ASSUME Inv, NEW p \in Schedulers,
         \/ Enqueue(p) \/ Acquire(p) \/ Reconcile(p) \/ SkipSlot(p) \/ EndPass(p)
         \/ Reread(p) \/ Abandon(p) \/ RequestStop(p)
  PROVE  Inv'
<1> DEFINE s == sched[p]
<1>1. s \in SchedState /\ PassOK(s)
  BY DEF Inv, TypeOK, IInv
<1>2. ASSUME NEW t \in SchedState, PassOK(t),
             t.pc \notin {"idle", "queued"} => Holding(p) \/ LockFree,
             sched' = [sched EXCEPT ![p] = t],
             UNCHANGED <<episode, spent, stopFile, report>>
      PROVE  Inv'
  BY <1>2, PassOnly
<1>3. ASSUME sched' = [sched EXCEPT ![p] = Resting], UNCHANGED <<episode, spent, stopFile, report>>
      PROVE  Inv'
  BY <1>3, <1>2, RestingOK DEF Resting
<1>4. CASE Enqueue(p)
  <2> DEFINE t == [Resting EXCEPT !.pc = "queued"]
  <2>1. t \in SchedState /\ t.pc = "queued"
    BY RestingOK DEF SchedState, Resting
  <2>2. PassOK(t)
    BY <2>1 DEF PassOK
  <2>3. sched' = [sched EXCEPT ![p] = t] /\ UNCHANGED <<episode, spent, stopFile, report>>
    BY <1>4 DEF Enqueue
  <2> HIDE DEF t
  <2> QED
    BY <1>2, <2>1, <2>2, <2>3
<1>5. CASE Acquire(p)
  <2> DEFINE t == [s EXCEPT !.pc = "reconcile", !.slot = 1, !.seen = episode]
  <2>1. t \in SchedState /\ t.pc = "reconcile" /\ t.slot = 1 /\ t.seen = episode
    <3>1. episode \in View /\ 1 \in 0 .. NumSlots + 1
      BY DEF Inv, TypeOK
    <3> QED
      BY <1>1, <3>1 DEF SchedState
  <2>2. PassOK(t)
    BY <2>1 DEF PassOK, SameOrRecovered
  <2>3. sched' = [sched EXCEPT ![p] = t] /\ UNCHANGED <<episode, spent, stopFile, report>> /\ LockFree
    BY <1>5 DEF Acquire, Inv, TypeOK
  <2> HIDE DEF t
  <2> QED
    BY <1>2, <2>1, <2>2, <2>3
<1>6. CASE Reconcile(p)
  <2>1. s.pc = "reconcile" /\ Holding(p) /\ UNCHANGED <<episode, spent, stopFile, report>>
    BY <1>6 DEF Reconcile, Holding
  <2>2. CASE stopFile # None
    BY <1>6, <2>2, <1>3, <2>1 DEF Reconcile
  <2>3. CASE stopFile = None /\ Refusals(s.seen) # {}
    <3> DEFINE t == [s EXCEPT !.pc = "record"]
    <3>1. t \in SchedState /\ t.pc = "record" /\ t.seen = s.seen /\ t.slot = s.slot
      BY <1>1 DEF SchedState
    <3>2. PassOK(t)
      BY <1>1, <2>1, <2>3, <3>1 DEF PassOK
    <3>3. sched' = [sched EXCEPT ![p] = t]
      BY <1>6, <2>3 DEF Reconcile, Inv, TypeOK
    <3> HIDE DEF t
    <3> QED
      BY <1>2, <2>1, <3>1, <3>2, <3>3
  <2>4. CASE stopFile = None /\ Refusals(s.seen) = {}
    <3> DEFINE t == [s EXCEPT !.pc = "slots"]
    <3>1. t \in SchedState /\ t.pc = "slots" /\ t.seen = s.seen /\ t.slot = s.slot
      BY <1>1 DEF SchedState
    <3>2. Refusals(s.seen) = Refusals(episode)
      BY <1>1, <2>1, SeenIsTrue DEF PassOK, SchedState
    <3>3. ~Halted
      BY <2>4, <3>2 DEF Halted
    <3>4. PassOK(t)
      BY <1>1, <2>1, <3>1, <3>3 DEF PassOK
    <3>5. sched' = [sched EXCEPT ![p] = t]
      BY <1>6, <2>4 DEF Reconcile, Inv, TypeOK
    <3> HIDE DEF t
    <3> QED
      BY <1>2, <2>1, <3>1, <3>4, <3>5
  <2> QED
    BY <2>2, <2>3, <2>4
<1>7. CASE SkipSlot(p)
  <2> DEFINE t == [s EXCEPT !.slot = s.slot + 1]
  <2>1. s.pc = "slots" /\ s.slot \in Slots /\ Holding(p)
    BY <1>7 DEF SkipSlot, Holding
  <2>2. s.slot + 1 \in 0 .. NumSlots + 1 /\ s.slot + 1 # 0
    BY <2>1
  <2>3. t \in SchedState /\ t.pc = "slots" /\ t.seen = s.seen /\ t.slot = s.slot + 1
    BY <1>1, <2>1, <2>2 DEF SchedState
  <2>4. PassOK(t)
    BY <1>1, <2>1, <2>2, <2>3 DEF PassOK
  <2>5. sched' = [sched EXCEPT ![p] = t] /\ UNCHANGED <<episode, spent, stopFile, report>>
    BY <1>7 DEF SkipSlot, Inv, TypeOK
  <2> HIDE DEF t
  <2> QED
    BY <1>2, <2>1, <2>3, <2>4, <2>5
<1>8. CASE EndPass(p)
  BY <1>8, <1>3 DEF EndPass
<1>9. CASE Reread(p)
  <2> DEFINE t == [s EXCEPT !.pc = "reconcile", !.ran = TRUE, !.episode = None, !.seen = episode]
  <2>1. s.pc = "after" /\ Holding(p)
    BY <1>9 DEF Reread, Holding
  <2>2. t \in SchedState /\ t.pc = "reconcile" /\ t.seen = episode /\ t.slot = s.slot
    BY <1>1 DEF SchedState, Inv, TypeOK
  <2>3. PassOK(t)
    BY <1>1, <2>1, <2>2 DEF PassOK, SameOrRecovered
  <2>4. sched' = [sched EXCEPT ![p] = t] /\ UNCHANGED <<episode, spent, stopFile, report>>
    BY <1>9 DEF Reread, Inv, TypeOK
  <2> HIDE DEF t
  <2> QED
    BY <1>2, <2>1, <2>2, <2>3, <2>4
<1>10. CASE Abandon(p)
  BY <1>10, <1>3 DEF Abandon
<1>11. CASE RequestStop(p)
  <2> DEFINE t == [s EXCEPT !.stop = TRUE]
  <2>1. /\ t \in SchedState /\ t.pc = s.pc /\ t.seen = s.seen /\ t.slot = s.slot
        /\ t.episode = s.episode
    BY <1>1 DEF SchedState
  <2>2. PassOK(t)
    BY <1>1, <2>1 DEF PassOK
  <2>3. sched' = [sched EXCEPT ![p] = t] /\ UNCHANGED <<episode, spent, stopFile, report>>
    BY <1>11 DEF RequestStop, Inv, TypeOK
  <2>4. t.pc \notin {"idle", "queued"} => Holding(p)
    BY <2>1 DEF Holding
  <2> HIDE DEF t
  <2> QED
    BY <1>2, <2>1, <2>2, <2>3, <2>4
<1> QED
  BY <1>4, <1>5, <1>6, <1>7, <1>8, <1>9, <1>10, <1>11

\* A stop is written where a refusal is on disk, or a slot cannot be afforded.
LEMMA StopWritten ==
  ASSUME Inv, NEW value, value \in StopRecord, RecordStop(value),
         UNCHANGED <<episode, spent>>,
         stopFile = None =>
           IF value.stage = "episode"
           THEN /\ value.episode \in Refusals(episode)
                /\ value.slot = episode[value.episode].slot
                /\ value.reason = episode[value.episode].reason
           ELSE Refusals(episode) = {} /\ spent + Price[value.slot] > CampaignCap
  PROVE  /\ stopFile' = None \/ stopFile' \in StopRecord
         /\ StopIsFounded' /\ OneReplacement' /\ EpisodesOK'
<1>1. stopFile' = IF stopFile = None THEN value ELSE stopFile
  BY DEF RecordStop
<1>2. stopFile' = None \/ stopFile' \in StopRecord
  BY <1>1 DEF Inv, TypeOK
<1>3. Refusals(episode)' = Refusals(episode)
  BY DEF Refusals
<1>4. StopIsFounded'
  <2>1. CASE stopFile = None
    BY <1>1, <1>3, <2>1 DEF Inv, IInv, StopIsFounded
  <2>2. CASE stopFile # None
    BY <1>1, <1>3, <2>2 DEF Inv, IInv, StopIsFounded
  <2> QED
    BY <2>1, <2>2
<1> QED
  BY <1>2, <1>4 DEF Inv, IInv, OneReplacement, EpisodesOK, AttemptsOf

\* A pass that writes a stop rests, and no other pass is anywhere.
LEMMA PassStops ==
  ASSUME Inv, NEW p \in Schedulers, Holding(p),
         sched' = [sched EXCEPT ![p] = Resting],
         stopFile' = None \/ stopFile' \in StopRecord,
         StopIsFounded', OneReplacement', EpisodesOK',
         UNCHANGED <<episode, spent, report>>
  PROVE  Inv'
<1>1. \A q \in Schedulers : sched'[q].pc \in {"idle", "queued"}
  BY OthersRest, RestingOK DEF Resting, Inv, TypeOK
<1>2. TypeOK'
  BY RestingOK DEF Inv, TypeOK
<1>3. \A q \in Schedulers : PassOK(sched[q])'
  BY <1>1 DEF PassOK
<1>4. OneHolder'
  BY <1>1 DEF OneHolder, Holding
<1>5. ReportOK'
  BY DEF Inv, IInv, ReportOK, Refusals
<1> QED
  BY <1>2, <1>3, <1>4, <1>5 DEF Inv, IInv

LEMMA RecordKeeps ==
  ASSUME Inv, NEW p \in Schedulers, Record(p)
  PROVE  Inv'
<1> DEFINE s == sched[p]
           stop == EpisodeStop(s.seen, ~s.ran)
<1>1. s.pc = "record" /\ Holding(p) /\ s \in SchedState /\ PassOK(s)
  BY DEF Record, Holding, Inv, IInv, TypeOK
<1>2. Refusals(s.seen) # {} /\ \A e \in Refusals(s.seen) : s.seen[e] = episode[e]
  BY <1>1, SeenIsTrue DEF PassOK, SchedState
<1>3. (~s.ran) \in BOOLEAN
  BY <1>1 DEF SchedState
<1>4. /\ stop \in StopRecord /\ stop.stage = "episode"
      /\ stop.episode \in Refusals(episode)
      /\ stop.slot = episode[stop.episode].slot /\ stop.reason = episode[stop.episode].reason
  BY <1>2, <1>3, EpisodeStopFounded
<1>5. RecordStop(stop) /\ sched' = [sched EXCEPT ![p] = Resting] /\ UNCHANGED <<episode, spent, report>>
  BY DEF Record
<1> HIDE DEF stop
<1>6. /\ stopFile' = None \/ stopFile' \in StopRecord
      /\ StopIsFounded' /\ OneReplacement' /\ EpisodesOK'
  BY <1>4, <1>5, StopWritten
<1> QED
  BY <1>1, <1>5, <1>6, PassStops

\* A slot that may be attempted and affords a call is attempted; one that cannot
\* afford it stops the campaign, with no refusal on disk.
LEMMA PreflightKeeps ==
  ASSUME Inv, NEW p \in Schedulers, Preflight(p)
  PROVE  Inv'
<1> DEFINE s == sched[p]
<1>1. /\ s.pc = "slots" /\ s.slot \in Slots /\ Holding(p) /\ s \in SchedState /\ PassOK(s)
      /\ MayAttempt(s.seen, s.slot) /\ UNCHANGED <<episode, spent, report>>
  BY DEF Preflight, Holding, Inv, IInv, TypeOK
<1>2. CASE Affordable(s.slot)
  <2> DEFINE t == [s EXCEPT !.pc = "create"]
  <2>1. t \in SchedState /\ t.pc = "create" /\ t.seen = s.seen /\ t.slot = s.slot
    BY <1>1 DEF SchedState
  <2>2. PassOK(t)
    BY <1>1, <2>1 DEF PassOK
  <2>3. sched' = [sched EXCEPT ![p] = t] /\ UNCHANGED <<episode, spent, stopFile, report>>
    BY <1>1, <1>2 DEF Preflight, Inv, TypeOK
  <2> HIDE DEF t
  <2> QED
    BY <1>1, <2>1, <2>2, <2>3, PassOnly
<1>3. CASE ~Affordable(s.slot)
  <2> DEFINE stop == PreflightStop(s.slot)
  <2>1. stop \in StopRecord /\ stop.stage # "episode" /\ stop.slot = s.slot
    BY <1>1 DEF PreflightStop, StopRecord, CampaignReasons
  <2>2. Refusals(episode) = {}
    BY <1>1 DEF PassOK, Halted
  <2>3. spent + Price[s.slot] > CampaignCap
    BY <1>1, <1>3, LedgerAssumption DEF Affordable, Inv, TypeOK
  <2>4. RecordStop(stop) /\ sched' = [sched EXCEPT ![p] = Resting]
    BY <1>3 DEF Preflight
  <2> HIDE DEF stop
  <2>5. /\ stopFile' = None \/ stopFile' \in StopRecord
        /\ StopIsFounded' /\ OneReplacement' /\ EpisodesOK'
    BY <1>1, <2>1, <2>2, <2>3, <2>4, StopWritten
  <2> QED
    BY <1>1, <2>4, <2>5, PassStops
<1> QED
  BY <1>2, <1>3

\* A report writes the refusal it read, while no pass goes over the slots.
LEMMA ReportRecordKeeps ==
  ASSUME Inv, ReportRecord
  PROVE  Inv'
<1> DEFINE stop == EpisodeStop(report.seen, TRUE)
<1>1. /\ Refusals(report.seen) # {}
      /\ \A e \in Refusals(report.seen) : report.seen[e] = episode[e]
  BY DEF ReportRecord, Inv, IInv, ReportOK
<1>2. /\ stop \in StopRecord /\ stop.stage = "episode"
      /\ stop.episode \in Refusals(episode)
      /\ stop.slot = episode[stop.episode].slot /\ stop.reason = episode[stop.episode].reason
  BY <1>1, EpisodeStopFounded
<1>3. RecordStop(stop) /\ report' = NotReporting /\ UNCHANGED <<episode, spent, sched>>
  BY DEF ReportRecord
<1> HIDE DEF stop
<1>4. /\ stopFile' = None \/ stopFile' \in StopRecord
      /\ StopIsFounded' /\ OneReplacement' /\ EpisodesOK'
  BY <1>2, <1>3, StopWritten
<1>5. Halted
  BY <1>2 DEF Halted
<1>6. \A p \in Schedulers : PassOK(sched[p])'
  <2> SUFFICES ASSUME NEW p \in Schedulers PROVE PassOK(sched[p])'
    OBVIOUS
  <2>1. PassOK(sched[p]) /\ sched[p].pc \notin {"slots", "create", "run"}
    BY <1>5 DEF Inv, IInv, PassOK
  <2> QED
    BY <1>3, <2>1 DEF PassOK, Refusals
<1>7. TypeOK'
  BY <1>3, <1>4 DEF Inv, TypeOK, NotReporting, NoEpisode, View, Attempt
<1>8. OneHolder' /\ ReportOK'
  BY <1>3 DEF Inv, IInv, OneHolder, Holding, ReportOK, NotReporting
<1> QED
  BY <1>4, <1>6, <1>7, <1>8 DEF Inv, IInv

LEMMA ReportReadKeeps ==
  ASSUME Inv, ReportRead
  PROVE  Inv'
<1>1. UNCHANGED <<episode, spent, stopFile, sched>>
  BY DEF ReportRead
<1>2. \/ report' = report
      \/ Refusals(episode) # {} /\ report' = [pc |-> "record", seen |-> episode]
  BY DEF ReportRead
<1>3. TypeOK' /\ ReportOK'
  BY <1>1, <1>2 DEF Inv, IInv, TypeOK, ReportOK, Refusals
<1>4. \A p \in Schedulers : PassOK(sched[p])'
  BY <1>1 DEF Inv, IInv, PassOK, Halted, MayAttempt, AttemptsOf, Refusals
<1>5. (EpisodesOK /\ OneHolder /\ OneReplacement /\ StopIsFounded)'
  BY <1>1 DEF Inv, IInv, EpisodesOK, OneHolder, Holding, OneReplacement, StopIsFounded,
              AttemptsOf, Refusals
<1> QED
  BY <1>3, <1>4, <1>5 DEF Inv, IInv

\* Money is spent while an attempt runs, when nothing is halted.
LEMMA SpendKeeps ==
  ASSUME Inv, NEW p \in Schedulers, Spend(p)
  PROVE  Inv'
<1>1. UNCHANGED <<episode, stopFile, sched, report>>
  BY DEF Spend
<1>2. spent' \in Nat
  <2>1. sched[p].slot \in Slots
    BY DEF Spend, Inv, IInv, PassOK
  <2>2. \A c \in Charges \cup {Price[sched[p].slot]} : c \in Nat
    BY <2>1, LedgerAssumption
  <2> QED
    BY <2>2 DEF Spend, Inv, TypeOK
<1>3. stopFile = None
  BY DEF Spend, Inv, IInv, PassOK, Halted
<1>4. \A q \in Schedulers : PassOK(sched[q])'
  BY <1>1 DEF Inv, IInv, PassOK, Halted, MayAttempt, AttemptsOf, Refusals
<1>5. TypeOK'
  BY <1>1, <1>2 DEF Inv, TypeOK
<1>6. StopIsFounded'
  BY <1>1, <1>3 DEF Inv, IInv, StopIsFounded, Refusals
<1>7. (EpisodesOK /\ OneHolder /\ ReportOK /\ OneReplacement)'
  BY <1>1 DEF Inv, IInv, EpisodesOK, OneHolder, Holding, ReportOK, OneReplacement, AttemptsOf, Refusals
<1> QED
  BY <1>4, <1>5, <1>6, <1>7 DEF Inv, IInv

\* A new attempt joins a slot whose only other attempt failed as infrastructure.
LEMMA CreateAttemptKeeps ==
  ASSUME Inv, NEW p \in Schedulers, CreateAttempt(p)
  PROVE  Inv'
<1> DEFINE s == sched[p]
           new == CHOOSE e \in Unborn : TRUE
           e0 == [episode[new] EXCEPT !.slot = s.slot]
           t == [s EXCEPT !.pc = "run", !.episode = new]
<1>1. /\ s.pc = "create" /\ Holding(p) /\ s \in SchedState /\ PassOK(s) /\ s.slot \in Slots
      /\ UNCHANGED <<spent, stopFile, report>>
  BY DEF CreateAttempt, Holding, Inv, IInv, TypeOK, PassOK
<1>2. new \in Episodes /\ episode[new].slot = 0
  BY DEF CreateAttempt, Unborn
<1>3. episode[new].outcome = None /\ episode[new].reason = None
  BY <1>2 DEF Inv, IInv, EpisodesOK
<1>4. episode' = [episode EXCEPT ![new] = e0] /\ sched' = [sched EXCEPT ![p] = t]
  BY <1>1, <1>2 DEF CreateAttempt, Inv, TypeOK, View, Attempt
<1>5. t \in SchedState /\ t.pc = "run" /\ t.episode = new /\ t.slot = s.slot
  BY <1>1, <1>2 DEF SchedState
<1>6. /\ e0.slot = s.slot /\ e0.outcome = None /\ e0.reason = None
      /\ e0 \in Attempt
  BY <1>1, <1>2, <1>3, ZenonT(40) DEF Inv, TypeOK, View, Attempt
<1> HIDE DEF new, e0, t
<1>7. \A e \in Episodes : episode'[e] = IF e = new THEN e0 ELSE episode[e]
  BY <1>2, <1>4 DEF Inv, TypeOK, View, Attempt
<1>8. \A q \in Schedulers : sched'[q] = IF q = p THEN t ELSE sched[q]
  BY <1>4 DEF Inv, TypeOK
<1>9. TypeOK'
  <2>1. episode' \in View
    BY <1>2, <1>4, <1>6 DEF Inv, TypeOK, View, Attempt
  <2>2. sched' \in [Schedulers -> SchedState]
    BY <1>4, <1>5 DEF Inv, TypeOK
  <2> QED
    BY <1>1, <2>1, <2>2 DEF Inv, TypeOK
<1>10. Refusals(episode') = Refusals(episode) /\ Refusals(episode) = {} /\ stopFile = None
  <2>1. None \notin CampaignReasons
    BY NoneIsNothing
  <2>2. Refusals(episode') = Refusals(episode)
    BY <1>3, <1>6, <1>7, <2>1 DEF Refusals
  <2> QED
    BY <2>2, <1>1 DEF PassOK, Halted
<1>11. \A q \in Schedulers : PassOK(sched[q])'
  <2> SUFFICES ASSUME NEW q \in Schedulers PROVE PassOK(sched[q])'
    OBVIOUS
  <2>1. CASE q # p
    BY <2>1, <1>1, <1>8, OthersRest DEF PassOK
  <2>2. CASE q = p
    <3>1. sched'[q] = t /\ episode'[new].slot = s.slot
      BY <2>2, <1>2, <1>6, <1>7, <1>8
    <3>2. ~Halted'
      BY <1>1, <1>10 DEF Halted
    <3> QED
      BY <3>1, <3>2, <1>1, <1>2, <1>5 DEF PassOK
  <2> QED
    BY <2>1, <2>2
<1>12. OneHolder'
  BY <1>1, <1>8, OthersRest DEF OneHolder, Holding
<1>13. EpisodesOK'
  BY <1>6, <1>7, <1>1 DEF Inv, IInv, EpisodesOK
<1>14. ReportOK'
  <2>1. report.pc # "record"
    BY <1>10 DEF Inv, IInv, ReportOK, Refusals
  <2> QED
    BY <1>1, <2>1 DEF ReportOK
<1>15. StopIsFounded'
  BY <1>1, <1>10 DEF StopIsFounded
<1>16. OneReplacement'
  <2> DEFINE old == AttemptsOf(episode, s.slot)
  <2>1. /\ Cardinality(old) < 2
        /\ \A e \in old : episode[e].outcome = "INFRASTRUCTURE_FAILURE"
    <3>1. /\ old = AttemptsOf(s.seen, s.slot)
          /\ \A e \in Episodes : s.seen[e].outcome = "INFRASTRUCTURE_FAILURE"
                                    => episode[e].outcome = "INFRASTRUCTURE_FAILURE"
      BY <1>1, SeenIsTrue DEF PassOK, SchedState
    <3> QED
      BY <3>1, <1>1 DEF PassOK, MayAttempt, AttemptsOf
  <2>2. IsFiniteSet(old) /\ old \subseteq Episodes /\ new \notin old
    BY <1>1, <1>2, IdsAssumption, FS_Subset DEF AttemptsOf
  <2>3. Cardinality(old \cup {new}) <= 2
    <3>1. Cardinality(old) \in Nat
      BY <2>2, FS_CardinalityType
    <3>2. Cardinality(old \cup {new}) = Cardinality(old) + 1
      BY <2>2, FS_AddElement
    <3> QED
      BY <2>1, <3>1, <3>2
  <2>4. AttemptsOf(episode', s.slot) = old \cup {new}
    BY <1>2, <1>6, <1>7 DEF AttemptsOf
  <2>5. \A r \in Slots : r # s.slot => AttemptsOf(episode', r) = AttemptsOf(episode, r)
    BY <1>2, <1>6, <1>7 DEF AttemptsOf
  <2>6. \A e \in Episodes \ {new} : episode'[e] = episode[e]
    BY <1>7
  <2> SUFFICES ASSUME NEW r \in Slots
               PROVE  /\ Cardinality(AttemptsOf(episode', r)) <= 2
                      /\ \A d, e \in AttemptsOf(episode', r) : d # e =>
                           "INFRASTRUCTURE_FAILURE" \in {episode'[d].outcome, episode'[e].outcome}
    BY DEF OneReplacement
  <2>7. CASE r = s.slot
    BY <2>1, <2>2, <2>3, <2>4, <2>6, <2>7
  <2>8. CASE r # s.slot
    <3>1. new \notin AttemptsOf(episode, r)
      BY <1>2 DEF AttemptsOf
    <3>2. \A e \in AttemptsOf(episode, r) : episode'[e] = episode[e]
      BY <3>1, <2>6 DEF AttemptsOf
    <3> QED
      BY <2>5, <2>8, <3>2 DEF Inv, IInv, OneReplacement
  <2> QED
    BY <2>7, <2>8
<1> QED
  BY <1>9, <1>11, <1>12, <1>13, <1>14, <1>15, <1>16 DEF Inv, IInv

\* A terminal that an attempt without one is given: attempts of a slot, and what
\* the others of it said, stay as they were.
LEMMA TerminalKeepsSlots ==
  ASSUME Inv, NEW e \in Episodes, NEW outcome \in Outcomes \cup {None}, NEW reason \in EndReasons \cup {None},
         episode[e].slot # 0, ~Terminated(episode, e), outcome = None => reason = None,
         episode' = [episode EXCEPT ![e] = [@ EXCEPT !.outcome = outcome, !.reason = reason]]
  PROVE  /\ episode' \in View
         /\ \A f \in Episodes : f # e => episode'[f] = episode[f]
         /\ episode'[e].slot = episode[e].slot
         /\ episode'[e].outcome = outcome /\ episode'[e].reason = reason
         /\ \A s \in Slots : AttemptsOf(episode', s) = AttemptsOf(episode, s)
         /\ OneReplacement' /\ EpisodesOK'
<1>1. episode[e] \in Attempt
  BY DEF Inv, TypeOK, View
<1> DEFINE ended == [episode[e] EXCEPT !.outcome = outcome, !.reason = reason]
<1>2. /\ ended \in Attempt
      /\ ended.slot = episode[e].slot /\ ended.outcome = outcome /\ ended.reason = reason
  BY <1>1 DEF Attempt
<1>3. episode' \in View /\ \A f \in Episodes : episode'[f] = IF f = e THEN ended ELSE episode[f]
  <2>1. episode' = [episode EXCEPT ![e] = ended]
    OBVIOUS
  <2> HIDE DEF ended
  <2> QED
    BY <1>2, <2>1 DEF Inv, TypeOK, View
<1> HIDE DEF ended
<1>4. \A s \in Slots : AttemptsOf(episode', s) = AttemptsOf(episode, s)
  <2>1. \A f \in Episodes : episode'[f].slot = episode[f].slot
    BY <1>2, <1>3
  <2> QED
    BY <2>1 DEF AttemptsOf
<1>5. \A f \in Episodes : episode[f].outcome = "INFRASTRUCTURE_FAILURE"
                            => episode'[f].outcome = "INFRASTRUCTURE_FAILURE"
  <2>1. episode[e].outcome = None /\ None \notin Outcomes
    BY NoneIsNothing DEF Terminated
  <2> QED
    BY <1>2, <1>3, <2>1 DEF Outcomes
<1>6. OneReplacement'
  <2> SUFFICES ASSUME NEW r \in Slots
               PROVE  /\ Cardinality(AttemptsOf(episode', r)) <= 2
                      /\ \A d, f \in AttemptsOf(episode', r) : d # f =>
                           "INFRASTRUCTURE_FAILURE" \in {episode'[d].outcome, episode'[f].outcome}
    BY DEF OneReplacement
  <2>1. /\ Cardinality(AttemptsOf(episode, r)) <= 2
        /\ \A d, f \in AttemptsOf(episode, r) : d # f =>
             "INFRASTRUCTURE_FAILURE" \in {episode[d].outcome, episode[f].outcome}
    BY DEF Inv, IInv, OneReplacement
  <2>2. AttemptsOf(episode, r) \subseteq Episodes
    BY DEF AttemptsOf
  <2> QED
    BY <1>4, <1>5, <2>1, <2>2, ZenonT(40)
<1>7. EpisodesOK'
  <2> SUFFICES ASSUME NEW f \in Episodes
               PROVE  /\ episode'[f].slot = 0 => episode'[f].outcome = None
                      /\ episode'[f].outcome = None => episode'[f].reason = None
    BY DEF EpisodesOK
  <2>1. CASE f = e
    BY <1>3, <1>2, <2>1
  <2>2. CASE f # e
    BY <1>3, <2>2 DEF Inv, IInv, EpisodesOK
  <2> QED
    BY <2>1, <2>2
<1> QED
  BY <1>2, <1>3, <1>4, <1>6, <1>7

\* The attempt in hand ends, maybe with the first refusal of the campaign.
LEMMA EndAttemptKeeps ==
  ASSUME Inv, NEW p \in Schedulers, EndAttempt(p)
  PROVE  Inv'
<1> DEFINE s == sched[p]
           e == s.episode
           t == [s EXCEPT !.pc = "after"]
<1>1. /\ s.pc = "run" /\ Holding(p) /\ s \in SchedState /\ s.slot \in Slots
      /\ e \in Episodes /\ episode[e].slot = s.slot
      /\ stopFile = None /\ Refusals(episode) = {}
      /\ UNCHANGED <<spent, stopFile, report>>
  BY DEF EndAttempt, Holding, Inv, IInv, TypeOK, PassOK, Halted
<1>2. sched' = [sched EXCEPT ![p] = t] /\ t \in SchedState /\ t.pc = "after" /\ t.slot = s.slot
  BY <1>1 DEF EndAttempt, Inv, TypeOK, SchedState
<1> HIDE DEF t
<1>3. \A q \in Schedulers : sched'[q] = IF q = p THEN t ELSE sched[q]
  BY <1>2 DEF Inv, TypeOK
<1>4. /\ episode' \in View
      /\ \A f \in Episodes : f # e => episode'[f] = episode[f]
      /\ OneReplacement' /\ EpisodesOK'
  <2>1. CASE Terminated(episode, e)
    <3>1. episode' = episode
      BY <2>1 DEF EndAttempt
    <3> QED
      BY <3>1 DEF Inv, IInv, TypeOK, OneReplacement, EpisodesOK, AttemptsOf
  <2>2. CASE ~Terminated(episode, e)
    <3>1. PICK end \in Ends(p) : episode' = [episode EXCEPT ![e] = [@ EXCEPT !.outcome = end[1], !.reason = end[2]]]
      BY <2>2 DEF EndAttempt
    <3>2. /\ end[1] \in Outcomes \cup {None} /\ end[2] \in EndReasons \cup {None}
          /\ end[1] = None => end[2] = None
      BY <3>1, NoneIsNothing DEF Ends, Outcomes, EndReasons, CampaignReasons
    <3>3. episode[e].slot # 0
      BY <1>1
    <3> QED
      <4> DEFINE outcome == end[1]
                 reason == end[2]
      <4>1. /\ outcome \in Outcomes \cup {None} /\ reason \in EndReasons \cup {None}
            /\ outcome = None => reason = None
            /\ episode' = [episode EXCEPT ![e] = [@ EXCEPT !.outcome = outcome, !.reason = reason]]
        BY <3>1, <3>2
      <4> HIDE DEF outcome, reason
      <4> QED
        BY <1>1, <2>2, <3>3, <4>1, TerminalKeepsSlots
  <2> QED
    BY <2>1, <2>2
<1>5. \A f \in Refusals(episode') : f = e
  BY <1>1, <1>4 DEF Refusals
<1>6. \A q \in Schedulers : PassOK(sched[q])'
  BY <1>1, <1>2, <1>3, OthersRest DEF PassOK
<1>7. TypeOK'
  BY <1>1, <1>2, <1>4 DEF Inv, TypeOK
<1>8. OneHolder'
  BY <1>1, <1>3, OthersRest DEF OneHolder, Holding
<1>9. ReportOK'
  <2>1. report.pc # "record"
    BY <1>1 DEF Inv, IInv, ReportOK, Refusals
  <2> QED
    BY <1>1, <2>1 DEF ReportOK
<1>10. StopIsFounded'
  BY <1>1, <1>5 DEF StopIsFounded
<1> QED
  BY <1>4, <1>6, <1>7, <1>8, <1>9, <1>10 DEF Inv, IInv

\* A recovered attempt fails as infrastructure and refuses nothing, also under a
\* pass or a report that has read it without a terminal.
LEMMA RecoverKeeps ==
  ASSUME Inv, NEW e \in Episodes, Recover(e)
  PROVE  Inv'
<1>1. /\ episode[e].slot # 0 /\ ~Terminated(episode, e)
      /\ episode' = [episode EXCEPT ![e] = [@ EXCEPT !.outcome = "INFRASTRUCTURE_FAILURE",
                                                    !.reason = "PROCESS_INTERRUPTED"]]
      /\ UNCHANGED <<spent, stopFile, sched, report>>
  BY DEF Recover
<1>2. episode[e].outcome = None /\ episode[e].reason = None
  BY <1>1 DEF Inv, IInv, EpisodesOK, Terminated
<1>3. /\ "INFRASTRUCTURE_FAILURE" \in Outcomes /\ "PROCESS_INTERRUPTED" \in EndReasons
      /\ "INFRASTRUCTURE_FAILURE" # None /\ None \notin CampaignReasons
  BY NoneIsNothing DEF Outcomes, EndReasons
<1>4. /\ episode' \in View
      /\ \A f \in Episodes : f # e => episode'[f] = episode[f]
      /\ episode'[e].slot = episode[e].slot
      /\ episode'[e].outcome = "INFRASTRUCTURE_FAILURE" /\ episode'[e].reason = "PROCESS_INTERRUPTED"
      /\ \A s \in Slots : AttemptsOf(episode', s) = AttemptsOf(episode, s)
      /\ OneReplacement' /\ EpisodesOK'
  BY <1>1, <1>3, TerminalKeepsSlots
<1>5. /\ Refusals(episode') = Refusals(episode)
      /\ \A f \in Refusals(episode) : episode'[f] = episode[f]
  BY <1>2, <1>3, <1>4 DEF Refusals, CampaignReasons
<1>6. \A q \in Schedulers : PassOK(sched[q])'
  <2> SUFFICES ASSUME NEW q \in Schedulers PROVE PassOK(sched[q])'
    OBVIOUS
  <2> DEFINE s == sched[q]
  <2>1. PassOK(s) /\ sched'[q] = s
    BY <1>1 DEF Inv, IInv
  <2>2. ASSUME NEW f \in Episodes, SameOrRecovered(s.seen[f], episode[f])
        PROVE  SameOrRecovered(s.seen[f], episode'[f])
    <3>1. CASE f # e
      BY <2>2, <3>1, <1>4
    <3>2. CASE f = e
      <4>1. /\ episode'[e].slot = episode[e].slot
            /\ episode'[e].outcome = "INFRASTRUCTURE_FAILURE" /\ episode'[e].reason = "PROCESS_INTERRUPTED"
        BY <1>4
      <4>2. s.seen[e] = episode[e]
        BY <2>2, <3>2, <1>2, <1>3 DEF SameOrRecovered
      <4> QED
        BY <3>2, <4>1, <4>2, <1>1, <1>2 DEF SameOrRecovered
    <3> QED
      BY <3>1, <3>2
  <2>3. s.pc \in {"reconcile", "record", "slots", "create"} =>
          \A f \in Episodes : SameOrRecovered(s.seen[f], episode'[f])
    BY <2>1, <2>2 DEF PassOK
  <2>4. Halted' <=> Halted
    BY <1>1, <1>5 DEF Halted
  <2>5. s.pc = "run" => s.episode \in Episodes /\ episode'[s.episode].slot = s.slot
    BY <2>1, <1>4 DEF PassOK
  <2> QED
    BY <2>1, <2>3, <2>4, <2>5 DEF PassOK
<1>7. TypeOK' /\ OneHolder'
  BY <1>1, <1>4 DEF Inv, IInv, TypeOK, OneHolder, Holding
<1>8. ReportOK'
  <2>1. ASSUME report.pc = "record"
        PROVE  \A f \in Refusals(report.seen) : episode'[f] = report.seen[f]
    <3>1. \A f \in Refusals(report.seen) : f \in Refusals(episode) /\ episode[f] = report.seen[f]
      BY <2>1 DEF Inv, IInv, ReportOK, Refusals
    <3> QED
      BY <3>1, <1>5
  <2> QED
    BY <1>1, <2>1 DEF Inv, IInv, ReportOK
<1>9. StopIsFounded'
  BY <1>1, <1>5 DEF Inv, IInv, StopIsFounded
<1> QED
  BY <1>4, <1>6, <1>7, <1>8, <1>9 DEF Inv, IInv

LEMMA IndStep == Inv /\ [Next]_vars => Inv'
<1> SUFFICES ASSUME Inv, [Next]_vars PROVE Inv'
  OBVIOUS
<1>1. CASE UNCHANGED vars
  <2>1. TypeOK' /\ EpisodesOK' /\ OneHolder' /\ ReportOK'
    BY <1>1 DEF vars, Inv, IInv, TypeOK, EpisodesOK, OneHolder, Holding, ReportOK, Refusals
  <2>2. \A p \in Schedulers : PassOK(sched[p])'
    BY <1>1 DEF vars, Inv, IInv, PassOK, Halted, MayAttempt, AttemptsOf, Refusals
  <2>3. OneReplacement' /\ StopIsFounded'
    BY <1>1 DEF vars, Inv, IInv, OneReplacement, StopIsFounded, AttemptsOf, Refusals
  <2> QED
    BY <2>1, <2>2, <2>3 DEF Inv, IInv
<1>2. ASSUME NEW p \in Schedulers,
             PassStep(p) \/ Enqueue(p) \/ Acquire(p) \/ Spend(p)
                                    \/ Abandon(p) \/ RequestStop(p)
      PROVE  Inv'
  BY <1>2, PassMoves, RecordKeeps, PreflightKeeps, CreateAttemptKeeps, EndAttemptKeeps, SpendKeeps
     DEF PassStep
<1>3. ASSUME NEW e \in Episodes, Recover(e) PROVE Inv'
  BY <1>3, RecoverKeeps
<1>4. CASE ReportRead \/ ReportRecord
  BY <1>4, ReportReadKeeps, ReportRecordKeeps
<1> QED
  BY <1>1, <1>2, <1>3, <1>4 DEF Next

\* The invariant the theorems below rest on holds in every reachable state.
THEOREM Inductive == Spec => [](TypeOK /\ IInv)
<1>1. Inv => TypeOK /\ IInv
  BY DEF Inv
<1> QED
  BY <1>1, IndInit, IndStep, PTL DEF Spec

\* Every variable stays in its type, and stop.json is a whole record.
THEOREM TypeCorrect == Spec => []TypeOK
<1>1. TypeOK /\ IInv => TypeOK
  OBVIOUS
<1> QED
  BY <1>1, Inductive, PTL

\* No slot has a third attempt, nor a second one beside one that did not fail as
\* infrastructure, whatever passes, crashes and recoveries there were.
THEOREM ReplacedOnce == Spec => []OneReplacement
<1>1. TypeOK /\ IInv => OneReplacement
  BY DEF IInv
<1> QED
  BY <1>1, Inductive, PTL

\* A recorded stop quotes the only refusal on disk, or a slot that cannot be afforded.
THEOREM StopsAreFounded == Spec => []StopIsFounded
<1>1. TypeOK /\ IInv => StopIsFounded
  BY DEF IInv
<1> QED
  BY <1>1, Inductive, PTL

-----------------------------------------------------------------------------
(***************************************************************************)
(* Stops are final, and Campaign implements Scheduling.                    *)
(***************************************************************************)
StopStep ==
  /\ Halted => /\ Halted' /\ spent' = spent
               /\ \A e \in Episodes : episode'[e].slot = episode[e].slot
  /\ stopFile # None => stopFile' = stopFile

PromiseStep == [Promise!Next]_(Promise!vars)

Failed(view) == {e \in Episodes : view[e].outcome = "INFRASTRUCTURE_FAILURE"}

\* What leaves episodes and stop.json alone is not seen by the abstract schedule.
LEMMA Unseen ==
  ASSUME UNCHANGED <<episode, stopFile>>
  PROVE  PromiseStep
<1>1. (Halted' <=> Halted) /\ \A s \in Slots : AttemptsOf(episode', s) = AttemptsOf(episode, s)
  BY DEF Halted, Refusals, AttemptsOf
<1>2. Halted' = Halted
  BY <1>1 DEF Halted
<1>3. [s \in Slots |-> AttemptsOf(episode, s)]' = [s \in Slots |-> AttemptsOf(episode, s)]
  BY <1>1
<1>4. {e \in Episodes : episode[e].outcome = "INFRASTRUCTURE_FAILURE"}'
        = {e \in Episodes : episode[e].outcome = "INFRASTRUCTURE_FAILURE"}
  OBVIOUS
<1> QED
  BY <1>2, <1>3, <1>4 DEF PromiseStep, Promise!vars

\* A stop is recorded once, and halts the schedule.
LEMMA HaltStep ==
  ASSUME Inv, NEW value, RecordStop(value), UNCHANGED <<episode, spent>>,
         value \in StopRecord \/ Refusals(episode) # {}
  PROVE  StopStep /\ PromiseStep
<1>1. stopFile' = IF stopFile = None THEN value ELSE stopFile
  BY DEF RecordStop
<1>2. Refusals(episode)' = Refusals(episode)
  BY DEF Refusals
<1>3. Halted'
  BY <1>1, <1>2, NoneIsNothing DEF Halted
<1>4. StopStep
  BY <1>1, <1>3 DEF StopStep
<1>5. Promise!Halt
  <2>1. Halted' = TRUE
    BY <1>3 DEF Halted
  <2>2. [s \in Slots |-> AttemptsOf(episode, s)]' = [s \in Slots |-> AttemptsOf(episode, s)]
    BY DEF AttemptsOf
  <2> QED
    BY <2>1, <2>2 DEF Promise!Halt
<1> QED
  BY <1>4, <1>5 DEF PromiseStep, Promise!Next

\* A stop that a pass or a report records is whole.
LEMMA StopsRecorded ==
  ASSUME Inv,
         (\E p \in Schedulers : Record(p) \/ (Preflight(p) /\ ~Affordable(sched[p].slot))) \/ ReportRecord
  PROVE  StopStep /\ PromiseStep
<1>1. ASSUME NEW p \in Schedulers, Record(p) PROVE StopStep /\ PromiseStep
  <2>1. RecordStop(EpisodeStop(sched[p].seen, ~sched[p].ran)) /\ UNCHANGED <<episode, spent>>
    BY <1>1 DEF Record
  <2>2. Refusals(episode) # {}
    <3>1. sched[p] \in SchedState /\ PassOK(sched[p]) /\ sched[p].pc = "record"
      BY <1>1 DEF Inv, IInv, TypeOK, Record
    <3> QED
      BY <3>1, SeenIsTrue DEF PassOK, SchedState
  <2> QED
    BY <2>1, <2>2, HaltStep
<1>2. ASSUME NEW p \in Schedulers, Preflight(p), ~Affordable(sched[p].slot) PROVE StopStep /\ PromiseStep
  <2>1. RecordStop(PreflightStop(sched[p].slot)) /\ UNCHANGED <<episode, spent>>
    BY <1>2 DEF Preflight
  <2>2. PreflightStop(sched[p].slot) \in StopRecord
    BY <1>2 DEF Preflight, PreflightStop, StopRecord, CampaignReasons
  <2> QED
    BY <2>1, <2>2, HaltStep
<1>3. CASE ReportRecord
  <2>1. RecordStop(EpisodeStop(report.seen, TRUE)) /\ UNCHANGED <<episode, spent>>
    BY <1>3 DEF ReportRecord
  <2>2. Refusals(episode) # {}
    BY <1>3 DEF ReportRecord, Inv, IInv, ReportOK, Refusals
  <2> QED
    BY <2>1, <2>2, HaltStep
<1> QED
  BY <1>1, <1>2, <1>3

\* An attempt is a launch of its slot that the promise allows.
LEMMA LaunchStep ==
  ASSUME Inv, NEW p \in Schedulers, CreateAttempt(p)
  PROVE  StopStep /\ PromiseStep
<1> DEFINE s == sched[p].slot
           new == CHOOSE e \in Unborn : TRUE
           old == AttemptsOf(episode, s)
<1>1. /\ sched[p].pc = "create" /\ sched[p] \in SchedState /\ PassOK(sched[p]) /\ s \in Slots
      /\ UNCHANGED <<spent, stopFile>>
  BY DEF CreateAttempt, Inv, IInv, TypeOK, PassOK
<1>2. new \in Episodes /\ episode[new].slot = 0
  BY DEF CreateAttempt, Unborn
<1>3. episode' = [episode EXCEPT ![new].slot = s]
  BY DEF CreateAttempt
<1>4. ~Halted
  BY <1>1 DEF PassOK
<1> HIDE DEF new
<1>5. /\ \A e \in Episodes : e # new => episode'[e] = episode[e]
      /\ episode'[new].slot = s
      /\ episode'[new].outcome = episode[new].outcome /\ episode'[new].reason = episode[new].reason
  BY <1>2, <1>3 DEF Inv, TypeOK, View, Attempt
<1>6. ~Halted'
  <2>1. Refusals(episode') = Refusals(episode)
    BY <1>2, <1>5 DEF Refusals
  <2> QED
    BY <2>1, <1>1, <1>4 DEF Halted
<1>7. Failed(episode') = Failed(episode)
  BY <1>2, <1>5 DEF Failed
<1>8. /\ AttemptsOf(episode', s) = old \cup {new}
      /\ \A r \in Slots : r # s => AttemptsOf(episode', r) = AttemptsOf(episode, r)
  BY <1>1, <1>2, <1>5 DEF AttemptsOf
<1>9. old = {} \/ \E first \in Failed(episode) : old = {first}
  <2>1. /\ Cardinality(old) < 2
        /\ \A e \in old : e \in Failed(episode)
    <3>1. /\ old = AttemptsOf(sched[p].seen, s)
          /\ \A e \in Episodes : sched[p].seen[e].outcome = "INFRASTRUCTURE_FAILURE"
                                    => episode[e].outcome = "INFRASTRUCTURE_FAILURE"
      BY <1>1, SeenIsTrue DEF PassOK, SchedState
    <3> QED
      BY <3>1, <1>1 DEF PassOK, MayAttempt, AttemptsOf, Failed
  <2>2. IsFiniteSet(old)
    BY IdsAssumption, FS_Subset DEF AttemptsOf
  <2>3. Cardinality(old) \in Nat
    BY <2>2, FS_CardinalityType
  <2>4. Cardinality(old) = 0 \/ Cardinality(old) = 1
    BY <2>1, <2>3
  <2>5. CASE Cardinality(old) = 0
    BY <2>2, <2>5, FS_EmptySet
  <2>6. CASE Cardinality(old) = 1
    <3>1. PICK first : old = {first}
      BY <2>2, <2>6, FS_Singleton
    <3> QED
      BY <3>1, <2>1
  <2> QED
    BY <2>4, <2>5, <2>6
<1>10. new \notin UNION {AttemptsOf(episode, r) : r \in Slots}
  BY <1>2 DEF AttemptsOf
<1>11. Promise!Launch(s, new)
  <2> DEFINE attempts == [r \in Slots |-> AttemptsOf(episode, r)]
  <2>1. attempts' = [attempts EXCEPT ![s] = @ \cup {new}]
    BY <1>1, <1>8
  <2>2. new \notin UNION {attempts[r] : r \in Slots}
    BY <1>10
  <2>3. attempts[s] = {} \/ \E first \in Failed(episode) : attempts[s] = {first}
    BY <1>1, <1>9
  <2>4. Halted' = Halted
    BY <1>4, <1>6 DEF Halted
  <2> QED
    BY <1>4, <1>7, <2>1, <2>2, <2>3, <2>4 DEF Promise!Launch, Promise!Launched, Promise!Replaceable, Failed
<1>12. PromiseStep
  BY <1>1, <1>2, <1>11 DEF PromiseStep, Promise!Next
<1>13. StopStep
  BY <1>1, <1>4 DEF StopStep, Halted
<1> QED
  BY <1>12, <1>13

\* A terminal fails its attempt, halts the campaign, or is not seen.
LEMMA EndStep ==
  ASSUME Inv, NEW e \in Episodes, NEW outcome \in Outcomes \cup {None}, NEW reason \in EndReasons \cup {None},
         episode[e].slot \in Slots, ~Terminated(episode, e), outcome = None => reason = None,
         outcome = "INFRASTRUCTURE_FAILURE" => reason \notin CampaignReasons,
         episode' = [episode EXCEPT ![e] = [@ EXCEPT !.outcome = outcome, !.reason = reason]],
         UNCHANGED <<spent, stopFile>>
  PROVE  StopStep /\ PromiseStep
<1>1. /\ \A f \in Episodes : f # e => episode'[f] = episode[f]
      /\ episode'[e].slot = episode[e].slot
      /\ episode'[e].outcome = outcome /\ episode'[e].reason = reason
      /\ \A s \in Slots : AttemptsOf(episode', s) = AttemptsOf(episode, s)
  <2>1. episode[e].slot # 0
    OBVIOUS
  <2> QED
    BY <2>1, TerminalKeepsSlots, ZenonT(40)
<1>2. /\ episode[e].outcome = None /\ episode[e].reason = None
      /\ None \notin CampaignReasons /\ None \notin Outcomes
  BY NoneIsNothing DEF Inv, IInv, EpisodesOK, Terminated
<1>3. Refusals(episode') = Refusals(episode) \cup {f \in {e} : reason \in CampaignReasons}
  BY <1>1, <1>2 DEF Refusals
<1>4. Failed(episode') = Failed(episode) \cup {f \in {e} : outcome = "INFRASTRUCTURE_FAILURE"}
  BY <1>1, <1>2 DEF Failed, Outcomes
<1>5. Halted => Halted'
  BY <1>3 DEF Halted
<1>6. StopStep
  BY <1>1, <1>5 DEF StopStep
<1>7. [s \in Slots |-> AttemptsOf(episode, s)]' = [s \in Slots |-> AttemptsOf(episode, s)]
  BY <1>1
<1>8. CASE outcome = "INFRASTRUCTURE_FAILURE"
  <2>1. Refusals(episode') = Refusals(episode) /\ Failed(episode') = Failed(episode) \cup {e}
    BY <1>3, <1>4, <1>8
  <2>2. Halted' = Halted
    BY <2>1 DEF Halted
  <2>3. e \in UNION {AttemptsOf(episode, r) : r \in Slots}
    BY DEF AttemptsOf
  <2>4. e \in UNION {[s \in Slots |-> AttemptsOf(episode, s)][r] : r \in Slots}
    BY <2>3
  <2>5. Promise!Fail(e)
    BY <1>7, <2>1, <2>2, <2>4 DEF Promise!Fail, Promise!Launched, Failed
  <2> QED
    BY <1>6, <2>5 DEF PromiseStep, Promise!Next
<1>9. CASE outcome # "INFRASTRUCTURE_FAILURE" /\ reason \in CampaignReasons
  <2>1. Failed(episode') = Failed(episode)
    BY <1>4, <1>9
  <2>2. Halted'
    BY <1>3, <1>9 DEF Halted
  <2>3. Halted' = TRUE
    BY <2>2 DEF Halted
  <2>4. Promise!Halt
    BY <1>7, <2>1, <2>3 DEF Promise!Halt, Failed
  <2> QED
    BY <1>6, <2>4 DEF PromiseStep, Promise!Next
<1>10. CASE outcome # "INFRASTRUCTURE_FAILURE" /\ reason \notin CampaignReasons
  <2>1. Failed(episode') = Failed(episode) /\ Refusals(episode') = Refusals(episode)
    BY <1>3, <1>4, <1>10
  <2>2. Halted' = Halted
    BY <2>1 DEF Halted
  <2> QED
    BY <1>6, <1>7, <2>1, <2>2 DEF PromiseStep, Promise!vars, Failed
<1> QED
  BY <1>8, <1>9, <1>10

LEMMA EndAttemptStep ==
  ASSUME Inv, NEW p \in Schedulers, EndAttempt(p)
  PROVE  StopStep /\ PromiseStep
<1> DEFINE e == sched[p].episode
<1>1. /\ e \in Episodes /\ episode[e].slot \in Slots /\ UNCHANGED <<spent, stopFile>>
  BY DEF EndAttempt, Inv, IInv, TypeOK, PassOK
<1>2. CASE Terminated(episode, e)
  <2>1. UNCHANGED <<episode, spent, stopFile>>
    BY <1>1, <1>2 DEF EndAttempt
  <2> QED
    BY <2>1, Unseen DEF StopStep, Halted, Refusals
<1>3. CASE ~Terminated(episode, e)
  <2>1. PICK end \in Ends(p) : episode' = [episode EXCEPT ![e] = [@ EXCEPT !.outcome = end[1], !.reason = end[2]]]
    BY <1>3 DEF EndAttempt
  <2> DEFINE outcome == end[1]
             reason == end[2]
  <2>2. /\ outcome \in Outcomes \cup {None} /\ reason \in EndReasons \cup {None}
        /\ outcome = None => reason = None
        /\ outcome = "INFRASTRUCTURE_FAILURE" => reason \notin CampaignReasons
        /\ episode' = [episode EXCEPT ![e] = [@ EXCEPT !.outcome = outcome, !.reason = reason]]
    BY <2>1, NoneIsNothing DEF Ends, Outcomes, EndReasons, CampaignReasons
  <2> HIDE DEF outcome, reason
  <2> QED
    BY <1>1, <1>3, <2>2, EndStep
<1> QED
  BY <1>2, <1>3

LEMMA RecoverStep ==
  ASSUME Inv, NEW e \in Episodes, Recover(e)
  PROVE  StopStep /\ PromiseStep
<1>1. /\ episode[e].slot \in Slots /\ ~Terminated(episode, e) /\ UNCHANGED <<spent, stopFile>>
      /\ episode' = [episode EXCEPT ![e] = [@ EXCEPT !.outcome = "INFRASTRUCTURE_FAILURE",
                                                    !.reason = "PROCESS_INTERRUPTED"]]
  BY DEF Recover, Inv, TypeOK, View, Attempt
<1>2. /\ "INFRASTRUCTURE_FAILURE" \in Outcomes /\ "INFRASTRUCTURE_FAILURE" # None
      /\ "PROCESS_INTERRUPTED" \in EndReasons /\ "PROCESS_INTERRUPTED" \notin CampaignReasons
  BY NoneIsNothing DEF Outcomes, EndReasons, CampaignReasons
<1> QED
  BY <1>1, <1>2, EndStep

LEMMA StepKeeps == Inv /\ [Next]_vars => StopStep /\ PromiseStep
<1> SUFFICES ASSUME Inv, [Next]_vars PROVE StopStep /\ PromiseStep
  OBVIOUS
<1>1. ASSUME UNCHANGED <<episode, spent, stopFile>> PROVE StopStep /\ PromiseStep
  BY <1>1, Unseen DEF StopStep, Halted, Refusals
<1>2. CASE UNCHANGED vars
  BY <1>1, <1>2 DEF vars
<1>3. ASSUME NEW p \in Schedulers,
             \/ Enqueue(p) \/ Acquire(p) \/ Reconcile(p) \/ SkipSlot(p) \/ EndPass(p) \/ Reread(p)
             \/ Abandon(p) \/ RequestStop(p) \/ (Preflight(p) /\ Affordable(sched[p].slot))
      PROVE  StopStep /\ PromiseStep
  BY <1>1, <1>3 DEF Enqueue, Acquire, Reconcile, SkipSlot, EndPass, Reread, Abandon, RequestStop, Preflight
<1>4. ASSUME NEW p \in Schedulers, Record(p) \/ (Preflight(p) /\ ~Affordable(sched[p].slot))
      PROVE  StopStep /\ PromiseStep
  BY <1>4, StopsRecorded
<1>5. ASSUME NEW p \in Schedulers, Spend(p) PROVE StopStep /\ PromiseStep
  <2>1. ~Halted /\ UNCHANGED <<episode, stopFile>>
    BY <1>5 DEF Spend, Inv, IInv, PassOK
  <2> QED
    BY <2>1, Unseen DEF StopStep, Halted
<1>6. ASSUME NEW p \in Schedulers, CreateAttempt(p) \/ EndAttempt(p) PROVE StopStep /\ PromiseStep
  BY <1>6, LaunchStep, EndAttemptStep
<1>7. ASSUME NEW e \in Episodes, Recover(e) PROVE StopStep /\ PromiseStep
  BY <1>7, RecoverStep
<1>8. CASE ReportRead
  BY <1>1, <1>8 DEF ReportRead
<1>9. CASE ReportRecord
  BY <1>9, StopsRecorded
<1> QED
  BY <1>2, <1>3, <1>4, <1>5, <1>6, <1>7, <1>8, <1>9 DEF Next, PassStep

\* Once a refusal or a stop is on disk nothing is launched or spent, and stop.json
\* is never replaced.
THEOREM HaltedForGood == Spec => StopsAreFinal
<1>1. Inv /\ [Next]_vars => [StopStep]_vars
  BY StepKeeps
<1>2. Spec => []Inv
  BY IndInit, IndStep, PTL DEF Spec
<1> QED
  BY <1>1, <1>2, PTL DEF Spec, StopsAreFinal, StopStep

\* A campaign keeps the promise of its schedule: one replacement, after a failure,
\* and nothing after a halt.
THEOREM PromiseKept == Spec => KeepsPromise
<1>1. Init => Promise!Init
  <2> SUFFICES ASSUME Init PROVE Promise!Init
    OBVIOUS
  <2>1. \A e \in Episodes : episode[e] = NoEpisode
    BY DEF Init
  <2>2. \A s \in Slots : AttemptsOf(episode, s) = {}
    BY <2>1 DEF AttemptsOf, NoEpisode
  <2>3. {e \in Episodes : episode[e].outcome = "INFRASTRUCTURE_FAILURE"} = {}
    BY <2>1, NoneIsNothing DEF NoEpisode, Outcomes
  <2>4. ~Halted
    BY <2>1, NoneIsNothing DEF Halted, Refusals, NoEpisode, Init
  <2>5. Halted = FALSE
    BY <2>4 DEF Halted
  <2> QED
    BY <2>2, <2>3, <2>5 DEF Promise!Init
<1>2. Inv /\ [Next]_vars => [Promise!Next]_(Promise!vars)
  BY StepKeeps DEF PromiseStep
<1>3. Spec => []Inv
  BY IndInit, IndStep, PTL DEF Spec
<1> QED
  BY <1>1, <1>2, <1>3, PTL DEF Spec, KeepsPromise, Promise!Spec
=============================================================================
