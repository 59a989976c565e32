----------------------------- MODULE EpisodeStore -----------------------------
(***************************************************************************)
(* storage/journal.py: the directory, the hash-chained events.jsonl, the   *)
(* summary file and the index row of each episode, written by several      *)
(* processes, each with a Store object that caches the heads it wrote.     *)
(* Each process does one operation at a time and may die at any step.      *)
(***************************************************************************)
EXTENDS Integers, Sequences

CONSTANTS
  Stores,      \* processes with a Store
  Episodes,
  None,
  MaxLines,    \* bound: lines of a journal, its terminal included
  LiveBeside,  \* recovery may run while other processes use the store
  DiskFails,   \* a write may raise
  MaxFaults    \* bound: processes killed and writes that raise

ASSUME BoundAssumption == MaxLines \in Nat \ {0} /\ MaxFaults \in Nat
ASSUME SwitchAssumption == LiveBeside \in BOOLEAN /\ DiskFails \in BOOLEAN

VARIABLES
  (* the disk *)
  dir,      \* how far the creation of an episode's files has come
  file,     \* whole lines of events.jsonl
  torn,     \* events.jsonl ends in a partial line
  summary,  \* summary.json exists
  index,    \* the row of index.sqlite3: absent, open (no summary) or ended
  (* the processes *)
  heads,    \* _heads of each Store
  proc,     \* the operation in progress
  faults    \* how many there were

disk == <<dir, file, torn, summary, index>>
vars == <<disk, heads, proc, faults>>

-----------------------------------------------------------------------------
(***************************************************************************)
(* Lines and heads.  A line's hash covers its content, here its sequence   *)
(* number and its author.                                                  *)
(***************************************************************************)
Genesis == [seq |-> -1, by |-> None]
Hash(line) == [seq |-> line.seq, by |-> line.by]
HashAt(lines, n) == IF n = 0 THEN Genesis ELSE Hash(lines[n])
Ends(lines) == \E i \in DOMAIN lines : lines[i].terminal

(* What append needs to know of the first n lines, and of all of them.     *)
HeadAt(lines, n) ==
  [count |-> n, last |-> HashAt(lines, n), ended |-> \E i \in 1..n : lines[i].terminal]

\* Mutant: the count is that of the last sequence number.
JournalHead_Sequence(lines) == [HeadAt(lines, Len(lines)) EXCEPT !.count = @ - 1]
JournalHead(lines) == HeadAt(lines, Len(lines))

(* The line append writes after the head it believes in.                   *)
NewLine(p, head, terminal) ==
  [seq |-> head.count, previous |-> head.last, by |-> p, terminal |-> terminal]

(* A line written behind a partial one completes that one: no JSON.        *)
Garbled(line) == [line EXCEPT !.previous = Genesis, !.seq = -1]

Chained(lines) ==
  \A i \in DOMAIN lines :
    lines[i].seq = i - 1 /\ lines[i].previous = HashAt(lines, i - 1)

(* Store.events raises otherwise.                                          *)
Readable(e) == ~torn[e] /\ Chained(file[e])

(* The part of the file's identity that does not depend on a clock: its    *)
(* size.                                                                   *)
Size(e) == 2 * Len(file[e]) + (IF torn[e] THEN 1 ELSE 0)

(* What a Store caches of a journal.                                       *)
HashType == [seq : Nat \cup {-1}, by : Stores \cup {None}]
HeadType == [count : Nat, last : HashType, ended : BOOLEAN]
CacheEntry == [size : Nat, head : HeadType]

ASSUME NoneAssumption == None \notin Stores \cup Episodes \cup HeadType \cup CacheEntry

-----------------------------------------------------------------------------
(***************************************************************************)
(* A process: its operation, the episode it is at, the episodes recover    *)
(* has not visited and the head or row it computed.                        *)
(***************************************************************************)
Idle == [pc |-> "idle", op |-> "none", e |-> None, todo |-> {}, head |-> None, row |-> "absent"]

At(p, pc) == proc[p].pc = pc
Go(p, pc) == proc' = [proc EXCEPT ![p].pc = pc]

(* events.jsonl is written with the writer lock held.                      *)
InLock(p) == proc[p].pc \in {"write", "rest", "note"}
Locked(e) == \E p \in Stores : proc[p].e = e /\ InLock(p)

(* append writes an event, finish and recover a terminal.                  *)
Terminal(p) == proc[p].op # "append"

Recovering(p) == proc[p].op = "recover"

(* Without LiveBeside a recovery runs alone.                               *)
MayStart(p, op) ==
  \/ LiveBeside
  \/ \A q \in Stores \ {p} : ~Recovering(q) /\ (op = "recover" => At(q, "idle"))

Start(p, op, pc, e, todo) ==
  /\ At(p, "idle")
  /\ MayStart(p, op)
  /\ proc' = [proc EXCEPT ![p] = [Idle EXCEPT !.pc = pc, !.op = op, !.e = e, !.todo = todo]]

(* The operation is over, or recover goes on with the next episode.        *)
Done(p) ==
  IF Recovering(p)
  THEN proc' = [proc EXCEPT ![p] = [Idle EXCEPT !.pc = "scan", !.op = "recover", !.todo = proc[p].todo]]
  ELSE proc' = [proc EXCEPT ![p] = Idle]

(* An exception ends the operation, and recovery of every later episode.   *)
Raise(p) ==
  proc' = [proc EXCEPT ![p] = IF Recovering(p) THEN [Idle EXCEPT !.pc = "raised"] ELSE Idle]

(* The calls of a client: create, append and finish of a known episode.    *)
Known(e) == dir[e] = "ready" /\ index[e] # "absent"

-----------------------------------------------------------------------------
(***************************************************************************)
(* Store.create, one file system step at a time.                           *)
(***************************************************************************)
Create(p, e) ==
  /\ dir[e] = "none"
  /\ Start(p, "create", "create", e, {})
  /\ dir' = [dir EXCEPT ![e] = "public"]
  /\ UNCHANGED <<file, torn, summary, index, heads, faults>>

CreateNext ==
  [public |-> "private", private |-> "partial", partial |-> "manifest", manifest |-> "ready"]

CreateStep(p) ==
  /\ At(p, "create")
  /\ LET e == proc[p].e IN
       /\ dir' = [dir EXCEPT ![e] = CreateNext[@]]
       /\ Go(p, IF dir[e] = "manifest" THEN "reindex" ELSE "create")
  /\ UNCHANGED <<file, torn, summary, index, heads, faults>>

(***************************************************************************)
(* Store.append: with the lock held, find the head, write, remember.       *)
(***************************************************************************)
\* Mutant: a cached head is believed whatever became of the file.
Cached_Any(p, e) == heads[p][e] # None
Cached(p, e) == heads[p][e] # None /\ heads[p][e].size = Size(e)

HeadOf(p, e) == IF Cached(p, e) THEN heads[p][e].head ELSE JournalHead(file[e])

\* Mutant: only an unreadable journal is refused, not an ended one.
Refused_Unreadable(p, e) == ~Cached(p, e) /\ ~Readable(e)
Refused(p, e) == (~Cached(p, e) /\ ~Readable(e)) \/ HeadOf(p, e).ended

(* append raises, or takes the lock and knows its head.                    *)
Prepare(p, e, hand) ==
  /\ ~Locked(e)
  /\ proc' = [proc EXCEPT ![p] =
       IF Refused(p, e)
       THEN IF hand.op = "recover" THEN [Idle EXCEPT !.pc = "raised"] ELSE Idle
       ELSE [hand EXCEPT !.pc = "write", !.e = e, !.head = HeadOf(p, e)]]
  /\ UNCHANGED <<disk, heads, faults>>

AppendEvent(p, e) ==
  /\ At(p, "idle") /\ Known(e) /\ MayStart(p, "append")
  /\ Len(file[e]) < MaxLines - 1
  /\ Prepare(p, e, [Idle EXCEPT !.op = "append"])

Finish(p, e) ==
  /\ At(p, "idle") /\ Known(e) /\ MayStart(p, "finish")
  /\ Prepare(p, e, [Idle EXCEPT !.op = "finish"])

WritePart(p) ==
  /\ At(p, "write") /\ ~torn[proc[p].e]
  /\ torn' = [torn EXCEPT ![proc[p].e] = TRUE]
  /\ Go(p, "rest")
  /\ UNCHANGED <<dir, file, summary, index, heads, faults>>

WriteLine(p) ==
  /\ proc[p].pc \in {"write", "rest"}
  /\ LET e == proc[p].e
         line == NewLine(p, proc[p].head, Terminal(p)) IN
       /\ file' = [file EXCEPT ![e] =
            Append(@, IF At(p, "write") /\ torn[e] THEN Garbled(line) ELSE line)]
       /\ torn' = [torn EXCEPT ![e] = FALSE]
  /\ Go(p, "note")
  /\ UNCHANGED <<dir, summary, index, heads, faults>>

(* The stamp is taken after the write, under the lock.                     *)
Note(p) ==
  /\ At(p, "note")
  /\ LET e == proc[p].e
         head == proc[p].head IN
       /\ heads' = [heads EXCEPT ![p][e] =
            [size |-> Size(e),
             head |-> [count |-> head.count + 1,
                       last |-> Hash(NewLine(p, head, Terminal(p))),
                       ended |-> Terminal(p)]]]
       /\ IF Terminal(p) THEN Go(p, "summary") ELSE Done(p)
  /\ UNCHANGED <<disk, faults>>

Fault == faults < MaxFaults /\ faults' = faults + 1

(* An OSError of write, flush or fsync: nothing, part or all of the line   *)
(* is on disk and the head is not remembered.                              *)
\* Mutant: the new head is remembered before the line is written.
WriteFails_Remembered(p) ==
  /\ DiskFails /\ Fault
  /\ InLock(p)
  /\ LET head == proc[p].head IN
       heads' = [heads EXCEPT ![p][proc[p].e] =
         [size |-> 2 * head.count + 2,
          head |-> [count |-> head.count + 1, last |-> head.last, ended |-> FALSE]]]
  /\ Raise(p)
  /\ UNCHANGED disk

WriteFails(p) ==
  /\ DiskFails /\ Fault
  /\ InLock(p)
  /\ Raise(p)
  /\ UNCHANGED <<disk, heads>>

(***************************************************************************)
(* Store.finish after its append, and Store.reindex: read, then insert.    *)
(***************************************************************************)
WriteSummary(p) ==
  /\ At(p, "summary")
  /\ LET e == proc[p].e IN
       IF Readable(e) /\ ~summary[e]
       THEN summary' = [summary EXCEPT ![e] = TRUE] /\ Go(p, "reindex")
       ELSE Raise(p) /\ UNCHANGED summary
  /\ UNCHANGED <<dir, file, torn, index, heads, faults>>

Row(e) == IF Ends(file[e]) THEN "ended" ELSE "open"

ReadRow(p) ==
  /\ At(p, "reindex")
  /\ LET e == proc[p].e IN
       IF Readable(e)
       THEN proc' = [proc EXCEPT ![p].pc = "insert", ![p].row = Row(e)]
       ELSE Raise(p)
  /\ UNCHANGED <<disk, heads, faults>>

InsertRow(p) ==
  /\ At(p, "insert")
  /\ index' = [index EXCEPT ![proc[p].e] = proc[p].row]
  /\ Done(p)
  /\ UNCHANGED <<dir, file, torn, summary, heads, faults>>

(***************************************************************************)
(* Store.recover: every directory that exists when it starts; the lock is  *)
(* held to cut the partial line, not to read and not until the terminal.   *)
(***************************************************************************)
Recover(p) ==
  /\ Start(p, "recover", "scan", None, {e \in Episodes : dir[e] # "none"})
  /\ UNCHANGED <<disk, heads, faults>>

RecoverNext(p) ==
  /\ At(p, "scan")
  /\ IF proc[p].todo = {}
     THEN proc' = [proc EXCEPT ![p] = Idle]
     ELSE \E e \in proc[p].todo :
            proc' = [proc EXCEPT ![p].pc = "cut", ![p].e = e, ![p].todo = @ \ {e}]
  /\ UNCHANGED <<disk, heads, faults>>

\* Mutant: without a partial line the last whole one is cut.
Cut_LastLine(p) ==
  /\ At(p, "cut") /\ ~Locked(proc[p].e)
  /\ LET e == proc[p].e IN
       /\ file' = [file EXCEPT ![e] = IF torn[e] \/ @ = <<>> THEN @ ELSE SubSeq(@, 1, Len(@) - 1)]
       /\ torn' = [torn EXCEPT ![e] = FALSE]
  /\ Go(p, "read")
  /\ UNCHANGED <<dir, summary, index, heads, faults>>

\* Mutant: recovery leaves the partial line.
Cut_Nothing(p) ==
  /\ At(p, "cut") /\ ~Locked(proc[p].e)
  /\ Go(p, "read")
  /\ UNCHANGED <<disk, heads, faults>>

Cut(p) ==
  /\ At(p, "cut") /\ ~Locked(proc[p].e)
  /\ torn' = [torn EXCEPT ![proc[p].e] = FALSE]
  /\ Go(p, "read")
  /\ UNCHANGED <<dir, file, summary, index, heads, faults>>

HasManifest(e) == dir[e] \in {"manifest", "ready"}

RecoverRead(p) ==
  /\ At(p, "read")
  /\ LET e == proc[p].e IN
       IF Readable(e) /\ (Ends(file[e]) \/ HasManifest(e))
       THEN Go(p, IF Ends(file[e]) THEN "reindex" ELSE "finish")
       ELSE Raise(p)
  /\ UNCHANGED <<disk, heads, faults>>

RecoverFinish(p) ==
  /\ At(p, "finish")
  /\ Prepare(p, proc[p].e, proc[p])

(* The traceback has been printed.                                         *)
Dismiss(p) ==
  /\ At(p, "raised")
  /\ proc' = [proc EXCEPT ![p] = Idle]
  /\ UNCHANGED <<disk, heads, faults>>

(***************************************************************************)
(* The environment.                                                        *)
(***************************************************************************)
Crash(p) ==
  /\ Fault
  /\ proc' = [proc EXCEPT ![p] = Idle]
  /\ heads' = [heads EXCEPT ![p] = [e \in Episodes |-> None]]
  /\ UNCHANGED disk

(* index.sqlite3 is deleted while nobody uses it.                          *)
LoseIndex ==
  /\ \A p \in Stores : At(p, "idle")
  /\ index' = [e \in Episodes |-> "absent"]
  /\ UNCHANGED <<dir, file, torn, summary, heads, proc, faults>>

-----------------------------------------------------------------------------
Init ==
  /\ dir = [e \in Episodes |-> "none"]
  /\ file = [e \in Episodes |-> <<>>]
  /\ torn = [e \in Episodes |-> FALSE]
  /\ summary = [e \in Episodes |-> FALSE]
  /\ index = [e \in Episodes |-> "absent"]
  /\ heads = [p \in Stores |-> [e \in Episodes |-> None]]
  /\ proc = [p \in Stores |-> Idle]
  /\ faults = 0

Client(p) == \E e \in Episodes : Create(p, e) \/ AppendEvent(p, e) \/ Finish(p, e)

Working(p) ==
  \/ CreateStep(p) \/ WritePart(p) \/ WriteLine(p) \/ Note(p)
  \/ WriteSummary(p) \/ ReadRow(p) \/ InsertRow(p)
  \/ RecoverNext(p) \/ Cut(p) \/ RecoverRead(p) \/ RecoverFinish(p) \/ Dismiss(p)

Next ==
  \/ \E p \in Stores :
       Client(p) \/ Recover(p) \/ Working(p) \/ WriteFails(p) \/ Crash(p)
  \/ LoseIndex

Spec == Init /\ [][Next]_vars

(* A process keeps stepping, and the operator runs recovery again and      *)
(* again.  After the last fault a pass is not interrupted.                 *)
FairSpec == Spec /\ \A p \in Stores : WF_vars(Working(p)) /\ SF_vars(Recover(p))

-----------------------------------------------------------------------------
Line == [seq : Nat \cup {-1}, previous : HashType, by : Stores, terminal : BOOLEAN]
Rows == {"absent", "open", "ended"}
Places ==
  {"idle", "create", "write", "rest", "note", "summary", "reindex", "insert",
   "scan", "cut", "read", "finish", "raised"}
ProcState ==
  [pc : Places,
   op : {"none", "create", "append", "finish", "recover"},
   e : Episodes \cup {None}, todo : SUBSET Episodes, head : HeadType \cup {None}, row : Rows]

(* A process that is at an episode has one, and in the lock it has a head. *)
AtEpisode(p) ==
  /\ proc[p].pc \notin {"idle", "scan", "raised"} => proc[p].e \in Episodes
  /\ InLock(p) => proc[p].head \in HeadType

(* Every variable stays in its type.                                       *)
TypeOK ==
  /\ dir \in [Episodes -> {"none", "public", "private", "partial", "manifest", "ready"}]
  /\ file \in [Episodes -> Seq(Line)]
  /\ torn \in [Episodes -> BOOLEAN]
  /\ summary \in [Episodes -> BOOLEAN]
  /\ index \in [Episodes -> Rows]
  /\ heads \in [Stores -> [Episodes -> CacheEntry \cup {None}]]
  /\ proc \in [Stores -> ProcState]
  /\ faults \in Nat
  /\ \A p \in Stores : AtEpisode(p)

(* The hash chain holds in every journal, whoever wrote it and whatever    *)
(* head they had cached (append, events).                                  *)
ChainIntact == \A e \in Episodes : Chained(file[e])

(* A cached head is the head of the lines it was taken after, which are    *)
(* still the first lines of the file; so while the size is the same the    *)
(* head is, and neither inode nor times are needed to tell (append).       *)
HeadsAreOld ==
  \A p \in Stores, e \in Episodes :
    heads[p][e] # None =>
      LET count == heads[p][e].head.count IN
        /\ count <= Len(file[e])
        /\ heads[p][e] = [size |-> 2 * count, head |-> HeadAt(file[e], count)]

(* A terminal seals the episode: no partial line follows it, a summary     *)
(* file comes only after it, and the finish that wrote it always finds the *)
(* journal readable and no summary file in its way (finish: "x" mode).     *)
Sealed ==
  /\ \A e \in Episodes : Ends(file[e]) => ~torn[e]
  /\ \A e \in Episodes : summary[e] => Ends(file[e])
  /\ \A p \in Stores : At(p, "summary") =>
       Ends(file[proc[p].e]) /\ Readable(proc[p].e) /\ ~summary[proc[p].e]

(* What makes these hold: a process in the lock is alone there and its     *)
(* head is the journal's; only one process creates and only one closes an  *)
(* episode; a row in hand was true when it was read.                       *)
HeadInHand ==
  \A p \in Stores : InLock(p) =>
    LET e == proc[p].e
        head == proc[p].head IN
      /\ ~head.ended
      /\ \A q \in Stores \ {p} : InLock(q) => proc[q].e # e
      /\ At(p, "note") =>
           /\ ~torn[e] /\ Len(file[e]) = head.count + 1
           /\ head = HeadAt(file[e], head.count)
           /\ file[e][Len(file[e])] = NewLine(p, head, Terminal(p))
      /\ ~At(p, "note") => head = JournalHead(file[e]) /\ (torn[e] <=> At(p, "rest"))

OneCreates ==
  \A p \in Stores : At(p, "create") =>
    /\ dir[proc[p].e] \in DOMAIN CreateNext
    /\ \A q \in Stores \ {p} : At(q, "create") => proc[q].e # proc[p].e

Closing(p) == At(p, "summary") \/ (At(p, "note") /\ Terminal(p))

OneCloses ==
  \A p \in Stores : Closing(p) =>
    /\ ~summary[proc[p].e]
    /\ \A q \in Stores \ {p} : Closing(q) => proc[q].e # proc[p].e

RowsAreTrue ==
  /\ \A e \in Episodes : index[e] = "ended" => Ends(file[e])
  /\ \A p \in Stores : At(p, "insert") =>
       proc[p].row # "absent" /\ (proc[p].row = "ended" => Ends(file[proc[p].e]))

(* The inductive invariant.                                                *)
IInv ==
  /\ ChainIntact /\ HeadsAreOld /\ Sealed
  /\ HeadInHand /\ OneCreates /\ OneCloses /\ RowsAreTrue

(* Of each line the promise is about whether it ends the journal.          *)
Entries(lines) == [i \in DOMAIN lines |-> lines[i].terminal]

Log == INSTANCE EpisodeLog WITH
  log <- [e \in Episodes |-> Entries(file[e])],
  listed <- index

(* Journal and index keep the store's promise: one line at a time, nothing *)
(* removed, nothing after a terminal, and no row that runs ahead of the    *)
(* journal (append, reindex, recover).                                     *)
KeepsLog == Log!Spec

(* Every episode with a manifest is listed as ended in the end, though its *)
(* worker died, lines were torn and the index was lost -- unless the       *)
(* directory of some episode is only half created.                         *)
HalfCreated(e) == dir[e] \in {"public", "private", "partial"}
IndexCatchesUp ==
  \A e \in Episodes :
    HasManifest(e) ~> (index[e] = "ended" \/ \E f \in Episodes : HalfCreated(f))
=============================================================================
