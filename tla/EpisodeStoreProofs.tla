-------------------------- MODULE EpisodeStoreProofs --------------------------
(***************************************************************************)
(* Proofs about EpisodeStore, for any number of processes and episodes,    *)
(* journals of any length, and any faults.                                 *)
(***************************************************************************)
EXTENDS EpisodeStore, TLAPS

Inv == TypeOK /\ IInv

-----------------------------------------------------------------------------
(***************************************************************************)
(* Lines and heads.                                                        *)
(***************************************************************************)

\* A new line leaves the earlier lines, their heads and hashes alone.
LEMMA AppendKeepsLines ==
  ASSUME NEW lines \in Seq(Line), NEW line \in Line
  PROVE  /\ Append(lines, line) \in Seq(Line)
         /\ Len(Append(lines, line)) = Len(lines) + 1
         /\ Append(lines, line)[Len(lines) + 1] = line
         /\ \A i \in 1..Len(lines) : Append(lines, line)[i] = lines[i]
  OBVIOUS

\* The head of the first lines survives an append.
LEMMA AppendKeepsHeads ==
  ASSUME NEW lines \in Seq(Line), NEW line \in Line, NEW n \in 0..Len(lines)
  PROVE  HeadAt(Append(lines, line), n) = HeadAt(lines, n)
<1>1. \A i \in 1..n : Append(lines, line)[i] = lines[i]
  BY AppendKeepsLines
<1>2. HashAt(Append(lines, line), n) = HashAt(lines, n)
  BY <1>1 DEF HashAt
<1>3. (\E i \in 1..n : Append(lines, line)[i].terminal) <=> (\E i \in 1..n : lines[i].terminal)
  BY <1>1
<1> QED
  BY <1>2, <1>3 DEF HeadAt

\* Whether a journal has ended is what its head says.
LEMMA HeadEnds ==
  ASSUME NEW lines \in Seq(Line)
  PROVE  /\ JournalHead(lines).ended <=> Ends(lines)
         /\ JournalHead(lines).count = Len(lines)
  BY DEF JournalHead, HeadAt, Ends

\* A head has its type.
LEMMA HeadTypes ==
  ASSUME NEW lines \in Seq(Line), NEW n \in 0..Len(lines)
  PROVE  HeadAt(lines, n) \in HeadType
<1>1. HashAt(lines, n) \in HashType
  <2>1. CASE n = 0
    BY <2>1 DEF HashAt, Genesis, HashType
  <2>2. CASE n # 0
    <3>1. lines[n] \in Line
      BY <2>2
    <3> QED
      BY <2>2, <3>1 DEF HashAt, Hash, HashType, Line
  <2> QED
    BY <2>1, <2>2
<1>2. PICK b \in BOOLEAN : b = (\E i \in 1..n : lines[i].terminal)
  OBVIOUS
<1>3. HeadAt(lines, n) = [count |-> n, last |-> HashAt(lines, n), ended |-> b]
  BY <1>2 DEF HeadAt
<1>4. [count |-> n, last |-> HashAt(lines, n), ended |-> b] \in HeadType
  BY <1>1 DEF HeadType
<1> QED
  BY <1>3, <1>4

\* The line append writes has its type and hash.
LEMMA NewLineTypes ==
  ASSUME NEW p \in Stores, NEW head \in HeadType, NEW terminal \in BOOLEAN
  PROVE  /\ NewLine(p, head, terminal) \in Line
         /\ NewLine(p, head, terminal).terminal = terminal
         /\ NewLine(p, head, terminal).seq = head.count
         /\ NewLine(p, head, terminal).previous = head.last
         /\ Hash(NewLine(p, head, terminal)) \in HashType
         /\ Garbled(NewLine(p, head, terminal)) \in Line
  BY DEF NewLine, Line, HeadType, HashType, Hash, Garbled, Genesis

\* A line that continues the head keeps the chain.
LEMMA AppendChains ==
  ASSUME NEW lines \in Seq(Line), NEW p \in Stores, NEW terminal \in BOOLEAN, Chained(lines)
  PROVE  Chained(Append(lines, NewLine(p, JournalHead(lines), terminal)))
<1> DEFINE head == JournalHead(lines)
           line == NewLine(p, head, terminal)
<1>0. head \in HeadType
  BY HeadTypes DEF JournalHead
<1>1. line \in Line /\ line.seq = Len(lines) /\ line.previous = HashAt(lines, Len(lines))
  BY <1>0, NewLineTypes DEF JournalHead, HeadAt
<1> SUFFICES ASSUME NEW i \in 1..(Len(lines) + 1)
             PROVE  /\ Append(lines, line)[i].seq = i - 1
                    /\ Append(lines, line)[i].previous = HashAt(Append(lines, line), i - 1)
  BY <1>1, AppendKeepsLines DEF Chained
<1>2. HashAt(Append(lines, line), i - 1) = HashAt(lines, i - 1)
  BY <1>1, AppendKeepsLines DEF HashAt
<1>3. CASE i \in 1..Len(lines)
  BY <1>1, <1>2, <1>3, AppendKeepsLines DEF Chained
<1>4. CASE i = Len(lines) + 1
  BY <1>1, <1>2, <1>4, AppendKeepsLines
<1> QED
  BY <1>3, <1>4

\* An append ends a journal exactly if the line is a terminal or it had ended.
LEMMA AppendEnds ==
  ASSUME NEW lines \in Seq(Line), NEW line \in Line
  PROVE  Ends(Append(lines, line)) <=> Ends(lines) \/ line.terminal
<1>1. DOMAIN Append(lines, line) = 1..(Len(lines) + 1) /\ DOMAIN lines = 1..Len(lines)
  OBVIOUS
<1>2. CASE Ends(lines)
  BY <1>1, <1>2, AppendKeepsLines DEF Ends
<1>3. CASE ~Ends(lines)
  <2>1. \A i \in 1..Len(lines) : ~Append(lines, line)[i].terminal
    BY <1>1, <1>3, AppendKeepsLines DEF Ends
  <2>2. \A i \in 1..(Len(lines) + 1) : i \in 1..Len(lines) \/ i = Len(lines) + 1
    OBVIOUS
  <2> QED
    BY <1>1, <1>3, <2>1, <2>2, AppendKeepsLines DEF Ends
<1> QED
  BY <1>2, <1>3

-----------------------------------------------------------------------------
(***************************************************************************)
(* Steps of one process.                                                   *)
(***************************************************************************)
Moved(p) ==
  /\ proc' \in [Stores -> ProcState]
  /\ \A q \in Stores \ {p} : proc'[q] = proc[q]

(* Where a process holds no lock, closes no episode and has no row in hand. *)
QuietPlaces == {"idle", "create", "reindex", "scan", "cut", "read", "finish", "raised"}

Quits(p) == Moved(p) /\ proc'[p].pc \in QuietPlaces /\ AtEpisode(p)'

\* A new state of one process leaves the others where they are.
LEMMA SetMoves ==
  ASSUME TypeOK, NEW p \in Stores, NEW s \in ProcState, proc' = [proc EXCEPT ![p] = s]
  PROVE  Moved(p) /\ proc'[p] = s
  BY DEF TypeOK, Moved

\* Going to another place keeps the rest of the process.
LEMMA GoMoves ==
  ASSUME TypeOK, NEW p \in Stores, NEW pc \in Places, Go(p, pc)
  PROVE  /\ Moved(p)
         /\ proc'[p].pc = pc
         /\ proc'[p].op = proc[p].op /\ proc'[p].e = proc[p].e
         /\ proc'[p].todo = proc[p].todo /\ proc'[p].head = proc[p].head
         /\ proc'[p].row = proc[p].row
<1>1. [proc[p] EXCEPT !.pc = pc] \in ProcState
  BY DEF TypeOK, ProcState
<1>2. proc' = [proc EXCEPT ![p] = [proc[p] EXCEPT !.pc = pc]]
  BY DEF Go, TypeOK
<1>3. Moved(p) /\ proc'[p] = [proc[p] EXCEPT !.pc = pc]
  BY <1>1, <1>2, SetMoves
<1>4. proc[p] \in ProcState
  BY DEF TypeOK
<1> QED
  BY <1>3, <1>4 DEF ProcState

\* A process with nothing in hand has its type.
LEMMA EmptyHands ==
  /\ Idle \in ProcState
  /\ \A pc \in Places, op \in {"none", "create", "append", "finish", "recover"},
        e \in Episodes \cup {None}, todo \in SUBSET Episodes :
       [Idle EXCEPT !.pc = pc, !.op = op, !.e = e, !.todo = todo] \in ProcState
  BY ZenonT(40) DEF Idle, ProcState, Places, Rows

\* A process that has no episode is in no lock.
LEMMA QuietHands ==
  ASSUME NEW p, proc'[p].pc \in QuietPlaces,
         proc'[p].pc \in {"idle", "scan", "raised"} \/ proc'[p].e \in Episodes
  PROVE  AtEpisode(p)'
  BY DEF AtEpisode, InLock, QuietPlaces

\* Starting an operation other than an append or finish holds nothing.
LEMMA StartQuits ==
  ASSUME TypeOK, NEW p \in Stores, NEW op \in {"create", "recover"},
         NEW pc \in {"create", "scan"}, NEW e \in Episodes \cup {None},
         NEW todo \in SUBSET Episodes, pc = "scan" \/ e \in Episodes, Start(p, op, pc, e, todo)
  PROVE  Quits(p) /\ proc'[p].pc = pc /\ proc'[p].e = e
<1> DEFINE s == [Idle EXCEPT !.pc = pc, !.op = op, !.e = e, !.todo = todo]
<1>1. s \in ProcState
  BY EmptyHands DEF Places
<1>2. s.pc = pc /\ s.e = e
  BY DEF Idle
<1>3. Moved(p) /\ proc'[p] = s
  BY <1>1, SetMoves DEF Start
<1>4. proc'[p].pc = pc /\ proc'[p].e = e
  BY <1>2, <1>3
<1>5. proc'[p].pc \in QuietPlaces
  BY <1>4 DEF QuietPlaces
<1>6. AtEpisode(p)'
  BY <1>4, <1>5, QuietHands
<1> QED
  BY <1>3, <1>4, <1>5, <1>6 DEF Quits

\* Neither does the end of an operation.
LEMMA DoneQuits ==
  ASSUME TypeOK, NEW p \in Stores, Done(p)
  PROVE  Quits(p) /\ proc'[p].pc # "create"
<1>1. proc[p].todo \in SUBSET Episodes
  BY DEF TypeOK, ProcState
<1> DEFINE s == [Idle EXCEPT !.pc = "scan", !.op = "recover", !.todo = proc[p].todo]
<1>2. s \in ProcState /\ s.pc = "scan"
  BY <1>1 DEF Idle, ProcState, Places, Rows
<1>3. Idle \in ProcState /\ Idle.pc = "idle"
  BY EmptyHands DEF Idle
<1>4. Moved(p) /\ proc'[p] \in {s, Idle}
  BY <1>2, <1>3, SetMoves DEF Done
<1>5. proc'[p].pc \in {"scan", "idle"}
  BY <1>2, <1>3, <1>4
<1>6. proc'[p].pc \in QuietPlaces
  BY <1>5 DEF QuietPlaces
<1>7. AtEpisode(p)'
  BY <1>5, <1>6, QuietHands
<1> QED
  BY <1>4, <1>5, <1>6, <1>7 DEF Quits

\* Neither does an exception.
LEMMA RaiseQuits ==
  ASSUME TypeOK, NEW p \in Stores, Raise(p)
  PROVE  Quits(p) /\ proc'[p].pc # "create"
<1> DEFINE s == [Idle EXCEPT !.pc = "raised"]
<1>1. s \in ProcState /\ s.pc = "raised"
  BY DEF Idle, ProcState, Places, Rows
<1>2. Idle \in ProcState /\ Idle.pc = "idle"
  BY EmptyHands DEF Idle
<1>3. Moved(p) /\ proc'[p] \in {s, Idle}
  BY <1>1, <1>2, SetMoves DEF Raise
<1>4. proc'[p].pc \in {"raised", "idle"}
  BY <1>1, <1>2, <1>3
<1>5. proc'[p].pc \in QuietPlaces
  BY <1>4 DEF QuietPlaces
<1>6. AtEpisode(p)'
  BY <1>4, <1>5, QuietHands
<1> QED
  BY <1>3, <1>4, <1>5, <1>6 DEF Quits

\* Neither does a step to a place without a lock.
LEMMA GoQuits ==
  ASSUME TypeOK, NEW p \in Stores, NEW pc \in QuietPlaces, proc[p].e \in Episodes, Go(p, pc)
  PROVE  Quits(p) /\ proc'[p].pc = pc /\ proc'[p].e = proc[p].e
<1>1. pc \in Places
  BY DEF QuietPlaces, Places
<1> QED
  BY <1>1, GoMoves, QuietHands DEF Quits

\* Neither does dropping everything.
LEMMA IdleQuits ==
  ASSUME TypeOK, NEW p \in Stores, proc' = [proc EXCEPT ![p] = Idle]
  PROVE  Quits(p) /\ proc'[p].pc # "create"
<1>1. Idle \in ProcState /\ Idle.pc = "idle"
  BY EmptyHands DEF Idle
<1>2. Moved(p) /\ proc'[p].pc = "idle"
  BY <1>1, SetMoves
<1>3. proc'[p].pc \in QuietPlaces
  BY <1>2 DEF QuietPlaces
<1> QED
  BY <1>2, <1>3, QuietHands DEF Quits

-----------------------------------------------------------------------------
(***************************************************************************)
(* Steps after which the process holds nothing keep the invariant, whatever *)
(* they do beside the lines of the journal: cut a partial line that nobody  *)
(* is writing, forget or learn heads, insert a true row.                    *)
(***************************************************************************)
\* See above.
LEMMA QuietKeeps ==
  ASSUME Inv, NEW p \in Stores, Quits(p),
         dir' \in [Episodes -> {"none", "public", "private", "partial", "manifest", "ready"}],
         file' = file, summary' = summary,
         torn' \in [Episodes -> BOOLEAN],
         index' \in [Episodes -> Rows],
         heads' \in [Stores -> [Episodes -> CacheEntry \cup {None}]],
         faults' \in Nat,
         \A e \in Episodes : torn'[e] = torn[e] \/ (~torn'[e] /\ ~Locked(e)),
         HeadsAreOld', OneCreates',
         \A e \in Episodes : index'[e] = "ended" => Ends(file[e])
  PROVE  Inv'
<1> USE DEF Inv, IInv
<1>0. \A q \in Stores : proc'[q].pc \notin QuietPlaces => q # p /\ proc'[q] = proc[q]
  BY DEF Quits, Moved
<1>1. TypeOK'
  <2>1. \A q \in Stores : AtEpisode(q)'
    BY DEF Quits, Moved, TypeOK, AtEpisode, InLock
  <2> QED
    BY <2>1 DEF TypeOK, Quits, Moved
<1>2. ChainIntact'
  BY DEF ChainIntact
<1>3. HeadsAreOld'
  OBVIOUS
<1>4. \A q \in Stores : (At(q, "summary"))' => At(q, "summary") /\ proc'[q] = proc[q]
  BY <1>0 DEF At, QuietPlaces
<1>5. \A q \in Stores : InLock(q)' => InLock(q) /\ proc'[q] = proc[q] /\ proc[q].e \in Episodes
  BY <1>0 DEF InLock, QuietPlaces, TypeOK, AtEpisode
<1>6. Sealed'
  <2>1. \A e \in Episodes : torn'[e] => torn[e]
    OBVIOUS
  <2>2. \A e \in Episodes : Ends(file'[e]) => ~torn'[e]
    BY <2>1 DEF Sealed
  <2>3. \A e \in Episodes : summary'[e] => Ends(file'[e])
    BY DEF Sealed
  <2>4. ASSUME NEW q \in Stores, (At(q, "summary"))'
        PROVE Ends(file'[proc'[q].e]) /\ Readable(proc[q].e)' /\ ~summary'[proc'[q].e]
    <3>1. proc[q].e \in Episodes /\ proc'[q] = proc[q]
      BY <1>4, <2>4 DEF At, TypeOK, AtEpisode
    <3>2. Ends(file[proc[q].e]) /\ Readable(proc[q].e) /\ ~summary[proc[q].e]
      BY <1>4, <2>4 DEF Sealed
    <3> QED
      BY <2>1, <3>1, <3>2 DEF Readable
  <2> QED
    BY <2>2, <2>3, <2>4 DEF Sealed
<1>7. HeadInHand'
  <2> SUFFICES ASSUME NEW q \in Stores, InLock(q)'
               PROVE LET e == proc[q].e
                         head == proc[q].head IN
                 /\ ~head.ended
                 /\ \A r \in Stores \ {q} : InLock(r)' => proc'[r].e # e
                 /\ (At(q, "note"))' =>
                      /\ ~torn'[e] /\ Len(file[e]) = head.count + 1
                      /\ head = HeadAt(file[e], head.count)
                      /\ file[e][Len(file[e])] = NewLine(q, head, Terminal(q))
                 /\ ~(At(q, "note"))' => head = JournalHead(file[e]) /\ (torn'[e] <=> (At(q, "rest"))')
    BY <1>5 DEF HeadInHand, Terminal
  <2>1. torn'[proc[q].e] = torn[proc[q].e]
    BY <1>5 DEF Locked
  <2>2. (At(q, "note"))' <=> At(q, "note")
    BY <1>5 DEF At
  <2>3. (At(q, "rest"))' <=> At(q, "rest")
    BY <1>5 DEF At
  <2> QED
    BY <1>5, <2>1, <2>2, <2>3 DEF HeadInHand
<1>8. OneCloses'
  <2>1. \A q \in Stores : Closing(q)' => Closing(q) /\ proc'[q] = proc[q]
    BY <1>0 DEF Closing, At, Terminal, QuietPlaces
  <2> QED
    BY <2>1 DEF OneCloses
<1>9. RowsAreTrue'
  <2>1. \A q \in Stores : (At(q, "insert"))' => At(q, "insert") /\ proc'[q] = proc[q]
    BY <1>0 DEF At, QuietPlaces
  <2> QED
    BY <2>1 DEF RowsAreTrue, Ends
<1> QED
  BY <1>1, <1>2, <1>3, <1>6, <1>7, <1>8, <1>9 DEF IInv

\* A process that is not creating does not disturb those that are.
LEMMA OthersCreate ==
  ASSUME Inv, NEW p \in Stores, Moved(p), proc'[p].pc # "create", dir' = dir
  PROVE  OneCreates'
<1>1. \A q \in Stores : (At(q, "create"))' => At(q, "create") /\ proc'[q] = proc[q]
  BY DEF At, Moved
<1> QED
  BY <1>1 DEF Inv, IInv, OneCreates

\* If nothing but the process changed, nothing else can break.
LEMMA IdleKeeps ==
  ASSUME Inv, NEW p \in Stores, Quits(p), proc'[p].pc # "create", UNCHANGED <<disk, heads>>,
         faults' \in Nat
  PROVE  Inv'
<1> USE DEF disk
<1>1. HeadsAreOld'
  BY DEF Inv, IInv, HeadsAreOld
<1>2. OneCreates'
  BY OthersCreate DEF Quits
<1>3. \A e \in Episodes : index'[e] = "ended" => Ends(file[e])
  BY DEF Inv, IInv, RowsAreTrue
<1> QED
  BY <1>1, <1>2, <1>3, QuietKeeps DEF Inv, TypeOK

\* A step of create: it is alone with the directory.
LEMMA CreateKeeps ==
  ASSUME Inv, NEW p \in Stores,
         CreateStep(p) \/ \E e \in Episodes : Create(p, e)
  PROVE  Inv'
<1>1. /\ Quits(p)
      /\ dir' \in [Episodes -> {"none", "public", "private", "partial", "manifest", "ready"}]
      /\ OneCreates'
  <2>1. CASE CreateStep(p)
    <3> DEFINE e == proc[p].e
    <3>1. e \in Episodes /\ dir[e] \in DOMAIN CreateNext
      BY <2>1 DEF CreateStep, At, Inv, TypeOK, AtEpisode, IInv, OneCreates
    <3> DEFINE next == CreateNext[dir[e]]
    <3>2. next \in {"private", "partial", "manifest", "ready"}
      BY <3>1 DEF CreateNext
    <3>3. dir' = [dir EXCEPT ![e] = next]
      BY <2>1 DEF CreateStep
    <3>4. Go(p, IF dir[e] = "manifest" THEN "reindex" ELSE "create")
      BY <2>1 DEF CreateStep
    <3>5. Quits(p) /\ proc'[p].e = e
          /\ proc'[p].pc = (IF dir[e] = "manifest" THEN "reindex" ELSE "create")
      BY <3>1, <3>4, GoQuits DEF QuietPlaces, Inv
    <3>6. dir' \in [Episodes -> {"none", "public", "private", "partial", "manifest", "ready"}]
      BY <3>1, <3>2, <3>3 DEF Inv, TypeOK
    <3>7. \A q \in Stores \ {p} : (At(q, "create"))' =>
             At(q, "create") /\ proc'[q] = proc[q] /\ proc[q].e \in Episodes
      BY <3>5 DEF Quits, Moved, At, Inv, TypeOK, AtEpisode
    <3>8. \A q \in Stores \ {p} : At(q, "create") => proc[q].e # e
      BY <2>1 DEF CreateStep, Inv, IInv, OneCreates
    <3>9. (At(p, "create"))' => dir'[e] \in DOMAIN CreateNext
      BY <3>1, <3>3, <3>5 DEF At, CreateNext, Inv, TypeOK
    <3>10. \A q \in Stores \ {p} : (At(q, "create"))' => dir'[proc[q].e] = dir[proc[q].e]
      BY <3>3, <3>7, <3>8 DEF Inv, TypeOK
    <3>11. OneCreates'
      BY <3>5, <3>7, <3>8, <3>9, <3>10 DEF Inv, IInv, OneCreates
    <3> QED
      BY <3>5, <3>6, <3>11
  <2>2. ASSUME NEW e \in Episodes, Create(p, e)
        PROVE /\ Quits(p)
              /\ dir' \in [Episodes -> {"none", "public", "private", "partial", "manifest", "ready"}]
              /\ OneCreates'
    <3>1. Quits(p) /\ proc'[p].pc = "create" /\ proc'[p].e = e
      BY <2>2, StartQuits DEF Create, Inv
    <3>2. dir' \in [Episodes -> {"none", "public", "private", "partial", "manifest", "ready"}]
      BY <2>2 DEF Create, Inv, TypeOK
    <3>3. \A q \in Stores \ {p} : (At(q, "create"))' =>
            At(q, "create") /\ proc'[q] = proc[q] /\ proc[q].e \in Episodes
      BY <3>1 DEF Quits, Moved, At, Inv, TypeOK, AtEpisode
    <3>4. dir'[e] \in DOMAIN CreateNext
      BY <2>2 DEF Create, CreateNext, Inv, TypeOK
    <3>5. \A q \in Stores \ {p} : At(q, "create") => proc[q].e # e
      BY <2>2 DEF Create, CreateNext, Inv, IInv, OneCreates
    <3>6. \A q \in Stores \ {p} : (At(q, "create"))' => dir'[proc[q].e] = dir[proc[q].e]
      BY <2>2, <3>3, <3>5 DEF Create, Inv, TypeOK
    <3>7. OneCreates'
      BY <3>1, <3>3, <3>4, <3>5, <3>6 DEF Inv, IInv, OneCreates
    <3> QED
      BY <3>1, <3>2, <3>7
  <2> QED
    BY <2>1, <2>2
<1>2. UNCHANGED <<file, torn, summary, index, heads, faults>>
  BY DEF CreateStep, Create
<1>3. HeadsAreOld'
  BY <1>2 DEF Inv, IInv, HeadsAreOld
<1>4. \A e \in Episodes : index'[e] = "ended" => Ends(file[e])
  BY <1>2 DEF Inv, IInv, RowsAreTrue
<1> QED
  BY <1>1, <1>2, <1>3, <1>4, QuietKeeps DEF Inv, TypeOK

\* The steps of recover that only move it, and the end of its traceback.
LEMMA RecoverMovesKeep ==
  ASSUME Inv, NEW p \in Stores, Recover(p) \/ RecoverNext(p) \/ RecoverRead(p) \/ Dismiss(p)
  PROVE  Inv'
<1>1. CASE Recover(p)
  <2>1. Quits(p) /\ proc'[p].pc # "create"
    BY <1>1, StartQuits DEF Recover, Inv
  <2> QED
    BY <1>1, <2>1, IdleKeeps DEF Recover, Inv, TypeOK
<1>2. CASE RecoverNext(p)
  <2>1. ASSUME NEW e \in proc[p].todo,
               proc' = [proc EXCEPT ![p].pc = "cut", ![p].e = e, ![p].todo = @ \ {e}]
        PROVE Quits(p) /\ proc'[p].pc # "create"
    <3> DEFINE s == [proc[p] EXCEPT !.pc = "cut", !.e = e, !.todo = @ \ {e}]
    <3>1. proc[p] \in ProcState
      BY DEF Inv, TypeOK
    <3>2. s \in ProcState /\ s.pc = "cut" /\ s.e \in Episodes
      BY <3>1 DEF ProcState, Places
    <3>3. proc' = [proc EXCEPT ![p] = s]
      BY <2>1 DEF Inv, TypeOK
    <3>4. Moved(p) /\ proc'[p] = s
      BY <3>2, <3>3, SetMoves DEF Inv
    <3>5. proc'[p].pc \in QuietPlaces
      BY <3>2, <3>4 DEF QuietPlaces
    <3>6. AtEpisode(p)'
      BY <3>2, <3>4, <3>5, QuietHands
    <3> QED
      BY <3>2, <3>4, <3>5, <3>6 DEF Quits
  <2>2. ASSUME proc' = [proc EXCEPT ![p] = Idle]
        PROVE Quits(p) /\ proc'[p].pc # "create"
    BY <2>2, IdleQuits DEF Inv
  <2>3. Quits(p) /\ proc'[p].pc # "create"
    BY <1>2, <2>1, <2>2 DEF RecoverNext
  <2> QED
    BY <1>2, <2>3, IdleKeeps DEF RecoverNext, Inv, TypeOK
<1>3. CASE RecoverRead(p)
  <2>1. proc[p].e \in Episodes
    BY <1>3 DEF RecoverRead, At, Inv, TypeOK, AtEpisode
  <2>2. Quits(p) /\ proc'[p].pc # "create"
    BY <1>3, <2>1, GoQuits, RaiseQuits DEF RecoverRead, QuietPlaces, Inv
  <2> QED
    BY <1>3, <2>2, IdleKeeps DEF RecoverRead, Inv, TypeOK
<1>4. CASE Dismiss(p)
  <2>1. Quits(p) /\ proc'[p].pc # "create"
    BY <1>4, IdleQuits DEF Dismiss, Inv
  <2> QED
    BY <1>4, <2>1, IdleKeeps DEF Dismiss, Inv, TypeOK
<1> QED
  BY <1>1, <1>2, <1>3, <1>4

\* recover cuts a partial line under the lock, so nobody is writing it.
LEMMA CutKeeps ==
  ASSUME Inv, NEW p \in Stores, Cut(p)
  PROVE  Inv'
<1>1. proc[p].e \in Episodes
  BY DEF Cut, At, Inv, TypeOK, AtEpisode
<1>2. Quits(p) /\ proc'[p].pc # "create"
  BY <1>1, GoQuits DEF Cut, QuietPlaces, Inv
<1>3. HeadsAreOld'
  BY DEF Cut, Inv, IInv, HeadsAreOld
<1>4. torn' \in [Episodes -> BOOLEAN]
  BY <1>1 DEF Cut, Inv, TypeOK
<1>5. \A e \in Episodes : torn'[e] = torn[e] \/ (~torn'[e] /\ ~Locked(e))
  BY <1>1 DEF Cut, Inv, TypeOK
<1>6. \A e \in Episodes : index'[e] = "ended" => Ends(file[e])
  BY DEF Cut, Inv, IInv, RowsAreTrue
<1>7. OneCreates'
  BY <1>2, OthersCreate DEF Cut, Quits
<1> QED
  BY <1>2, <1>3, <1>4, <1>5, <1>6, <1>7, QuietKeeps DEF Cut, Inv, TypeOK

\* A failed write or a killed process leaves the disk as it is.
LEMMA FaultKeeps ==
  ASSUME Inv, NEW p \in Stores, WriteFails(p) \/ Crash(p)
  PROVE  Inv'
<1>1. faults' \in Nat
  BY DEF WriteFails, Crash, Fault, Inv, TypeOK
<1>2. CASE WriteFails(p)
  <2>1. Quits(p) /\ proc'[p].pc # "create"
    BY <1>2, RaiseQuits DEF WriteFails, Inv
  <2> QED
    BY <1>1, <1>2, <2>1, IdleKeeps DEF WriteFails, Inv, TypeOK
<1>3. CASE Crash(p)
  <2>3. Quits(p) /\ proc'[p].pc # "create"
    BY <1>3, IdleQuits DEF Crash, Inv
  <2>4. heads' \in [Stores -> [Episodes -> CacheEntry \cup {None}]]
    BY <1>3 DEF Crash, Inv, TypeOK
  <2>5. \A q \in Stores, e \in Episodes : heads'[q][e] \in {heads[q][e], None}
    BY <1>3 DEF Crash, Inv, TypeOK
  <2>6. HeadsAreOld'
    BY <1>3, <2>5 DEF Crash, disk, Inv, IInv, HeadsAreOld
  <2>7. \A e \in Episodes : index'[e] = "ended" => Ends(file[e])
    BY <1>3 DEF Crash, disk, Inv, IInv, RowsAreTrue
  <2>8. OneCreates'
    BY <1>3, <2>3, OthersCreate DEF Crash, disk, Quits
  <2> QED
    BY <1>1, <1>3, <2>3, <2>4, <2>6, <2>7, <2>8, QuietKeeps DEF Crash, disk, Inv, TypeOK
<1> QED
  BY <1>2, <1>3

\* A row in hand is inserted; it was true and journals only grow.
LEMMA InsertKeeps ==
  ASSUME Inv, NEW p \in Stores, InsertRow(p)
  PROVE  Inv'
<1>1. proc[p].e \in Episodes /\ proc[p].row \in Rows
  BY DEF InsertRow, At, Inv, TypeOK, AtEpisode, ProcState
<1>2. Quits(p) /\ proc'[p].pc # "create"
  BY DoneQuits DEF InsertRow, Inv
<1>3. HeadsAreOld'
  BY DEF InsertRow, Inv, IInv, HeadsAreOld
<1>4. index' \in [Episodes -> Rows]
  BY <1>1 DEF InsertRow, Inv, TypeOK
<1>5. \A e \in Episodes : index'[e] = "ended" => Ends(file[e])
  BY <1>1 DEF InsertRow, Inv, TypeOK, IInv, RowsAreTrue
<1>6. OneCreates'
  BY <1>2, OthersCreate DEF InsertRow, Quits
<1> QED
  BY <1>2, <1>3, <1>4, <1>5, <1>6, QuietKeeps DEF InsertRow, Inv, TypeOK

\* The index is deleted.
LEMMA LoseIndexKeeps ==
  ASSUME Inv, LoseIndex
  PROVE  Inv'
<1> USE DEF Inv, IInv, LoseIndex
<1>1. TypeOK'
  BY DEF TypeOK, AtEpisode, InLock, Rows
<1>2. ChainIntact' /\ HeadsAreOld'
  BY DEF ChainIntact, HeadsAreOld
<1>3. Sealed'
  BY DEF Sealed, Readable, At
<1>4. HeadInHand'
  BY DEF HeadInHand, InLock, At, Terminal
<1>5. OneCreates' /\ OneCloses'
  BY DEF OneCreates, OneCloses, Closing, At, Terminal
<1>6. RowsAreTrue'
  BY DEF RowsAreTrue, At
<1> QED
  BY <1>1, <1>2, <1>3, <1>4, <1>5, <1>6

-----------------------------------------------------------------------------
(***************************************************************************)
(* Steps of append and finish, in the lock.                                *)
(***************************************************************************)

\* A cached head that is believed is the journal's, and so is one that is read;
\* either way the journal ends in no partial line.
LEMMA HeadFound ==
  ASSUME Inv, NEW p \in Stores, NEW e \in Episodes, ~Refused(p, e)
  PROVE  HeadOf(p, e) = JournalHead(file[e]) /\ ~torn[e] /\ ~HeadOf(p, e).ended
<1>1. CASE Cached(p, e)
  <2> DEFINE count == heads[p][e].head.count
  <2>1. /\ count <= Len(file[e])
        /\ heads[p][e] = [size |-> 2 * count, head |-> HeadAt(file[e], count)]
    BY <1>1 DEF Cached, Inv, IInv, HeadsAreOld
  <2>2. count \in Nat /\ Len(file[e]) \in Nat
    <3>1. heads[p][e] \in CacheEntry
      BY <1>1 DEF Cached, Inv, TypeOK
    <3> QED
      BY <3>1 DEF CacheEntry, HeadType, Inv, TypeOK
  <2>3. 2 * count = Size(e)
    BY <1>1, <2>1 DEF Cached
  <2>4. ~torn[e] /\ count = Len(file[e])
    <3> HIDE DEF count
    <3>1. CASE torn[e]
      <4>1. 2 * count = 2 * Len(file[e]) + 1
        BY <2>3, <3>1 DEF Size
      <4> QED
        BY <2>2, <4>1
    <3>2. CASE ~torn[e]
      <4>1. 2 * count = 2 * Len(file[e])
        BY <2>2, <2>3, <3>2 DEF Size
      <4> QED
        BY <2>2, <3>2, <4>1
    <3> QED
      BY <3>1, <3>2
  <2> QED
    BY <1>1, <2>1, <2>4 DEF HeadOf, JournalHead, Refused
<1>2. CASE ~Cached(p, e)
  BY <1>2 DEF HeadOf, Refused, Readable
<1> QED
  BY <1>1, <1>2

\* Entering the lock, or being refused.
LEMMA PrepareKeeps ==
  ASSUME Inv, NEW p \in Stores, NEW e \in Episodes, NEW hand \in ProcState, Prepare(p, e, hand)
  PROVE  Inv'
<1>0. UNCHANGED <<disk, heads, faults>> /\ ~Locked(e)
  BY DEF Prepare
<1>1. CASE Refused(p, e)
  <2> DEFINE raised == [Idle EXCEPT !.pc = "raised"]
  <2>1. raised \in ProcState /\ raised.pc = "raised"
    BY DEF Idle, ProcState, Places, Rows
  <2>2. CASE proc' = [proc EXCEPT ![p] = Idle]
    <3>1. Quits(p) /\ proc'[p].pc # "create"
      BY <2>2, IdleQuits DEF Inv
    <3> QED
      BY <1>0, <3>1, IdleKeeps DEF disk, Inv, TypeOK
  <2>3. CASE proc' = [proc EXCEPT ![p] = raised]
    <3>1. Moved(p) /\ proc'[p].pc = "raised"
      BY <2>1, <2>3, SetMoves DEF Inv
    <3>2. proc'[p].pc \in QuietPlaces
      BY <3>1 DEF QuietPlaces
    <3>3. Quits(p) /\ proc'[p].pc # "create"
      BY <3>1, <3>2, QuietHands DEF Quits
    <3> QED
      BY <1>0, <3>3, IdleKeeps DEF disk, Inv, TypeOK
  <2> QED
    BY <1>1, <2>2, <2>3 DEF Prepare
<1>2. CASE ~Refused(p, e)
  <2> DEFINE head == JournalHead(file[e])
             s == [hand EXCEPT !.pc = "write", !.e = e, !.head = head]
  <2>1. HeadOf(p, e) = head /\ ~torn[e] /\ ~head.ended
    BY <1>2, HeadFound
  <2>2. head \in HeadType
    BY HeadTypes DEF JournalHead, Inv, TypeOK
  <2> HIDE DEF head
  <2>3. s \in ProcState /\ s.pc = "write" /\ s.e = e /\ s.head = head
    BY <2>2 DEF ProcState, Places
  <2>4. proc' = [proc EXCEPT ![p] = s]
    BY <1>2, <2>1 DEF Prepare
  <2>5. Moved(p) /\ proc'[p].pc = "write" /\ proc'[p].e = e /\ proc'[p].head = head
    BY <2>3, <2>4, SetMoves DEF Inv
  <2>6. AtEpisode(p)'
    BY <2>2, <2>5 DEF AtEpisode, InLock
  <2>7. \A q \in Stores \ {p} : proc'[q] = proc[q]
    BY <2>5 DEF Moved
  <2>8. TypeOK'
    <3>1. \A q \in Stores : AtEpisode(q)'
      BY <2>6, <2>7 DEF Inv, TypeOK, AtEpisode, InLock
    <3> QED
      BY <1>0, <2>5, <3>1 DEF disk, Inv, TypeOK, Moved
  <2>9. ChainIntact' /\ HeadsAreOld'
    BY <1>0 DEF disk, Inv, IInv, ChainIntact, HeadsAreOld
  <2>10. Sealed'
    <3>1. \A q \in Stores : (At(q, "summary"))' => At(q, "summary") /\ proc'[q] = proc[q]
      BY <2>5, <2>7 DEF At
    <3> QED
      BY <1>0, <3>1 DEF disk, Inv, IInv, Sealed, Readable
  <2>11. HeadInHand'
    <3>1. \A q \in Stores \ {p} : InLock(q)' => InLock(q) /\ proc[q].e # e
      BY <1>0, <2>7 DEF InLock, Locked
    <3>2. head = JournalHead(file[e])
      BY DEF head
    <3>3. ASSUME NEW q \in Stores \ {p}, InLock(q)'
          PROVE LET f == proc[q].e
                    h == proc[q].head IN
                  /\ ~h.ended
                  /\ \A r \in Stores \ {q} : InLock(r)' => proc'[r].e # f
                  /\ (At(q, "note"))' =>
                       /\ ~torn[f] /\ Len(file[f]) = h.count + 1
                       /\ h = HeadAt(file[f], h.count)
                       /\ file[f][Len(file[f])] = NewLine(q, h, Terminal(q))
                  /\ ~(At(q, "note"))' => h = JournalHead(file[f]) /\ (torn[f] <=> (At(q, "rest"))')
      BY <2>5, <2>7, <3>1, <3>3 DEF Inv, IInv, HeadInHand, At
    <3>4. (At(p, "write"))'
      BY <2>5 DEF At
    <3>5. /\ ~head.ended
          /\ \A r \in Stores \ {p} : InLock(r)' => proc'[r].e # e
          /\ ~(At(p, "note"))' /\ ~(At(p, "rest"))' /\ ~torn[e]
      BY <2>1, <2>5, <2>7, <3>1 DEF At
    <3>6. \A q \in Stores \ {p} : (Terminal(q))' <=> Terminal(q)
      BY <2>7 DEF Terminal
    <3> SUFFICES ASSUME NEW q \in Stores, InLock(q)'
                 PROVE LET f == proc'[q].e
                           h == proc'[q].head IN
                   /\ ~h.ended
                   /\ \A r \in Stores \ {q} : InLock(r)' => proc'[r].e # f
                   /\ (At(q, "note"))' =>
                        /\ ~torn[f] /\ Len(file[f]) = h.count + 1
                        /\ h = HeadAt(file[f], h.count)
                        /\ file[f][Len(file[f])] = NewLine(q, h, (Terminal(q))')
                   /\ ~(At(q, "note"))' => h = JournalHead(file[f]) /\ (torn[f] <=> (At(q, "rest"))')
      BY <1>0 DEF disk, HeadInHand
    <3>7. CASE q = p
      BY <2>5, <3>2, <3>5, <3>7
    <3>8. CASE q # p
      <4>1. q \in Stores \ {p} /\ proc'[q] = proc[q] /\ ((Terminal(q))' <=> Terminal(q))
        BY <2>7, <3>6, <3>8
      <4>2. NewLine(q, proc[q].head, (Terminal(q))') = NewLine(q, proc[q].head, Terminal(q))
        BY <2>7, <3>8 DEF Terminal
      <4> QED
        BY <3>3, <4>1, <4>2
    <3> QED
      BY <3>7, <3>8
  <2>12. OneCreates'
    BY <1>0, <2>5, OthersCreate DEF disk
  <2>13. OneCloses'
    <3>1. \A q \in Stores : Closing(q)' => Closing(q) /\ proc'[q] = proc[q]
      BY <2>5, <2>7 DEF Closing, At, Terminal
    <3> QED
      BY <1>0, <3>1 DEF disk, Inv, IInv, OneCloses
  <2>14. RowsAreTrue'
    <3>1. \A q \in Stores : (At(q, "insert"))' => At(q, "insert") /\ proc'[q] = proc[q]
      BY <2>5, <2>7 DEF At
    <3> QED
      BY <1>0, <3>1 DEF disk, Inv, IInv, RowsAreTrue, Ends
  <2> QED
    BY <2>8, <2>9, <2>10, <2>11, <2>12, <2>13, <2>14 DEF Inv, IInv
<1> QED
  BY <1>1, <1>2

\* append, finish and recover enter it with an operation of their own.
LEMMA EnterKeeps ==
  ASSUME Inv, NEW p \in Stores,
         RecoverFinish(p) \/ \E e \in Episodes : AppendEvent(p, e) \/ Finish(p, e)
  PROVE  Inv'
<1>1. [Idle EXCEPT !.op = "append"] \in ProcState /\ [Idle EXCEPT !.op = "finish"] \in ProcState
  BY DEF Idle, ProcState, Places, Rows
<1>2. CASE RecoverFinish(p)
  <2>1. proc[p] \in ProcState /\ proc[p].e \in Episodes
    BY <1>2 DEF RecoverFinish, At, Inv, TypeOK, AtEpisode
  <2> QED
    BY <1>2, <2>1, PrepareKeeps DEF RecoverFinish
<1>3. ASSUME NEW e \in Episodes, AppendEvent(p, e) \/ Finish(p, e)
      PROVE Inv'
  BY <1>1, <1>3, PrepareKeeps DEF AppendEvent, Finish
<1> QED
  BY <1>2, <1>3

(* What HeadInHand says of one process.                                    *)
Holds(p) ==
  LET e == proc[p].e
      head == proc[p].head IN
    /\ ~head.ended
    /\ \A q \in Stores \ {p} : InLock(q) => proc[q].e # e
    /\ At(p, "note") =>
         /\ ~torn[e] /\ Len(file[e]) = head.count + 1
         /\ head = HeadAt(file[e], head.count)
         /\ file[e][Len(file[e])] = NewLine(p, head, Terminal(p))
    /\ ~At(p, "note") => head = JournalHead(file[e]) /\ (torn[e] <=> At(p, "rest"))

\* HeadInHand says it of every process in the lock.
LEMMA InHand == HeadInHand <=> \A p \in Stores : InLock(p) => Holds(p)
  BY DEF HeadInHand, Holds

\* A process in the lock is not disturbed by one that is at another journal or
\* does not write, and enters no lock.
LEMMA OtherHolds ==
  ASSUME Inv, NEW p \in Stores, NEW q \in Stores \ {p}, Moved(p), InLock(q)',
         InLock(p)' => InLock(p) /\ proc'[p].e = proc[p].e,
         \A e \in Episodes : (InLock(p) /\ proc[p].e = e) \/ (file'[e] = file[e] /\ torn'[e] = torn[e])
  PROVE  Holds(q)' /\ proc'[q] = proc[q] /\ (InLock(p) => proc[q].e # proc[p].e)
<1>1. proc'[q] = proc[q] /\ InLock(q)
  BY DEF Moved, InLock
<1>2. Holds(q) /\ proc[q].e \in Episodes
  BY <1>1, InHand DEF Inv, IInv, TypeOK, AtEpisode, InLock
<1>3. InLock(p) => proc[q].e # proc[p].e
  BY <1>2 DEF Holds
<1>4. file'[proc[q].e] = file[proc[q].e] /\ torn'[proc[q].e] = torn[proc[q].e]
  BY <1>2, <1>3
<1>5. \A r \in Stores \ {q} : InLock(r)' => proc'[r].e # proc[q].e
  BY <1>2, <1>3 DEF Holds, Moved, InLock
<1>6. ((At(q, "note"))' <=> At(q, "note")) /\ ((At(q, "rest"))' <=> At(q, "rest"))
  BY <1>1 DEF At
<1>7. (Terminal(q))' = Terminal(q)
  BY <1>1 DEF Terminal
<1>8. Holds(q)'
  BY <1>1, <1>2, <1>4, <1>5, <1>6, <1>7 DEF Holds
<1> QED
  BY <1>1, <1>3, <1>8

\* The first bytes of a line.
LEMMA WritePartKeeps ==
  ASSUME Inv, NEW p \in Stores, WritePart(p)
  PROVE  Inv'
<1> DEFINE e == proc[p].e
<1>1. /\ At(p, "write") /\ ~torn[e] /\ torn' = [torn EXCEPT ![e] = TRUE]
      /\ UNCHANGED <<dir, file, summary, index, heads, faults>>
  BY DEF WritePart
<1>2. e \in Episodes /\ proc[p].head \in HeadType /\ InLock(p)
  BY <1>1 DEF At, InLock, Inv, TypeOK, AtEpisode
<1>3. Holds(p) /\ proc[p].head = JournalHead(file[e]) /\ ~Ends(file[e])
  <2>1. Holds(p)
    BY <1>2, InHand DEF Inv, IInv
  <2>2. proc[p].head = JournalHead(file[e])
    BY <1>1, <2>1 DEF Holds, At
  <2>3. file[e] \in Seq(Line)
    BY <1>2 DEF Inv, TypeOK
  <2> QED
    BY <2>1, <2>2, <2>3, HeadEnds DEF Holds
<1>4. /\ Moved(p) /\ proc'[p].pc = "rest" /\ proc'[p].op = proc[p].op
      /\ proc'[p].e = e /\ proc'[p].head = proc[p].head
  BY GoMoves DEF WritePart, Places, Inv
<1>5. \A f \in Episodes : f # e => torn'[f] = torn[f]
  BY <1>1 DEF Inv, TypeOK
<1>6. torn'[e] = TRUE
  BY <1>1, <1>2 DEF Inv, TypeOK
<1>7. TypeOK'
  <2>1. torn' \in [Episodes -> BOOLEAN]
    BY <1>1 DEF Inv, TypeOK
  <2>2. \A q \in Stores : AtEpisode(q)'
    BY <1>2, <1>4 DEF Inv, TypeOK, AtEpisode, InLock, Moved
  <2> QED
    BY <1>1, <1>4, <2>1, <2>2 DEF Inv, TypeOK, Moved
<1>8. ChainIntact' /\ HeadsAreOld'
  BY <1>1 DEF Inv, IInv, ChainIntact, HeadsAreOld
<1>9. Sealed'
  <2>1. \A f \in Episodes : Ends(file[f]) => ~torn'[f] /\ f # e
    BY <1>3, <1>5 DEF Inv, IInv, Sealed
  <2>2. \A q \in Stores : (At(q, "summary"))' =>
          At(q, "summary") /\ proc'[q] = proc[q] /\ proc[q].e \in Episodes
    BY <1>4 DEF At, Moved, Inv, TypeOK, AtEpisode
  <2>3. \A q \in Stores : At(q, "summary") => torn'[proc[q].e] = torn[proc[q].e]
    BY <1>5, <2>1 DEF Inv, IInv, Sealed, At, TypeOK, AtEpisode
  <2> QED
    BY <1>1, <2>1, <2>2, <2>3 DEF Inv, IInv, Sealed, Readable
<1>10. HeadInHand'
  <2>1. \A q \in Stores \ {p} : InLock(q)' => Holds(q)' /\ proc'[q] = proc[q] /\ proc[q].e # e
    <3>1. \A f \in Episodes :
            (InLock(p) /\ proc[p].e = f) \/ (file'[f] = file[f] /\ torn'[f] = torn[f])
      BY <1>1, <1>2, <1>5
    <3>2. Moved(p) /\ (InLock(p)' => InLock(p) /\ proc'[p].e = proc[p].e)
      BY <1>2, <1>4
    <3>3. ASSUME NEW q \in Stores \ {p}, InLock(q)'
          PROVE Holds(q)' /\ proc'[q] = proc[q] /\ (InLock(p) => proc[q].e # proc[p].e)
      BY <3>1, <3>2, <3>3, OtherHolds
    <3> QED
      BY <1>2, <3>3
  <2>2. Holds(p)'
    BY <1>1, <1>3, <1>4, <1>6, <2>1 DEF Holds, At
  <2>3. \A q \in Stores : InLock(q)' => Holds(q)'
    BY <2>1, <2>2
  <2> QED
    BY <2>3 DEF HeadInHand, Holds
<1>11. OneCreates'
  BY <1>1, <1>4, OthersCreate
<1>12. OneCloses'
  <2>1. \A q \in Stores : Closing(q)' => Closing(q) /\ proc'[q] = proc[q]
    BY <1>4 DEF Closing, At, Terminal, Moved
  <2> QED
    BY <1>1, <2>1 DEF Inv, IInv, OneCloses
<1>13. RowsAreTrue'
  <2>1. \A q \in Stores : (At(q, "insert"))' => At(q, "insert") /\ proc'[q] = proc[q]
    BY <1>4 DEF At, Moved
  <2> QED
    BY <1>1, <2>1 DEF Inv, IInv, RowsAreTrue, Ends
<1> QED
  BY <1>7, <1>8, <1>9, <1>10, <1>11, <1>12, <1>13 DEF Inv, IInv

\* The whole line: it continues the journal, which had not ended.
LEMMA WriteLineKeeps ==
  ASSUME Inv, NEW p \in Stores, WriteLine(p)
  PROVE  Inv'
<1> DEFINE e == proc[p].e
           head == proc[p].head
           line == NewLine(p, head, Terminal(p))
<1>1. InLock(p) /\ proc[p].pc \in {"write", "rest"} /\ ~At(p, "note")
  BY DEF WriteLine, InLock, At
<1>2. e \in Episodes /\ head \in HeadType /\ file[e] \in Seq(Line) /\ Terminal(p) \in BOOLEAN
  BY <1>1 DEF InLock, Inv, TypeOK, AtEpisode, Terminal
<1>3. Holds(p) /\ head = JournalHead(file[e]) /\ (torn[e] <=> At(p, "rest")) /\ ~Ends(file[e])
  <2>1. Holds(p)
    BY <1>1, InHand DEF Inv, IInv
  <2>2. head = JournalHead(file[e]) /\ (torn[e] <=> At(p, "rest"))
    BY <1>1, <2>1 DEF Holds
  <2> QED
    BY <1>2, <2>1, <2>2, HeadEnds DEF Holds
<1>4. /\ file' = [file EXCEPT ![e] = Append(@, line)]
      /\ torn' = [torn EXCEPT ![e] = FALSE]
      /\ UNCHANGED <<dir, summary, index, heads, faults>>
  <2>1. ~(At(p, "write") /\ torn[e])
    BY <1>3 DEF At
  <2> QED
    BY <2>1 DEF WriteLine
<1>5. /\ line \in Line /\ line.terminal = Terminal(p)
  BY <1>2, NewLineTypes
<1>6. /\ file'[e] = Append(file[e], line) /\ torn'[e] = FALSE
      /\ \A f \in Episodes : f # e => file'[f] = file[f] /\ torn'[f] = torn[f]
  BY <1>2, <1>4 DEF Inv, TypeOK
<1>7. /\ Moved(p) /\ proc'[p].pc = "note" /\ proc'[p].op = proc[p].op
      /\ proc'[p].e = e /\ proc'[p].head = head
  BY GoMoves DEF WriteLine, Places, Inv
<1>8. /\ file'[e] \in Seq(Line) /\ Len(file'[e]) = Len(file[e]) + 1
      /\ file'[e][Len(file[e]) + 1] = line
      /\ Ends(file'[e]) <=> Terminal(p)
  BY <1>2, <1>3, <1>5, <1>6, AppendKeepsLines, AppendEnds
<1> HIDE DEF line
<1>9. TypeOK'
  <2>1. torn' \in [Episodes -> BOOLEAN]
    BY <1>4 DEF Inv, TypeOK
  <2>2. file' \in [Episodes -> Seq(Line)]
    BY <1>4, <1>6, <1>8 DEF Inv, TypeOK
  <2>3. \A q \in Stores : AtEpisode(q)'
    BY <1>2, <1>7 DEF Inv, TypeOK, AtEpisode, InLock, Moved
  <2> QED
    BY <1>4, <1>7, <2>1, <2>2, <2>3 DEF Inv, TypeOK, Moved
<1>10. ChainIntact'
  <2>1. Chained(file'[e])
    BY <1>2, <1>3, <1>6, AppendChains DEF Inv, IInv, ChainIntact, line
  <2> QED
    BY <1>6, <2>1 DEF Inv, IInv, ChainIntact
<1>11. HeadsAreOld'
  <2> SUFFICES ASSUME NEW q \in Stores, NEW f \in Episodes, heads[q][f] # None
               PROVE  LET count == heads[q][f].head.count IN
                        /\ count <= Len(file'[f])
                        /\ heads[q][f] = [size |-> 2 * count, head |-> HeadAt(file'[f], count)]
    BY <1>4 DEF HeadsAreOld
  <2> DEFINE count == heads[q][f].head.count
  <2>1. /\ count <= Len(file[f])
        /\ heads[q][f] = [size |-> 2 * count, head |-> HeadAt(file[f], count)]
    BY DEF Inv, IInv, HeadsAreOld
  <2>2. CASE f = e
    <3>1. heads[q][f] \in CacheEntry
      BY DEF Inv, TypeOK
    <3>2. count \in Nat
      BY <3>1 DEF CacheEntry, HeadType
    <3>3. count \in 0..Len(file[e])
      BY <1>2, <2>1, <2>2, <3>2
    <3>4. HeadAt(file'[e], count) = HeadAt(file[e], count)
      BY <1>2, <1>5, <1>6, <3>3, AppendKeepsHeads
    <3>5. count <= Len(file'[e])
      BY <1>2, <1>8, <3>3
    <3> QED
      BY <2>1, <2>2, <3>4, <3>5
  <2>3. CASE f # e
    BY <1>6, <2>1, <2>3
  <2> QED
    BY <2>2, <2>3
<1>12. \A f \in Episodes : Ends(file[f]) => f # e /\ Ends(file'[f])
  BY <1>3, <1>6
<1>13. Sealed'
  <2>1. \A f \in Episodes : Ends(file'[f]) => ~torn'[f]
    BY <1>6 DEF Inv, IInv, Sealed
  <2>2. \A f \in Episodes : summary'[f] => Ends(file'[f])
    BY <1>4, <1>12 DEF Inv, IInv, Sealed
  <2>3. ASSUME NEW q \in Stores, (At(q, "summary"))'
        PROVE Ends(file'[proc'[q].e]) /\ (Readable(proc[q].e))' /\ ~summary'[proc'[q].e]
    <3>1. At(q, "summary") /\ proc'[q] = proc[q] /\ proc[q].e \in Episodes
      BY <1>7, <2>3 DEF At, Moved, Inv, TypeOK, AtEpisode
    <3>2. Ends(file[proc[q].e]) /\ Readable(proc[q].e) /\ ~summary[proc[q].e]
      BY <3>1 DEF Inv, IInv, Sealed
    <3> QED
      BY <1>4, <1>6, <1>12, <3>1, <3>2 DEF Readable
  <2> QED
    BY <2>1, <2>2, <2>3 DEF Sealed
<1>14. \A q \in Stores \ {p} : InLock(q)' => Holds(q)' /\ proc'[q] = proc[q] /\ proc[q].e # e
  <2>1. \A f \in Episodes :
          (InLock(p) /\ proc[p].e = f) \/ (file'[f] = file[f] /\ torn'[f] = torn[f])
    BY <1>1, <1>6
  <2>2. Moved(p) /\ (InLock(p)' => InLock(p) /\ proc'[p].e = proc[p].e)
    BY <1>1, <1>7
  <2> QED
    BY <1>1, <2>1, <2>2, OtherHolds
<1>15. HeadInHand'
  <2>1. head.count = Len(file[e]) /\ HeadAt(file'[e], head.count) = head
    <3>1. head.count = Len(file[e]) /\ Len(file[e]) \in 0..Len(file[e])
      BY <1>2, <1>3, HeadEnds
    <3>2. HeadAt(file'[e], Len(file[e])) = HeadAt(file[e], Len(file[e]))
      BY <1>2, <1>5, <1>6, <3>1, AppendKeepsHeads
    <3> QED
      BY <1>3, <3>1, <3>2 DEF JournalHead
  <2>2. (Terminal(p))' = Terminal(p) /\ (At(p, "note"))'
    BY <1>7 DEF Terminal, At
  <2>3. NewLine(p, head, (Terminal(p))') = line
    BY <2>2 DEF line
  <2>4. Holds(p)'
    BY <1>3, <1>6, <1>7, <1>8, <1>14, <2>1, <2>2, <2>3, ZenonT(40) DEF Holds
  <2>5. \A q \in Stores : InLock(q)' => Holds(q)'
    BY <1>14, <2>4
  <2> QED
    BY <2>5 DEF HeadInHand, Holds
<1>16. OneCreates'
  BY <1>4, <1>7, OthersCreate
<1>17. OneCloses'
  <2>1. \A q \in Stores \ {p} : Closing(q)' =>
          Closing(q) /\ proc'[q] = proc[q] /\ proc[q].e # e
    <3> SUFFICES ASSUME NEW q \in Stores \ {p}, Closing(q)'
                 PROVE Closing(q) /\ proc'[q] = proc[q] /\ proc[q].e # e
      OBVIOUS
    <3>1. Closing(q) /\ proc'[q] = proc[q]
      BY <1>7 DEF Closing, At, Terminal, Moved
    <3>2. CASE At(q, "summary")
      BY <1>3, <3>1, <3>2 DEF Inv, IInv, Sealed
    <3>3. CASE At(q, "note")
      <4>1. InLock(q)'
        BY <3>1, <3>3 DEF InLock, At
      <4> QED
        BY <1>14, <3>1, <4>1
    <3> QED
      BY <3>1, <3>2, <3>3 DEF Closing
  <2>2. ~summary[e]
    BY <1>2, <1>3 DEF Inv, IInv, Sealed
  <2>3. \A q \in Stores \ {p} : Closing(q)' =>
          ~summary[proc'[q].e] /\ proc'[q].e # e
          /\ \A r \in Stores \ {p, q} : Closing(r)' => proc'[r].e # proc'[q].e
    BY <2>1 DEF Inv, IInv, OneCloses
  <2> QED
    BY <1>4, <1>7, <2>2, <2>3 DEF OneCloses
<1>18. RowsAreTrue'
  <2>1. \A q \in Stores : (At(q, "insert"))' =>
          At(q, "insert") /\ proc'[q] = proc[q] /\ proc[q].e \in Episodes
    BY <1>7 DEF At, Moved, Inv, TypeOK, AtEpisode
  <2>2. \A f \in Episodes : index'[f] = "ended" => Ends(file'[f])
    BY <1>4, <1>12 DEF Inv, IInv, RowsAreTrue
  <2>3. \A q \in Stores : (At(q, "insert"))' =>
          proc'[q].row # "absent" /\ (proc'[q].row = "ended" => Ends(file'[proc'[q].e]))
    BY <1>12, <2>1 DEF Inv, IInv, RowsAreTrue
  <2> QED
    BY <2>2, <2>3 DEF RowsAreTrue
<1> QED
  BY <1>9, <1>10, <1>11, <1>13, <1>15, <1>16, <1>17, <1>18 DEF Inv, IInv

\* The head append remembers is the journal's, its size the file's.
LEMMA NotedHead ==
  ASSUME Inv, NEW p \in Stores, At(p, "note")
  PROVE  LET e == proc[p].e
             head == proc[p].head IN
           /\ e \in Episodes /\ ~torn[e]
           /\ Size(e) = 2 * Len(file[e])
           /\ HeadAt(file[e], Len(file[e])) =
                [count |-> head.count + 1, last |-> Hash(NewLine(p, head, Terminal(p))),
                 ended |-> Terminal(p)]
           /\ head.count + 1 = Len(file[e])
           /\ Ends(file[e]) <=> Terminal(p)
<1> DEFINE e == proc[p].e
           head == proc[p].head
           n == head.count
<1>1. InLock(p) /\ e \in Episodes /\ head \in HeadType
  BY DEF At, InLock, Inv, TypeOK, AtEpisode
<1>2. /\ ~torn[e] /\ Len(file[e]) = n + 1 /\ head = HeadAt(file[e], n)
      /\ file[e][n + 1] = NewLine(p, head, Terminal(p)) /\ ~head.ended
  BY <1>1 DEF Inv, IInv, HeadInHand
<1>3. file[e] \in Seq(Line) /\ n \in Nat /\ Terminal(p) \in BOOLEAN
  BY <1>1 DEF Inv, TypeOK, HeadType, Terminal
<1>4. Size(e) = 2 * Len(file[e])
  BY <1>2, <1>3 DEF Size
<1>5. \A i \in 1..n : ~file[e][i].terminal
  BY <1>2 DEF HeadAt
<1>6. file[e][n + 1].terminal = Terminal(p)
  BY <1>1, <1>2, <1>3, NewLineTypes
<1>7. (\E i \in 1..(n + 1) : file[e][i].terminal) <=> Terminal(p)
  <2>1. \A i \in 1..(n + 1) : i \in 1..n \/ i = n + 1
    BY <1>3
  <2>2. n + 1 \in 1..(n + 1)
    BY <1>3
  <2> QED
    BY <1>5, <1>6, <2>1, <2>2
<1>8. HashAt(file[e], n + 1) = Hash(NewLine(p, head, Terminal(p)))
  BY <1>2, <1>3 DEF HashAt
<1>9. (\E i \in 1..(n + 1) : file[e][i].terminal) = Terminal(p)
  BY <1>3, <1>7
<1>10. HeadAt(file[e], n + 1) =
         [count |-> n + 1, last |-> Hash(NewLine(p, head, Terminal(p))), ended |-> Terminal(p)]
  BY <1>8, <1>9 DEF HeadAt
<1>11. Ends(file[e]) <=> Terminal(p)
  BY <1>2, <1>3, <1>7 DEF Ends
<1> QED
  BY <1>1, <1>2, <1>4, <1>10, <1>11

\* append remembers its head and lets go of the lock.
LEMMA NoteKeeps ==
  ASSUME Inv, NEW p \in Stores, Note(p)
  PROVE  Inv'
<1> DEFINE e == proc[p].e
           head == proc[p].head
           n == Len(file[e])
           entry == [size |-> 2 * n, head |-> HeadAt(file[e], n)]
<1>1. At(p, "note") /\ UNCHANGED <<disk, faults>>
  BY DEF Note
<1>2. /\ e \in Episodes /\ ~torn[e] /\ Size(e) = 2 * n /\ head.count + 1 = n
      /\ HeadAt(file[e], n) =
           [count |-> head.count + 1, last |-> Hash(NewLine(p, head, Terminal(p))),
            ended |-> Terminal(p)]
      /\ Ends(file[e]) <=> Terminal(p)
  BY <1>1, NotedHead
<1>3. heads' = [heads EXCEPT ![p][e] = entry]
  BY <1>2 DEF Note
<1>4. n \in Nat /\ n \in 0..n /\ file[e] \in Seq(Line)
  BY <1>2 DEF Inv, TypeOK
<1>5. entry \in CacheEntry /\ entry.head.count = n
  <2>1. HeadAt(file[e], n) \in HeadType
    BY <1>4, HeadTypes
  <2>2. entry.head.count = n
    BY DEF HeadAt
  <2> QED
    BY <1>4, <2>1, <2>2 DEF CacheEntry
<1>6. heads' \in [Stores -> [Episodes -> CacheEntry \cup {None}]]
  BY <1>2, <1>3, <1>5 DEF Inv, TypeOK
<1>7. HeadsAreOld'
  <2> SUFFICES ASSUME NEW q \in Stores, NEW f \in Episodes, heads'[q][f] # None
               PROVE  LET count == heads'[q][f].head.count IN
                        /\ count <= Len(file[f])
                        /\ heads'[q][f] = [size |-> 2 * count, head |-> HeadAt(file[f], count)]
    BY <1>1 DEF HeadsAreOld, disk
  <2>1. CASE q = p /\ f = e
    <3>1. heads'[q][f] = entry
      BY <1>2, <1>3, <2>1 DEF Inv, TypeOK
    <3> QED
      BY <1>4, <1>5, <2>1, <3>1
  <2>2. CASE ~(q = p /\ f = e)
    <3>1. heads'[q][f] = heads[q][f]
      BY <1>2, <1>3, <2>2 DEF Inv, TypeOK
    <3> QED
      BY <3>1 DEF Inv, IInv, HeadsAreOld
  <2> QED
    BY <2>1, <2>2
<1> HIDE DEF entry, n, head
<1>8. CASE ~Terminal(p)
  <2>1. Quits(p) /\ proc'[p].pc # "create"
    BY <1>8, DoneQuits DEF Note, Inv
  <2>2. OneCreates'
    BY <1>1, <2>1, OthersCreate DEF Quits, disk
  <2>3. \A f \in Episodes : index'[f] = "ended" => Ends(file[f])
    BY <1>1 DEF disk, Inv, IInv, RowsAreTrue
  <2> QED
    BY <1>1, <1>6, <1>7, <2>1, <2>2, <2>3, QuietKeeps DEF disk, Inv, TypeOK
<1>9. CASE Terminal(p)
  <2>1. Go(p, "summary")
    BY <1>9 DEF Note
  <2>2. /\ Moved(p) /\ proc'[p].pc = "summary" /\ proc'[p].op = proc[p].op /\ proc'[p].e = e
    BY <2>1, GoMoves DEF Places, Inv
  <2>3. TypeOK'
    <3>1. \A q \in Stores : AtEpisode(q)'
      BY <1>2, <2>2 DEF Inv, TypeOK, AtEpisode, InLock, Moved
    <3> QED
      BY <1>1, <1>6, <2>2, <3>1 DEF disk, Inv, TypeOK, Moved
  <2>4. ChainIntact'
    BY <1>1 DEF disk, Inv, IInv, ChainIntact
  <2>5. Closing(p) /\ ~summary[e] /\ \A q \in Stores \ {p} : Closing(q) => proc[q].e # e
    BY <1>1, <1>9 DEF Closing, Inv, IInv, OneCloses
  <2>6. Sealed'
    <3>1. Ends(file[e]) /\ Readable(e)
      BY <1>2, <1>9 DEF Readable, Inv, IInv, ChainIntact
    <3>2. \A q \in Stores \ {p} : (At(q, "summary"))' => At(q, "summary") /\ proc'[q] = proc[q]
      BY <2>2 DEF At, Moved
    <3> QED
      BY <1>1, <2>2, <2>5, <3>1, <3>2 DEF disk, Inv, IInv, Sealed, Readable
  <2>7. HeadInHand'
    <3>1. ~InLock(p)'
      BY <2>2 DEF InLock
    <3>2. \A q \in Stores \ {p} : InLock(q)' => Holds(q)'
      <4>1. \A f \in Episodes : file'[f] = file[f] /\ torn'[f] = torn[f]
        BY <1>1 DEF disk
      <4> QED
        BY <2>2, <3>1, <4>1, OtherHolds
    <3>3. \A q \in Stores : InLock(q)' => Holds(q)'
      BY <3>1, <3>2
    <3> QED
      BY <3>3 DEF HeadInHand, Holds
  <2>8. OneCreates'
    BY <1>1, <2>2, OthersCreate DEF disk
  <2>9. OneCloses'
    <3>1. \A q \in Stores \ {p} : Closing(q)' => Closing(q) /\ proc'[q] = proc[q]
      BY <2>2 DEF Closing, At, Terminal, Moved
    <3> QED
      BY <1>1, <2>2, <2>5, <3>1 DEF disk, Inv, IInv, OneCloses
  <2>10. RowsAreTrue'
    <3>1. \A q \in Stores : (At(q, "insert"))' => At(q, "insert") /\ proc'[q] = proc[q]
      BY <2>2 DEF At, Moved
    <3> QED
      BY <1>1, <3>1 DEF disk, Inv, IInv, RowsAreTrue, Ends
  <2> QED
    BY <2>3, <2>4, <1>7, <2>6, <2>7, <2>8, <2>9, <2>10 DEF Inv, IInv
<1> QED
  BY <1>8, <1>9

\* finish writes the summary of the episode that it alone closes.
LEMMA WriteSummaryKeeps ==
  ASSUME Inv, NEW p \in Stores, WriteSummary(p)
  PROVE  Inv'
<1> DEFINE e == proc[p].e
<1>1. /\ At(p, "summary") /\ e \in Episodes /\ Closing(p)
      /\ UNCHANGED <<dir, file, torn, index, heads, faults>>
  BY DEF WriteSummary, At, Closing, Inv, TypeOK, AtEpisode
<1>2. Ends(file[e]) /\ Readable(e) /\ ~summary[e]
  BY <1>1 DEF Inv, IInv, Sealed
<1>3. summary' = [summary EXCEPT ![e] = TRUE] /\ Go(p, "reindex")
  BY <1>2 DEF WriteSummary
<1>4. /\ summary'[e] = TRUE /\ summary' \in [Episodes -> BOOLEAN]
      /\ \A f \in Episodes : f # e => summary'[f] = summary[f]
  BY <1>1, <1>3 DEF Inv, TypeOK
<1>5. Moved(p) /\ proc'[p].pc = "reindex" /\ proc'[p].op = proc[p].op /\ proc'[p].e = e
  BY <1>3, GoMoves DEF Places, Inv
<1>6. TypeOK'
  <2>1. \A q \in Stores : AtEpisode(q)'
    BY <1>1, <1>5 DEF Inv, TypeOK, AtEpisode, InLock, Moved
  <2> QED
    BY <1>1, <1>4, <1>5, <2>1 DEF Inv, TypeOK, Moved
<1>7. ChainIntact' /\ HeadsAreOld'
  BY <1>1 DEF Inv, IInv, ChainIntact, HeadsAreOld
<1>8. \A q \in Stores : Closing(q)' =>
        /\ q # p /\ Closing(q) /\ proc'[q] = proc[q]
        /\ proc[q].e \in Episodes /\ proc[q].e # e
  <2>1. \A q \in Stores : Closing(q)' => q # p /\ Closing(q) /\ proc'[q] = proc[q]
    BY <1>5 DEF Closing, At, Terminal, Moved
  <2>2. \A q \in Stores : Closing(q) => proc[q].e \in Episodes
    BY DEF Closing, At, Inv, TypeOK, AtEpisode
  <2> QED
    BY <1>1, <2>1, <2>2 DEF Inv, IInv, OneCloses
<1>9. Sealed'
  <2>1. \A f \in Episodes : summary'[f] => Ends(file[f])
    BY <1>2, <1>4 DEF Inv, IInv, Sealed
  <2>2. ASSUME NEW q \in Stores, (At(q, "summary"))'
        PROVE Ends(file'[proc'[q].e]) /\ (Readable(proc[q].e))' /\ ~summary'[proc'[q].e]
    <3>1. Closing(q)'
      BY <2>2 DEF Closing
    <3>2. At(q, "summary")
      BY <1>8, <2>2, <3>1 DEF At
    <3> QED
      BY <1>1, <1>4, <1>8, <3>1, <3>2 DEF Inv, IInv, Sealed, Readable
  <2> QED
    BY <1>1, <2>1, <2>2 DEF Inv, IInv, Sealed
<1>10. HeadInHand'
  <2>1. ~InLock(p)'
    BY <1>5 DEF InLock
  <2>2. \A q \in Stores \ {p} : InLock(q)' => Holds(q)'
    BY <1>1, <1>5, <2>1, OtherHolds
  <2>3. \A q \in Stores : InLock(q)' => Holds(q)'
    BY <2>1, <2>2
  <2> QED
    BY <2>3 DEF HeadInHand, Holds
<1>11. OneCreates'
  BY <1>1, <1>5, OthersCreate
<1>12. OneCloses'
  BY <1>4, <1>8 DEF Inv, IInv, OneCloses
<1>13. RowsAreTrue'
  <2>1. \A q \in Stores : (At(q, "insert"))' => At(q, "insert") /\ proc'[q] = proc[q]
    BY <1>5 DEF At, Moved
  <2> QED
    BY <1>1, <2>1 DEF Inv, IInv, RowsAreTrue, Ends
<1> QED
  BY <1>6, <1>7, <1>9, <1>10, <1>11, <1>12, <1>13 DEF Inv, IInv

\* reindex reads a true row.
LEMMA ReadRowKeeps ==
  ASSUME Inv, NEW p \in Stores, ReadRow(p)
  PROVE  Inv'
<1> DEFINE e == proc[p].e
           s == [proc[p] EXCEPT !.pc = "insert", !.row = Row(e)]
<1>1. At(p, "reindex") /\ e \in Episodes /\ proc[p] \in ProcState /\ UNCHANGED <<disk, heads, faults>>
  BY DEF ReadRow, At, Inv, TypeOK, AtEpisode
<1>2. CASE ~Readable(e)
  <2>1. Quits(p) /\ proc'[p].pc # "create"
    BY <1>2, RaiseQuits DEF ReadRow, Inv
  <2> QED
    BY <1>1, <2>1, IdleKeeps DEF disk, Inv, TypeOK
<1>3. CASE Readable(e)
  <2>1. s \in ProcState /\ s.pc = "insert" /\ s.e = e /\ s.row = Row(e)
    <3>1. Row(e) \in Rows
      BY DEF Row, Rows
    <3> QED
      BY <1>1, <3>1 DEF ProcState, Places
  <2>2. proc' = [proc EXCEPT ![p] = s]
    BY <1>3 DEF ReadRow, Inv, TypeOK
  <2>3. Moved(p) /\ proc'[p].pc = "insert" /\ proc'[p].e = e /\ proc'[p].row = Row(e)
    BY <2>1, <2>2, SetMoves DEF Inv
  <2>4. TypeOK'
    <3>1. \A q \in Stores : AtEpisode(q)'
      BY <1>1, <2>3 DEF Inv, TypeOK, AtEpisode, InLock, Moved
    <3> QED
      BY <1>1, <2>3, <3>1 DEF disk, Inv, TypeOK, Moved
  <2>5. ChainIntact' /\ HeadsAreOld'
    BY <1>1 DEF disk, Inv, IInv, ChainIntact, HeadsAreOld
  <2>6. Sealed'
    <3>1. \A q \in Stores : (At(q, "summary"))' => At(q, "summary") /\ proc'[q] = proc[q]
      BY <2>3 DEF At, Moved
    <3> QED
      BY <1>1, <3>1 DEF disk, Inv, IInv, Sealed, Readable
  <2>7. HeadInHand'
    <3>1. ~InLock(p)'
      BY <2>3 DEF InLock
    <3>2. \A q \in Stores \ {p} : InLock(q)' => Holds(q)'
      BY <1>1, <2>3, <3>1, OtherHolds DEF disk
    <3>3. \A q \in Stores : InLock(q)' => Holds(q)'
      BY <3>1, <3>2
    <3> QED
      BY <3>3 DEF HeadInHand, Holds
  <2>8. OneCreates'
    BY <1>1, <2>3, OthersCreate DEF disk
  <2>9. OneCloses'
    <3>1. \A q \in Stores : Closing(q)' => Closing(q) /\ proc'[q] = proc[q]
      BY <2>3 DEF Closing, At, Terminal, Moved
    <3> QED
      BY <1>1, <3>1 DEF disk, Inv, IInv, OneCloses
  <2>10. RowsAreTrue'
    <3>1. \A q \in Stores \ {p} : (At(q, "insert"))' => At(q, "insert") /\ proc'[q] = proc[q]
      BY <2>3 DEF At, Moved
    <3>2. Row(e) # "absent" /\ (Row(e) = "ended" => Ends(file[e]))
      BY DEF Row
    <3> QED
      BY <1>1, <2>3, <3>1, <3>2 DEF disk, Inv, IInv, RowsAreTrue, Ends
  <2> QED
    BY <2>4, <2>5, <2>6, <2>7, <2>8, <2>9, <2>10 DEF Inv, IInv
<1> QED
  BY <1>2, <1>3

-----------------------------------------------------------------------------
(***************************************************************************)
(* The invariant.                                                          *)
(***************************************************************************)

\* An empty store satisfies it.
LEMMA IndInit == Init => Inv
<1> SUFFICES ASSUME Init PROVE Inv
  OBVIOUS
<1> USE DEF Init, Idle
<1>1. TypeOK
  BY DEF TypeOK, ProcState, Places, Rows, AtEpisode, InLock
<1>2. ChainIntact /\ HeadsAreOld /\ Sealed
  BY DEF ChainIntact, Chained, HeadsAreOld, Sealed, Ends, At
<1>3. HeadInHand /\ OneCreates /\ OneCloses /\ RowsAreTrue
  BY DEF HeadInHand, InLock, OneCreates, OneCloses, Closing, RowsAreTrue, At
<1> QED
  BY <1>1, <1>2, <1>3 DEF Inv, IInv

\* Every step keeps it.
LEMMA IndStep == Inv /\ [Next]_vars => Inv'
<1> SUFFICES ASSUME Inv, [Next]_vars PROVE Inv'
  OBVIOUS
<1>1. ASSUME NEW p \in Stores, Client(p) PROVE Inv'
  <2>1. \A e \in Episodes : Create(p, e) => Inv'
    BY CreateKeeps
  <2>2. \A e \in Episodes : AppendEvent(p, e) \/ Finish(p, e) => Inv'
    BY EnterKeeps
  <2> QED
    BY <1>1, <2>1, <2>2 DEF Client
<1>2. ASSUME NEW p \in Stores, Recover(p) PROVE Inv'
  BY <1>2, RecoverMovesKeep
<1>3. ASSUME NEW p \in Stores, Working(p) PROVE Inv'
  <2>1. CreateStep(p) \/ RecoverNext(p) \/ RecoverRead(p) \/ Dismiss(p) => Inv'
    BY CreateKeeps, RecoverMovesKeep
  <2>2. WritePart(p) \/ WriteLine(p) \/ Note(p) => Inv'
    BY WritePartKeeps, WriteLineKeeps, NoteKeeps
  <2>3. WriteSummary(p) \/ ReadRow(p) \/ InsertRow(p) => Inv'
    BY WriteSummaryKeeps, ReadRowKeeps, InsertKeeps
  <2>4. Cut(p) \/ RecoverFinish(p) => Inv'
    BY CutKeeps, EnterKeeps
  <2> QED
    BY <1>3, <2>1, <2>2, <2>3, <2>4 DEF Working
<1>4. ASSUME NEW p \in Stores, WriteFails(p) \/ Crash(p) PROVE Inv'
  BY <1>4, FaultKeeps
<1>5. CASE LoseIndex
  BY <1>5, LoseIndexKeeps
<1>6. CASE UNCHANGED vars
  <2> USE <1>6 DEF vars, disk
  <2>1. TypeOK'
    BY DEF Inv, TypeOK, AtEpisode, InLock
  <2>2. ChainIntact' /\ HeadsAreOld' /\ RowsAreTrue'
    BY DEF Inv, IInv, ChainIntact, HeadsAreOld, RowsAreTrue, At
  <2>3. Sealed'
    BY DEF Inv, IInv, Sealed, Readable, At
  <2>4. HeadInHand'
    BY DEF Inv, IInv, HeadInHand, InLock, At, Terminal
  <2>5. OneCreates' /\ OneCloses'
    BY DEF Inv, IInv, OneCreates, OneCloses, Closing, At, Terminal
  <2> QED
    BY <2>1, <2>2, <2>3, <2>4, <2>5 DEF Inv, IInv
<1> QED
  BY <1>1, <1>2, <1>3, <1>4, <1>5, <1>6 DEF Next

\* The strengthened invariant: whoever is in the lock of a journal is alone there
\* with the journal's own head, one process creates and one closes each episode.
THEOREM Inductive == Spec => [](TypeOK /\ IInv)
<1>1. Init => Inv
  BY IndInit
<1>2. Inv /\ [Next]_vars => Inv'
  BY IndStep
<1>3. Inv => TypeOK /\ IInv
  BY DEF Inv
<1> QED
  BY <1>1, <1>2, <1>3, PTL DEF Spec

\* Every variable stays in its type.
THEOREM TypeCorrect == Spec => []TypeOK
  BY Inductive, PTL

\* However many processes append to a journal, each with a head of its own, and
\* wherever they are killed, its hash chain is unbroken (append, events).
THEOREM ChainHolds == Spec => []ChainIntact
<1>1. IInv => ChainIntact
  BY DEF IInv
<1> QED
  BY Inductive, <1>1, PTL

\* A cached head is a head of the journal, and the journal's if the size matches.
THEOREM HeadsStayOld == Spec => []HeadsAreOld
<1>1. IInv => HeadsAreOld
  BY DEF IInv
<1> QED
  BY Inductive, <1>1, PTL

\* A terminal seals the episode, and its one finish always gets to the end.
THEOREM EpisodesAreSealed == Spec => []Sealed
<1>1. IInv => Sealed
  BY DEF IInv
<1> QED
  BY Inductive, <1>1, PTL

-----------------------------------------------------------------------------
(***************************************************************************)
(* The store implements EpisodeLog.                                        *)
(***************************************************************************)
PromiseStep == Log!Next \/ UNCHANGED Log!vars

\* The entries of a longer journal.
LEMMA AppendEntries ==
  ASSUME NEW lines \in Seq(Line), NEW line \in Line
  PROVE  Entries(Append(lines, line)) = Append(Entries(lines), line.terminal)
<1> DEFINE n == Len(lines)
           ends == line.terminal
           longer == Append(lines, line)
<1>1. n \in Nat /\ ends \in BOOLEAN /\ \A i \in 1..n : lines[i].terminal \in BOOLEAN
  <2>1. \A x \in Line : x.terminal \in BOOLEAN
    BY DEF Line
  <2>2. n \in Nat /\ \A i \in 1..n : lines[i] \in Line
    OBVIOUS
  <2> QED
    BY <2>1, <2>2
<1>2. Entries(lines) = [i \in 1..n |-> lines[i].terminal]
  BY DEF Entries
<1>3. [i \in 1..n |-> lines[i].terminal] \in Seq(BOOLEAN)
  BY <1>1
<1>4. Entries(lines) \in Seq(BOOLEAN) /\ Len(Entries(lines)) = n
  BY <1>1, <1>2, <1>3
<1>5. Append(Entries(lines), ends) =
        [i \in 1..(n + 1) |-> IF i <= n THEN Entries(lines)[i] ELSE ends]
  BY <1>1, <1>4
<1>6. DOMAIN longer = 1..(n + 1) /\ longer[n + 1] = line /\ \A i \in 1..n : longer[i] = lines[i]
  BY <1>1, AppendKeepsLines
<1>7. \A i \in 1..(n + 1) :
        longer[i].terminal = (IF i <= n THEN Entries(lines)[i] ELSE ends)
  BY <1>1, <1>2, <1>6
<1>8. Entries(longer) = [i \in 1..(n + 1) |-> longer[i].terminal]
  BY <1>6 DEF Entries
<1> QED
  BY <1>5, <1>7, <1>8

\* The promise calls ended what the store does.
LEMMA SameEnd ==
  ASSUME NEW e \in Episodes
  PROVE  Log!Ended(e) <=> Ends(file[e])
  BY DEF Log!Ended, Entries, Ends

\* Steps beside the lines and the index are none of the promise's business.
LEMMA Unseen == UNCHANGED <<file, index>> => UNCHANGED Log!vars
  BY DEF Log!vars, Entries

\* A whole line is an entry, added to a log that had not ended.
LEMMA LineIsEntry ==
  ASSUME Inv, NEW p \in Stores, WriteLine(p)
  PROVE  PromiseStep
<1> DEFINE e == proc[p].e
           line == NewLine(p, proc[p].head, Terminal(p))
<1>1. InLock(p) /\ proc[p].pc \in {"write", "rest"} /\ ~At(p, "note")
  BY DEF WriteLine, InLock, At
<1>2. /\ e \in Episodes /\ proc[p].head \in HeadType
      /\ file[e] \in Seq(Line) /\ Terminal(p) \in BOOLEAN
  BY <1>1 DEF InLock, Inv, TypeOK, AtEpisode, Terminal
<1>3. ~Ends(file[e]) /\ ~(At(p, "write") /\ torn[e])
  <2>1. Holds(p)
    BY <1>1, InHand DEF Inv, IInv
  <2>2. proc[p].head = JournalHead(file[e]) /\ (torn[e] <=> At(p, "rest"))
    BY <1>1, <2>1 DEF Holds
  <2> QED
    BY <1>2, <2>1, <2>2, HeadEnds DEF Holds, At
<1>4. file' = [file EXCEPT ![e] = Append(@, line)] /\ index' = index
  BY <1>3 DEF WriteLine
<1>5. Entries(file'[e]) = Append(Entries(file[e]), Terminal(p))
  <2>1. line \in Line /\ line.terminal = Terminal(p)
    BY <1>2, NewLineTypes
  <2>2. file'[e] = Append(file[e], line)
    BY <1>2, <1>4 DEF Inv, TypeOK
  <2> QED
    BY <1>2, <2>1, <2>2, AppendEntries
<1>6. [f \in Episodes |-> Entries(file'[f])] =
        [[f \in Episodes |-> Entries(file[f])] EXCEPT ![e] = Append(@, Terminal(p))]
  BY <1>2, <1>4, <1>5 DEF Inv, TypeOK
<1>7. ~Log!Ended(e)
  BY <1>2, <1>3, SameEnd
<1>8. Log!Write(e, Terminal(p))
  BY <1>4, <1>6, <1>7 DEF Log!Write
<1> QED
  BY <1>2, <1>8 DEF PromiseStep, Log!Next

\* Every step is one of the promise or unseen.
LEMMA StepPromise == Inv /\ [Next]_vars => PromiseStep
<1> SUFFICES ASSUME Inv, [Next]_vars PROVE PromiseStep
  OBVIOUS
<1>1. ASSUME NEW p \in Stores, InsertRow(p) PROVE PromiseStep
  <2> DEFINE e == proc[p].e
             row == proc[p].row
  <2>1. e \in Episodes /\ row \in {"open", "ended"} /\ (row = "ended" => Ends(file[e]))
    BY <1>1 DEF InsertRow, At, Inv, TypeOK, AtEpisode, ProcState, Rows, IInv, RowsAreTrue
  <2>2. row = "ended" => Log!Ended(e)
    BY <2>1, SameEnd
  <2>3. Log!List(e, row)
    BY <1>1, <2>2 DEF InsertRow, Log!List
  <2> QED
    BY <2>1, <2>3 DEF PromiseStep, Log!Next
<1>2. CASE LoseIndex
  BY <1>2 DEF LoseIndex, PromiseStep, Log!Next, Log!LoseListing
<1>3. ASSUME NEW p \in Stores, WriteLine(p) PROVE PromiseStep
  BY <1>3, LineIsEntry
<1>4. CASE UNCHANGED <<file, index>>
  BY <1>4, Unseen DEF PromiseStep
<1>5. ASSUME NEW p \in Stores, Client(p) \/ Recover(p) \/ WriteFails(p) \/ Crash(p)
      PROVE UNCHANGED <<file, index>>
  BY <1>5 DEF Client, Create, AppendEvent, Finish, Prepare, Recover, WriteFails, Crash, disk
<1>6. ASSUME NEW p \in Stores, Working(p), ~WriteLine(p), ~InsertRow(p)
      PROVE UNCHANGED <<file, index>>
  BY <1>6 DEF Working, CreateStep, WritePart, Note, WriteSummary, ReadRow, RecoverNext, Cut,
              RecoverRead, RecoverFinish, Prepare, Dismiss, disk
<1>7. CASE UNCHANGED vars
  BY <1>7, <1>4 DEF vars, disk
<1> QED
  BY <1>1, <1>2, <1>3, <1>4, <1>5, <1>6, <1>7 DEF Next

\* Journal and index keep the store's promise: one line at a time, nothing removed,
\* nothing after a terminal, no row that runs ahead of the journal.
THEOREM PromiseKept == Spec => KeepsLog
<1>1. Init => Log!Init
  BY DEF Init, Log!Init, Entries
<1>2. Inv /\ [Next]_vars => [Log!Next]_(Log!vars)
  BY StepPromise DEF PromiseStep
<1>3. Spec => []Inv
  BY IndInit, IndStep, PTL DEF Spec
<1> QED
  BY <1>1, <1>2, <1>3, PTL DEF Spec, KeepsLog, Log!Spec
=============================================================================
