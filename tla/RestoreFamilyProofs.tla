------------------------ MODULE RestoreFamilyProofs ------------------------
(***************************************************************************)
(* RestoreFamily for any number of children, calls and caps, where one     *)
(* server process admits and runs the family: what its ledger, journals    *)
(* and terminals say of each other, whatever crashes between two writes.   *)
(***************************************************************************)
EXTENDS RestoreFamily, FiniteSetTheorems, TLAPS

---------------------------------------------------------------------------
(* Least counterexamples *)

\* A set of natural numbers has a least element.
LEMMA LeastNat ==
  ASSUME NEW T \in SUBSET Nat, T # {}
  PROVE  \E n \in T : \A m \in T : n <= m
<1>1. PICK n \in T : \A m \in T : ~(<<m, n>> \in OpToRel(<, Nat))
  BY NatLessThanWellFounded, WFMin
<1>2. \A m \in T : ~(m < n)
  BY <1>1 DEF OpToRel
<1> QED
  BY <1>2

\* Among subsets of a finite set, one has no member removable within them.
LEMMA MinimalSubset ==
  ASSUME NEW S, IsFiniteSet(S), NEW bad \in SUBSET SUBSET S, bad # {}
  PROVE  \E A \in bad : \A x \in A : A \ {x} \notin bad
<1> DEFINE sizes == {Cardinality(A) : A \in bad}
<1>1. \A A \in bad : IsFiniteSet(A) /\ Cardinality(A) \in Nat
  BY FS_Subset, FS_CardinalityType
<1>2. sizes \in SUBSET Nat /\ sizes # {}
  BY <1>1
<1>3. PICK n \in sizes : \A m \in sizes : n <= m
  BY <1>2, LeastNat
<1>4. PICK A \in bad : Cardinality(A) = n
  BY <1>3
<1>5. \A x \in A : Cardinality(A \ {x}) = n - 1
  BY <1>1, <1>4, FS_RemoveElement
<1>6. \A x \in A : A \ {x} \in bad => n <= n - 1
  BY <1>3, <1>5
<1>7. n \in Nat
  BY <1>1, <1>4
<1> QED
  BY <1>4, <1>6, <1>7

\* What holds of 0, and of every number up to N when it holds of the one
\* before, holds up to N.
LEMMA Upwards ==
    ASSUME NEW N \in Nat, NEW P, 0 \in P, \A n \in 1 .. N : n - 1 \in P => n \in P
    PROVE  0 .. N \subseteq P
<1> DEFINE bad == {n \in Nat : n <= N /\ n \notin P}
<1> SUFFICES ASSUME bad # {} PROVE FALSE
  OBVIOUS
<1>1. bad \in SUBSET Nat
  OBVIOUS
<1>2. PICK n \in bad : \A m \in bad : n <= m
  <2> HIDE DEF bad
  <2> QED
    BY <1>1, LeastNat
<1>3. n # 0
  BY <1>2
<1>4. n \in 1 .. N /\ n - 1 \in Nat /\ n - 1 <= N /\ ~(n <= n - 1)
  BY <1>2, <1>3
<1>5. n - 1 \in P
  BY <1>2, <1>4
<1> QED
  BY <1>2, <1>4, <1>5

---------------------------------------------------------------------------
(* What rows cost *)

\* A sequence of rows, its positions and what they cost.
LEMMA RowFacts ==
    ASSUME NEW rows \in Seq(Row)
    PROVE  /\ IsFiniteSet(DOMAIN rows)
           /\ DOMAIN rows = 1 .. Len(rows) /\ Len(rows) \in Nat
           /\ \A i \in DOMAIN rows :
                /\ rows[i] \in Row /\ rows[i].cost \in Nat
                /\ rows[i].owner \in Episodes /\ rows[i].settled \in BOOLEAN
<1>1. DOMAIN rows = 1 .. Len(rows) /\ Len(rows) \in Nat
  OBVIOUS
<1>2. IsFiniteSet(1 .. Len(rows))
  BY <1>1, FS_Interval
<1>3. \A i \in DOMAIN rows : rows[i] \in Row
  OBVIOUS
<1>4. \A r \in Row : r.cost \in Nat /\ r.owner \in Episodes /\ r.settled \in BOOLEAN
  BY FamilyAssumption DEF Row
<1> QED
  BY <1>1, <1>2, <1>3, <1>4

\* The rows of some episodes are rows, and finitely many.
LEMMA OwnedFacts ==
    ASSUME NEW rows \in Seq(Row), NEW S
    PROVE  /\ Owned(rows, S) \subseteq DOMAIN rows /\ IsFiniteSet(Owned(rows, S))
           /\ Cardinality(Owned(rows, S)) \in Nat
<1>1. Owned(rows, S) \subseteq DOMAIN rows
  BY DEF Owned
<1>2. IsFiniteSet(DOMAIN rows)
  BY RowFacts
<1> QED
  BY <1>1, <1>2, FS_Subset, FS_CardinalityType

\* The running total of the rows up to the nth.
RunsTo(t, rows, S, N) ==
    t = [n \in 0 .. N |-> IF n = 0 THEN 0
                          ELSE t[n - 1] + (IF n \in S THEN rows[n].cost ELSE 0)]

\* There is a running total of every length.
LEMMA RunsToExists ==
    ASSUME NEW rows, NEW S, NEW N \in Nat
    PROVE  \E t : RunsTo(t, rows, S, N)
<1> DEFINE P == {n \in 0 .. N : \E t : RunsTo(t, rows, S, n)}
<1>1. 0 \in P
  <2> DEFINE t == [n \in 0 .. 0 |-> 0]
  <2>1. t = [n \in 0 .. 0 |-> IF n = 0 THEN 0
                             ELSE t[n - 1] + (IF n \in S THEN rows[n].cost ELSE 0)]
    OBVIOUS
  <2> HIDE DEF t
  <2>2. RunsTo(t, rows, S, 0)
    BY <2>1 DEF RunsTo
  <2> QED
    BY <2>2
<1>2. ASSUME NEW k \in 1 .. N, k - 1 \in P PROVE k \in P
  <2>1. PICK g : RunsTo(g, rows, S, k - 1)
    BY <1>2
  <2>2. PICK t : t = [n \in 0 .. k |-> IF n = k
                                       THEN g[k - 1] + (IF k \in S THEN rows[k].cost ELSE 0)
                                       ELSE g[n]]
    OBVIOUS
  <2>3. \A n \in 0 .. k - 1 : t[n] = g[n]
    BY <2>2
  <2>4. \A n \in 0 .. k - 1 :
          g[n] = IF n = 0 THEN 0
                 ELSE g[n - 1] + (IF n \in S THEN rows[n].cost ELSE 0)
    BY <2>1 DEF RunsTo
  <2>5. \A n \in 0 .. k :
          t[n] = IF n = 0 THEN 0
                 ELSE t[n - 1] + (IF n \in S THEN rows[n].cost ELSE 0)
    <3> SUFFICES ASSUME NEW n \in 0 .. k
                 PROVE  t[n] = IF n = 0 THEN 0
                               ELSE t[n - 1] + (IF n \in S THEN rows[n].cost ELSE 0)
      OBVIOUS
    <3>1. CASE n = k
      BY <2>2, <2>3, <3>1
    <3>2. CASE n # k
      <4>1. n \in 0 .. k - 1 /\ (n # 0 => n - 1 \in 0 .. k - 1)
        BY <3>2
      <4> QED
        BY <2>3, <2>4, <4>1
    <3> QED
      BY <3>1, <3>2
  <2>6. RunsTo(t, rows, S, k)
    <3>1. DOMAIN t = 0 .. k /\ t = [n \in 0 .. k |-> t[n]]
      BY <2>2
    <3> QED
      BY <2>5, <3>1 DEF RunsTo
  <2> QED
    BY <1>2, <2>6
<1> HIDE DEF P
<1>3. 0 .. N \subseteq P
  BY <1>1, <1>2, Upwards
<1> QED
  BY <1>3 DEF P

\* A running total of natural numbers whose last entry is what the rows cost.
Totals(t, rows, S) ==
    /\ CostOf(rows, S) = t[Len(rows)] /\ t[0] = 0
    /\ \A n \in 1 .. Len(rows) :
         t[n] = t[n - 1] + (IF n \in S THEN rows[n].cost ELSE 0)
    /\ \A n \in 0 .. Len(rows) : t[n] \in Nat

\* Rows have such a total.
LEMMA CostRuns ==
    ASSUME NEW rows \in Seq(Row), NEW S
    PROVE  \E t : Totals(t, rows, S)
<1>1. Len(rows) \in Nat /\ DOMAIN rows = 1 .. Len(rows)
  BY RowFacts
<1>2. PICK t : t = CHOOSE g : RunsTo(g, rows, S, Len(rows))
  OBVIOUS
<1>3. RunsTo(t, rows, S, Len(rows))
  BY <1>1, <1>2, RunsToExists
<1>4. CostOf(rows, S) = t[Len(rows)]
  BY <1>2 DEF CostOf, RunsTo
<1>5. \A n \in 0 .. Len(rows) :
        t[n] = IF n = 0 THEN 0
               ELSE t[n - 1] + (IF n \in S THEN rows[n].cost ELSE 0)
  BY <1>3 DEF RunsTo
<1>6. /\ t[0] = 0
      /\ \A n \in DOMAIN rows : t[n] = t[n - 1] + (IF n \in S THEN rows[n].cost ELSE 0)
  BY <1>1, <1>5
<1> DEFINE P == {n \in 0 .. Len(rows) : t[n] \in Nat}
<1>7. 0 \in P
  BY <1>1, <1>6
<1>8. \A n \in 1 .. Len(rows) : n - 1 \in P => n \in P
  BY <1>1, <1>6, RowFacts
<1> HIDE DEF P
<1>9. 0 .. Len(rows) \subseteq P
  BY <1>1, <1>7, <1>8, Upwards
<1> QED
  BY <1>1, <1>4, <1>6, <1>9 DEF P, Totals

\* A cost is a natural number.
LEMMA CostType ==
    ASSUME NEW rows \in Seq(Row), NEW S \in SUBSET DOMAIN rows
    PROVE  IsFiniteSet(S) /\ CostOf(rows, S) \in Nat
<1>1. IsFiniteSet(S)
  BY RowFacts, FS_Subset
<1>2. CostOf(rows, S) \in Nat
  BY CostRuns, RowFacts DEF Totals
<1> QED
  BY <1>1, <1>2

\* Some of the rows cost no more than more of them.
LEMMA CostPart ==
    ASSUME NEW rows \in Seq(Row), NEW S \in SUBSET DOMAIN rows, NEW T \in SUBSET S
    PROVE  CostOf(rows, T) <= CostOf(rows, S)
<1>1. PICK t : Totals(t, rows, T)
  BY CostRuns
<1>2. PICK s : Totals(s, rows, S)
  BY CostRuns
<1> USE DEF Totals
<1> DEFINE P == {n \in 0 .. Len(rows) : t[n] <= s[n]}
<1>3. Len(rows) \in Nat /\ DOMAIN rows = 1 .. Len(rows)
  BY RowFacts
<1>4. 0 \in P
  BY <1>1, <1>2, <1>3
<1>5. ASSUME NEW n \in 1 .. Len(rows), n - 1 \in P PROVE n \in P
  <2>1. rows[n].cost \in Nat /\ t[n - 1] <= s[n - 1] /\ n - 1 \in 0 .. Len(rows)
    BY <1>3, <1>5, RowFacts
  <2>2. n \in T => n \in S
    OBVIOUS
  <2> QED
    BY <1>1, <1>2, <1>3, <2>1, <2>2
<1> HIDE DEF P
<1>6. 0 .. Len(rows) \subseteq P
  BY <1>3, <1>4, <1>5, Upwards
<1> QED
  BY <1>1, <1>2, <1>3, <1>6 DEF P

\* What rows cost is known from their first rows, where the others do not count.
LEMMA CostOfFirst ==
    ASSUME NEW rows \in Seq(Row), NEW S, NEW k \in 0 .. Len(rows), S \subseteq 1 .. k,
           NEW t, t[0] = 0,
           \A n \in 1 .. k : t[n] = t[n - 1] + (IF n \in S THEN rows[n].cost ELSE 0)
    PROVE  CostOf(rows, S) = t[k]
<1>1. PICK s : Totals(s, rows, S)
  BY CostRuns
<1> USE DEF Totals
<1> DEFINE P == {n \in 0 .. Len(rows) : s[n] = IF n <= k THEN t[n] ELSE t[k]}
<1>2. Len(rows) \in Nat /\ DOMAIN rows = 1 .. Len(rows)
  BY RowFacts
<1>3. 0 \in P
  BY <1>1, <1>2
<1>4. ASSUME NEW n \in 1 .. Len(rows), n - 1 \in P PROVE n \in P
  <2>1. s[n] = s[n - 1] + (IF n \in S THEN rows[n].cost ELSE 0) /\ s[n - 1] \in Nat
    BY <1>1, <1>2
  <2>2. CASE n <= k
    <3>1. s[n - 1] = t[n - 1] /\ n \in 1 .. k
      BY <1>4, <2>2
    <3> QED
      BY <2>1, <2>2, <3>1
  <2>3. CASE ~(n <= k)
    <3>1. n \notin S /\ s[n] = s[n - 1]
      BY <2>1, <2>3
    <3>2. s[n - 1] = t[k]
      <4>1. s[n - 1] = IF n - 1 <= k THEN t[n - 1] ELSE t[k]
        BY <1>4
      <4>2. n - 1 <= k => n - 1 = k
        BY <2>3
      <4> QED
        BY <4>1, <4>2
    <3> QED
      BY <2>3, <3>1, <3>2
  <2> QED
    BY <2>2, <2>3
<1> HIDE DEF P
<1>5. 0 .. Len(rows) \subseteq P
  BY <1>2, <1>3, <1>4, Upwards
<1>6. s[Len(rows)] = IF Len(rows) <= k THEN t[Len(rows)] ELSE t[k]
  BY <1>2, <1>5 DEF P
<1> QED
  BY <1>1, <1>2, <1>6

\* Rows that stay as they were cost what they cost.
LEMMA CostSame ==
    ASSUME NEW rows \in Seq(Row), NEW more \in Seq(Row), NEW S \in SUBSET DOMAIN rows,
           S \subseteq DOMAIN more, \A i \in S : more[i].cost = rows[i].cost
    PROVE  CostOf(more, S) = CostOf(rows, S)
<1>1. /\ Len(rows) \in Nat /\ DOMAIN rows = 1 .. Len(rows)
      /\ Len(more) \in Nat /\ DOMAIN more = 1 .. Len(more)
  BY RowFacts
<1>2. PICK t : Totals(t, rows, S)
  BY CostRuns
<1>3. PICK k : k = IF Len(rows) <= Len(more) THEN Len(rows) ELSE Len(more)
  OBVIOUS
<1>4. k \in 0 .. Len(rows) /\ k \in 0 .. Len(more) /\ S \subseteq 1 .. k
  BY <1>1, <1>3
<1>5. t[0] = 0 /\ \A n \in 1 .. k : t[n] = t[n - 1] + (IF n \in S THEN rows[n].cost ELSE 0)
  BY <1>1, <1>2, <1>4 DEF Totals
<1>6. CostOf(rows, S) = t[k]
  <2>1. k \in 0 .. Len(rows) /\ S \subseteq 1 .. k
    BY <1>4
  <2> QED
    BY <2>1, <1>5, CostOfFirst
<1>7. \A n \in 1 .. k : t[n] = t[n - 1] + (IF n \in S THEN more[n].cost ELSE 0)
  BY <1>5
<1>8. CostOf(more, S) = t[k]
  BY <1>4, <1>5, <1>7, CostOfFirst
<1> QED
  BY <1>6, <1>8

\* One more row adds its cost.
LEMMA CostOneMore ==
    ASSUME NEW rows \in Seq(Row), NEW S \in SUBSET DOMAIN rows, NEW i \in DOMAIN rows, i \notin S
    PROVE  CostOf(rows, S \cup {i}) = CostOf(rows, S) + rows[i].cost
<1> DEFINE T == S \cup {i}
           c == rows[i].cost
<1>1. PICK t : Totals(t, rows, T)
  BY CostRuns
<1>2. PICK s : Totals(s, rows, S)
  BY CostRuns
<1> USE DEF Totals
<1> DEFINE P == {n \in 0 .. Len(rows) : t[n] = s[n] + (IF i <= n THEN c ELSE 0)}
<1>3. Len(rows) \in Nat /\ DOMAIN rows = 1 .. Len(rows) /\ c \in Nat
  BY RowFacts
<1>4. 0 \in P
  BY <1>1, <1>2, <1>3
<1>5. ASSUME NEW n \in 1 .. Len(rows), n - 1 \in P PROVE n \in P
  <2>1. /\ t[n] = t[n - 1] + (IF n \in T THEN rows[n].cost ELSE 0) /\ t[n - 1] \in Nat
        /\ s[n] = s[n - 1] + (IF n \in S THEN rows[n].cost ELSE 0) /\ s[n - 1] \in Nat
        /\ t[n - 1] = s[n - 1] + (IF i <= n - 1 THEN c ELSE 0) /\ rows[n].cost \in Nat
    BY <1>1, <1>2, <1>3, <1>5, RowFacts
  <2>2. CASE n = i
    <3>1. n \in T /\ n \notin S /\ ~(i <= n - 1) /\ i <= n
      BY <2>2
    <3>2. t[n] = t[n - 1] + c /\ s[n] = s[n - 1] /\ t[n - 1] = s[n - 1]
      BY <2>1, <2>2, <3>1
    <3> HIDE DEF c, T
    <3> QED
      BY <3>1, <3>2
  <2>3. CASE n # i
    <3>1. (n \in T <=> n \in S) /\ (i <= n - 1 <=> i <= n)
      BY <1>3, <2>3
    <3> HIDE DEF c, T
    <3> QED
      BY <1>3, <2>1, <3>1
  <2> QED
    BY <2>2, <2>3
<1> HIDE DEF P
<1>6. 0 .. Len(rows) \subseteq P
  BY <1>3, <1>4, <1>5, Upwards
<1>7. t[Len(rows)] = s[Len(rows)] + c
  BY <1>3, <1>6 DEF P
<1> QED
  BY <1>1, <1>2, <1>7

\* No row costs nothing.
LEMMA CostNone ==
    ASSUME NEW rows \in Seq(Row)
    PROVE  CostOf(rows, {}) = 0
<1> DEFINE t == [n \in {0} |-> 0]
<1>1. 0 \in 0 .. Len(rows) /\ {} \subseteq 1 .. 0 /\ t[0] = 0
  BY RowFacts
<1>2. \A n \in 1 .. 0 : t[n] = t[n - 1] + (IF n \in {} THEN rows[n].cost ELSE 0)
  OBVIOUS
<1> HIDE DEF t
<1>3. CostOf(rows, {}) = t[0]
  BY <1>1, <1>2, CostOfFirst
<1> QED
  BY <1>1, <1>3

\* A reservation that is appended to the ledger.
LEMMA ReservedRow ==
    ASSUME NEW rows \in Seq(Row), NEW r \in Row, NEW e \in Episodes
    PROVE  /\ Append(rows, r) \in Seq(Row) /\ Len(Append(rows, r)) = Len(rows) + 1
           /\ DOMAIN Append(rows, r) = DOMAIN rows \cup {Len(rows) + 1}
           /\ Append(rows, r)[Len(rows) + 1] = r
           /\ \A i \in DOMAIN rows : Append(rows, r)[i] = rows[i]
           /\ Owned(Append(rows, r), {e})
                = Owned(rows, {e}) \cup (IF r.owner = e THEN {Len(rows) + 1} ELSE {})
           /\ CostOf(Append(rows, r), Owned(Append(rows, r), {e}))
                = CostOf(rows, Owned(rows, {e})) + (IF r.owner = e THEN r.cost ELSE 0)
<1> DEFINE more == Append(rows, r)
           n == Len(rows) + 1
<1>1. /\ more \in Seq(Row) /\ Len(more) = n /\ more[n] = r
      /\ \A i \in DOMAIN rows : more[i] = rows[i]
  OBVIOUS
<1>2. DOMAIN more = DOMAIN rows \cup {n} /\ n \notin DOMAIN rows
  <2>1. DOMAIN more = 1 .. n /\ DOMAIN rows = 1 .. Len(rows) /\ Len(rows) \in Nat
    BY <1>1
  <2> QED
    BY <2>1
<1> HIDE DEF more, n
<1>3. Owned(more, {e}) = Owned(rows, {e}) \cup (IF r.owner = e THEN {n} ELSE {})
  BY <1>1, <1>2 DEF Owned
<1>4. Owned(rows, {e}) \subseteq DOMAIN rows
  BY OwnedFacts
<1>5. CostOf(more, Owned(rows, {e})) = CostOf(rows, Owned(rows, {e}))
  BY <1>1, <1>2, <1>4, CostSame, ZenonT(40)
<1>6. CostOf(rows, Owned(rows, {e})) \in Nat
  BY <1>4, CostType
<1>7. CASE r.owner = e
  <2>1. CostOf(more, Owned(rows, {e}) \cup {n}) = CostOf(more, Owned(rows, {e})) + more[n].cost
    BY <1>1, <1>2, <1>4, CostOneMore
  <2> QED
    BY <1>1, <1>2, <1>3, <1>5, <1>7, <2>1 DEF more, n
<1>8. CASE r.owner # e
  BY <1>1, <1>2, <1>3, <1>5, <1>6, <1>8 DEF more, n
<1> QED
  BY <1>7, <1>8

\* A row that is settled.
Settled(rows, k) == [rows EXCEPT ![k].cost = Actual, ![k].settled = TRUE]

LEMMA SettledRow ==
    ASSUME NEW rows \in Seq(Row), NEW k \in DOMAIN rows, NEW e \in Episodes
    PROVE  /\ Settled(rows, k) \in Seq(Row) /\ Len(Settled(rows, k)) = Len(rows)
           /\ DOMAIN Settled(rows, k) = DOMAIN rows
           /\ Settled(rows, k)[k] = [owner |-> rows[k].owner, cost |-> Actual, settled |-> TRUE]
           /\ \A i \in DOMAIN rows \ {k} : Settled(rows, k)[i] = rows[i]
           /\ \A S : Owned(Settled(rows, k), S) = Owned(rows, S)
           /\ CostOf(Settled(rows, k), Owned(rows, {e}))
                = CostOf(rows, Owned(rows, {e}))
                    - (IF rows[k].owner = e THEN rows[k].cost - Actual ELSE 0)
<1> DEFINE new == Settled(rows, k)
<1>0. /\ \A i \in DOMAIN rows : rows[i] \in Row
      /\ [owner |-> rows[k].owner, cost |-> Actual, settled |-> TRUE] \in Row
  <2>1. rows[k].owner \in Episodes
    BY RowFacts
  <2>2. [owner |-> rows[k].owner, cost |-> Actual, settled |-> TRUE] \in Row
    BY <2>1 DEF Row
  <2> QED
    BY <2>2, RowFacts
<1>1. /\ new[k] = [owner |-> rows[k].owner, cost |-> Actual, settled |-> TRUE]
      /\ \A i \in DOMAIN rows \ {k} : new[i] = rows[i]
      /\ DOMAIN new = DOMAIN rows
  BY <1>0 DEF Settled, Row
<1>2. new \in Seq(Row) /\ Len(new) = Len(rows)
  <2>1. \A i \in DOMAIN new : new[i] \in Row
    BY <1>0, <1>1
  <2>2. new = [i \in DOMAIN new |-> new[i]]
    BY DEF Settled
  <2>3. DOMAIN new = 1 .. Len(rows) /\ Len(rows) \in Nat
    BY <1>1
  <2> HIDE DEF new
  <2>4. new \in [1 .. Len(rows) -> Row]
    BY <2>1, <2>2, <2>3
  <2> QED
    BY <2>3, <2>4
<1> HIDE DEF new
<1>3. \A i \in DOMAIN rows : new[i].owner = rows[i].owner
  BY <1>1
<1>4. \A S : Owned(new, S) = Owned(rows, S)
  BY <1>1, <1>3 DEF Owned
<1> DEFINE mine == Owned(rows, {e})
           old == mine \ {k}
<1>5. mine \subseteq DOMAIN rows /\ (k \in mine <=> rows[k].owner = e)
  BY DEF Owned
<1> HIDE DEF mine
<1>6. CostOf(new, old) = CostOf(rows, old) /\ CostOf(rows, old) \in Nat
  <2>1. old \subseteq DOMAIN rows /\ old \subseteq DOMAIN new
    BY <1>1, <1>5
  <2>2. \A i \in old : new[i].cost = rows[i].cost
    BY <1>1, <2>1
  <2> QED
    BY <1>2, <2>1, <2>2, CostSame, CostType
<1>7. rows[k].cost \in Nat /\ new[k].cost = Actual /\ Actual \in Nat
  BY <1>1, RowFacts, FamilyAssumption
<1>8. CostOf(new, mine)
        = CostOf(rows, mine) - (IF rows[k].owner = e THEN rows[k].cost - Actual ELSE 0)
  <2>1. CASE k \in mine
    <3>1. mine = old \cup {k} /\ k \notin old /\ old \subseteq DOMAIN rows
      BY <1>5, <2>1
    <3> HIDE DEF old
    <3>2. /\ CostOf(rows, old \cup {k}) = CostOf(rows, old) + rows[k].cost
          /\ CostOf(new, old \cup {k}) = CostOf(new, old) + new[k].cost
      BY <1>1, <1>2, <3>1, CostOneMore
    <3> QED
      BY <1>5, <1>6, <1>7, <2>1, <3>1, <3>2
  <2>2. CASE k \notin mine
    <3>1. old = mine
      BY <2>2
    <3> HIDE DEF old
    <3>2. CostOf(new, mine) = CostOf(rows, mine) /\ CostOf(rows, mine) \in Nat
      BY <1>6, <3>1
    <3> QED
      BY <1>5, <2>2, <3>2
  <2> QED
    BY <2>1, <2>2
<1> QED
  BY <1>1, <1>2, <1>4, <1>8 DEF new, mine

---------------------------------------------------------------------------
(* What the invariant says *)

\* Episodes and rows are numbered, and all bounds are numbers.
LEMMA Numbers ==
    /\ Root \in Episodes /\ Root = 0
    /\ \A e \in Episodes : e \in Nat
    /\ {MaxChildren, MaxCalls, MaxRows, Reserve, Actual, Cap} \subseteq Nat
    /\ 0 < Actual /\ Actual < Reserve
<1>1. {MaxChildren, MaxCalls, MaxRows, Reserve, Actual, Cap} \subseteq Nat
  BY FamilyAssumption
<1> QED
  BY <1>1, FamilyAssumption DEF Episodes, Root

\* The types of what one service and one episode keep.
LEMMA Types ==
    ASSUME IInv, NEW s \in Services, NEW e \in Episodes
    PROVE  /\ meta[e] \in Manifest /\ log[e] \in Journal
           /\ svc[s] \in InHand /\ thr[s] \in Thread
           /\ thr[s].ep \in Episodes /\ ledger \in Seq(Row)
<1>1. thr[s] \in Thread
  BY DEF IInv, TypeOK
<1>2. thr[s].ep \in Episodes
  BY <1>1 DEF Thread
<1> QED
  BY <1>1, <1>2 DEF IInv, TypeOK

\* A live thread is the only one, nothing is being admitted, and its episode
\* is the last one there is.
LEMMA LiveThread ==
    ASSUME OneService, IInv, NEW s \in Services, thr[s].step # "none"
    PROVE  /\ \A d \in Services : d = s
           /\ \A d \in Services : svc[d].step = "idle"
           /\ Running(thr[s]) /\ thr[s].ep \in Episodes /\ Exists(thr[s].ep)
           /\ \A e \in Episodes : Exists(e) => e <= thr[s].ep
           /\ thr[s].ep = Root => \A e \in Episodes \ {Root} : meta[e].kind = "absent"
<1>1. \A d \in Services : d = s
  BY DEF OneService
<1>2. svc[s].step = "idle" /\ Running(thr[s])
  BY DEF IInv, Threads
<1>3. thr[s].ep \in Episodes
  BY Types DEF IInv, TypeOK, Thread
<1>4. Exists(thr[s].ep) /\ \A e \in Episodes : Exists(e) => e <= thr[s].ep
  BY <1>2 DEF Running
<1>5. thr[s].ep = Root => \A e \in Episodes \ {Root} : meta[e].kind = "absent"
  <2> SUFFICES ASSUME thr[s].ep = Root, NEW e \in Episodes \ {Root}, Exists(e) PROVE FALSE
    BY DEF Exists
  <2>1. e <= Root
    BY <1>4
  <2> QED
    BY <2>1, Numbers
<1> QED
  BY <1>1, <1>2, <1>3, <1>4, <1>5

\* The runner's count: what it inherited and the rows of its own.
LEMMA RunnerCounts ==
    ASSUME OneService, IInv, NEW s \in Services, thr[s].step # "none"
    PROVE  thr[s].calls = meta[thr[s].ep].calls + Cardinality(Owned(ledger, {thr[s].ep}))
<1> DEFINE e == thr[s].ep
           from == meta[e].calls
           n == Len(ledger)
<1>1. /\ e \in Episodes /\ Exists(e) /\ Running(thr[s])
      /\ \A d \in Episodes : Exists(d) => d <= e
  BY LiveThread
<1>2. /\ ledger \in Seq(Row) /\ from \in Nat /\ n \in Nat /\ DOMAIN ledger = 1 .. n
      /\ thr[s].calls = n /\ from <= n
  <2>1. meta[e] \in Manifest
    BY <1>1 DEF IInv, TypeOK
  <2>2. from \in Nat
    BY <2>1 DEF Manifest
  <2>3. from <= n
    BY <1>1 DEF IInv, Manifests
  <2> QED
    BY <1>1, <2>2, <2>3 DEF IInv, TypeOK, Running
<1> HIDE DEF e, from, n
<1>3. Owned(ledger, {e}) = from + 1 .. n
  <2>1. ASSUME NEW i \in DOMAIN ledger
        PROVE  ledger[i].owner = e <=> from < i
    <3>1. /\ ledger[i].owner \in Episodes /\ i \in Nat
      BY <1>2, RowFacts
    <3>2. /\ Exists(ledger[i].owner) /\ meta[ledger[i].owner].calls < i
          /\ ledger[i].owner < e => i <= from
      BY <1>1, <2>1 DEF IInv, Rows, from
    <3>3. ledger[i].owner <= e
      BY <1>1, <3>1, <3>2
    <3>4. CASE ledger[i].owner = e
      BY <3>2, <3>4 DEF from
    <3>5. CASE ledger[i].owner # e
      <4>0. ledger[i].owner \in Nat /\ e \in Nat
        BY <1>1, <3>1, Numbers
      <4>1. ledger[i].owner < e
        BY <3>3, <3>5, <4>0
      <4> QED
        BY <1>2, <3>1, <3>2, <3>5, <4>1
    <3> QED
      BY <3>4, <3>5
  <2>2. \A i \in 1 .. n : from < i <=> i \in from + 1 .. n
    BY <1>2
  <2>3. from + 1 .. n \subseteq 1 .. n
    BY <1>2
  <2> QED
    BY <1>2, <2>1, <2>2, <2>3 DEF Owned
<1>4. Cardinality(from + 1 .. n) = n - from
  <2>1. from + 1 \in Int /\ n \in Int
    BY <1>2
  <2>2. Cardinality(from + 1 .. n) = IF from + 1 > n THEN 0 ELSE n - (from + 1) + 1
    BY <2>1, FS_Interval
  <2> QED
    BY <1>2, <2>2
<1> QED
  BY <1>2, <1>3, <1>4 DEF e, from

\* What a terminal claims stays true as long as the rows of its episode do.
LEMMA ClaimsStay ==
    ASSUME NEW e \in Episodes, Claims(e), log'[e] = log[e], meta'[e].calls = meta[e].calls,
           Owned(ledger, {e})' = Owned(ledger, {e}), Spent(e)' = Spent(e)
    PROVE  Claims(e)'
<1>1. Started(e)' = Started(e) /\ Priced(e)' = Priced(e)
  BY DEF Started, Priced
<1>2. log[e].terminal' = log[e].terminal /\ log[e].requests' = log[e].requests
  OBVIOUS
<1> HIDE DEF Started, Priced, Spent
<1> QED
  BY <1>1, <1>2 DEF Claims

\* The one thread there is, as a step leaves it.
LEMMA OneThread ==
    ASSUME NEW s \in Services, \A d \in Services : d = s, NEW t, thr'[s] = t,
           t.step # "none" => svc'[s].step = "idle" /\ Running(t)'
    PROVE  Threads'
<1> SUFFICES ASSUME NEW d \in Services, thr'[d].step # "none"
             PROVE  svc'[d].step = "idle" /\ Running(thr[d])'
  BY DEF Threads
<1>1. d = s /\ thr'[d] = t /\ svc'[d].step = "idle" /\ Running(t)'
  OBVIOUS
<1>2. Spent(thr[d].ep)' = Spent(t.ep)'
  BY <1>1 DEF Spent
<1>3. Calling(t)' => Calling(thr[d])'
  BY <1>1 DEF Calling
<1> HIDE DEF Spent, Calling
<1>4. Running(thr[d])'
  BY <1>1, <1>2, <1>3 DEF Running, Exists, Started, Ended
<1> QED
  BY <1>1, <1>4

\* A step of the running thread that leaves the ledger alone: its journal and
\* its own account may go on, and the run may end.
LEMMA JournalStep ==
    ASSUME OneService, IInv, NEW s \in Services, thr[s].step # "none",
           NEW new \in Journal, NEW t \in Thread,
           log' = [log EXCEPT ![thr[s].ep] = new], thr' = [thr EXCEPT ![s] = t],
           UNCHANGED <<meta, ledger, svc>>,
           log[thr[s].ep].requests \subseteq new.requests,
           new.requests \subseteq Owned(ledger, {thr[s].ep}),
           new.responses \subseteq {i \in new.requests : ledger[i].settled},
           Started(thr[s].ep) => new.stage # "empty",
           \A e \in Episodes : e = thr[s].ep => Claims(e)', t.step # "none" => Running(t)',
           \/ new.terminal = log[thr[s].ep].terminal
           \/ new.terminal.why # "cost_cap"
           \/ thr[s].ep = Root => Spent(Root) + Reserve > Cap
    PROVE  IInv'
<1> DEFINE e == thr[s].ep
<1>1. /\ e \in Episodes /\ Exists(e)
      /\ \A d \in Services : d = s
      /\ \A d \in Services : svc[d].step = "idle"
      /\ e = Root => \A d \in Episodes \ {Root} : meta[d].kind = "absent"
  BY LiveThread
<1> HIDE DEF e
<1>2. /\ log \in [Episodes -> Journal] /\ thr \in [Services -> Thread]
      /\ log' = [log EXCEPT ![e] = new] /\ log'[e] = new /\ thr'[s] = t
      /\ \A d \in Episodes \ {e} : log'[d] = log[d]
  BY <1>1 DEF IInv, TypeOK, e
<1>3. TypeOK' /\ SharedAllowance'
  BY <1>2 DEF IInv, TypeOK, SharedAllowance
<1>4. Manifests'
  BY DEF IInv, Manifests, Exists
<1>5. Rows'
  <2> SUFFICES ASSUME NEW i \in DOMAIN ledger
               PROVE  /\ ledger[i].settled => i \in log'[ledger[i].owner].requests
                      /\ log'[ledger[i].owner].stage # "empty"
    BY DEF IInv, Rows, Exists, Started
  <2>1. /\ ledger[i].settled => i \in log[ledger[i].owner].requests
        /\ Started(ledger[i].owner)
    BY DEF IInv, Rows
  <2>2. ledger[i].owner \in Episodes
    BY RowFacts DEF IInv, TypeOK
  <2> QED
    BY <1>2, <2>1, <2>2 DEF Started, e
<1>6. Journals'
  <2> SUFFICES ASSUME NEW d \in Episodes
               PROVE  /\ ~Exists(d) => log'[d] = NoEvents
                      /\ log'[d].requests \subseteq Owned(ledger, {d})
                      /\ log'[d].responses \subseteq {i \in log'[d].requests : ledger[i].settled}
                      /\ Claims(d)'
    BY DEF Journals, Exists
  <2>1. CASE d = e
    <3>1. thr[s].ep = d /\ Exists(d) /\ log'[d] = new
      BY <1>1, <1>2, <2>1 DEF e
    <3>2. Claims(d)'
      BY <3>1
    <3>3. /\ new.requests \subseteq Owned(ledger, {d})
          /\ new.responses \subseteq {i \in new.requests : ledger[i].settled}
      BY <3>1
    <3> QED
      BY <3>1, <3>2, <3>3
  <2>2. CASE d # e
    <3>1. log'[d] = log[d]
      BY <1>2, <2>2
    <3>2. Claims(d)'
      <4>1. Claims(d) /\ Spent(d)' = Spent(d) /\ Owned(ledger, {d})' = Owned(ledger, {d})
        BY DEF IInv, Journals, Spent
      <4> QED
        BY <3>1, <4>1, ClaimsStay
    <3> QED
      BY <3>1, <3>2 DEF IInv, Journals
  <2> QED
    BY <2>1, <2>2
<1>7. Threads'
  <2>1. \A d \in Services : d = s
    BY <1>1
  <2>2. t.step # "none" => svc'[s].step = "idle" /\ Running(t)'
    BY <1>1
  <2> QED
    BY <1>2, <2>1, <2>2, OneThread
<1>8. Plans'
  BY <1>1 DEF Plans
<1>9. Closed'
  <2>1. CASE e = Root
    <3>1. \A d \in Episodes : meta[d].kind # "restore"
      BY <1>1, <2>1 DEF IInv, Manifests
    <3>2. CASE new.terminal = log[e].terminal
      BY <1>2, <2>1, <3>2 DEF IInv, Closed, Spent
    <3>3. CASE new.terminal.why # "cost_cap"
      BY <1>1, <1>2, <2>1, <3>1, <3>3 DEF Closed
    <3>4. CASE Spent(Root) + Reserve > Cap
      BY <1>1, <1>2, <2>1, <3>1, <3>4 DEF Closed, Spent
    <3> QED
      BY <2>1, <3>2, <3>3, <3>4 DEF e
  <2>2. CASE e # Root
    <3>1. log'[Root] = log[Root]
      BY <1>2, <2>2, Numbers
    <3> QED
      BY <3>1 DEF IInv, Closed, Spent
  <2> QED
    BY <2>1, <2>2
<1> QED
  BY <1>3, <1>4, <1>5, <1>6, <1>7, <1>8, <1>9 DEF IInv

---------------------------------------------------------------------------
(* The worker thread *)

\* A thread that goes on with its run has the same account of it.
LEMMA RunsOn ==
    ASSUME OneService, IInv, NEW s \in Services, thr[s].step # "none", NEW t \in Thread,
           t.ep = thr[s].ep, t.calls = thr[s].calls, t.cost = thr[s].cost,
           UNCHANGED <<meta, ledger>>, log'[t.ep].stage # "empty",
           log'[t.ep].terminal.why = "none", t.step # "starting",
           t.step \in {"reserved", "sent", "settled"} => Calling(t)'
    PROVE  Running(t)'
<1>1. Running(thr[s])
  BY LiveThread
<1>2. /\ Exists(t.ep) /\ \A e \in Episodes : Exists(e) => e <= t.ep
      /\ t.calls = Len(ledger) /\ t.cost = Spent(t.ep)
  BY <1>1 DEF Running
<1> QED
  BY <1>2 DEF Running, Exists, Spent, Started, Ended

\* Only the root has run as long as nothing was admitted after it.
LEMMA RootAlone ==
    ASSUME OneService, IInv, NEW s \in Services, thr[s].step # "none", thr[s].ep = Root
    PROVE  Spent(Root) = Total(ledger)
<1>1. Owned(ledger, {Root}) = DOMAIN ledger
  <2> SUFFICES ASSUME NEW i \in DOMAIN ledger PROVE ledger[i].owner = Root
    BY DEF Owned
  <2>1. ledger[i].owner \in Episodes /\ Exists(ledger[i].owner)
    BY RowFacts DEF IInv, TypeOK, Rows
  <2> QED
    BY <2>1, LiveThread DEF Exists
<1> QED
  BY <1>1 DEF Spent, Total

\* The thread ends its run with what it counted, or with nothing.
LEMMA EndStep ==
    ASSUME OneService, IInv, NEW s \in Services, thr[s].step # "none",
           NEW terminal \in Outcome, EndWith(s, terminal), UNCHANGED <<meta, ledger, svc>>,
           \/ /\ terminal.why = "refused" /\ thr[s].step = "starting"
              /\ terminal.calls = 0 /\ terminal.cost = 0
           \/ terminal.why = "incomplete"
           \/ /\ terminal.why \in {"won", "cost_cap", "call_limit", "stopped", "failed"}
              /\ thr[s].step # "starting"
              /\ terminal.calls = thr[s].calls /\ terminal.cost = thr[s].cost,
           terminal.why = "cost_cap" => Total(ledger) + Reserve > meta[thr[s].ep].cap
    PROVE  IInv'
<1>1. PICK e \in Episodes : e = thr[s].ep
  BY Types, Numbers
<1>2. /\ log \in [Episodes -> Journal] /\ log[e] \in Journal /\ Running(thr[s])
      /\ log[e].requests \subseteq Owned(ledger, {e})
      /\ log[e].responses \subseteq {i \in log[e].requests : ledger[i].settled}
      /\ Claims(e) /\ meta[Root].cap = Cap
  BY LiveThread DEF IInv, TypeOK, Journals, Manifests
<1>3. PICK new \in Journal :
        new = [log[e] EXCEPT !.terminal = IF Ended(e) THEN @ ELSE terminal]
  BY <1>2 DEF Journal
<1>4. log' = [log EXCEPT ![e] = new] /\ thr' = [thr EXCEPT ![s] = NoThread]
  BY <1>1, <1>2, <1>3 DEF EndWith
<1>5. NoThread \in Thread /\ NoThread.step = "none"
  BY Numbers DEF NoThread, Thread, ThreadSteps
<1>6. /\ new.requests = log[e].requests /\ new.responses = log[e].responses
      /\ new.stage = log[e].stage
      /\ Ended(e) => new.terminal = log[e].terminal
      /\ ~Ended(e) => new.terminal = terminal
  BY <1>2, <1>3 DEF Journal
<1>7. log'[e] = new
  BY <1>2, <1>4
<1>8. Claims(e)'
  <2>1. CASE Ended(e)
    <3>1. new = log[e]
      BY <1>2, <1>3, <2>1 DEF Journal
    <3> QED
      BY <1>2, <1>7, <3>1, ClaimsStay DEF Spent
  <2>2. CASE ~Ended(e)
    <3>1. log'[e].terminal = terminal /\ Started(e)' = Started(e)
      BY <1>6, <1>7, <2>2 DEF Started
    <3>2. IF thr[s].step = "starting" THEN ~Started(e) ELSE Started(e)
      BY <1>1, <1>2 DEF Running
    <3>3. thr[s].cost = Spent(e)' /\ Owned(ledger, {e})' = Owned(ledger, {e})
      BY <1>1, <1>2 DEF Running, Spent
    <3>4. thr[s].calls = meta'[e].calls + Cardinality(Owned(ledger, {e}))
      BY <1>1, RunnerCounts
    <3> HIDE DEF Spent, Started
    <3> QED
      BY <3>1, <3>2, <3>3, <3>4 DEF Claims
  <2> QED
    BY <2>1, <2>2
<1>9. \/ new.terminal = log[e].terminal
      \/ new.terminal.why # "cost_cap"
      \/ e = Root => Spent(Root) + Reserve > Cap
  <2>1. CASE Ended(e)
    BY <1>6, <2>1
  <2>2. CASE ~Ended(e) /\ terminal.why = "cost_cap"
    BY <1>1, <1>2, <2>2, RootAlone
  <2>3. CASE ~Ended(e) /\ terminal.why # "cost_cap"
    BY <1>6, <2>3
  <2> QED
    BY <2>1, <2>2, <2>3
<1> QED
  BY <1>1, <1>2, <1>4, <1>5, <1>6, <1>8, <1>9, JournalStep DEF Started

\* What the runner counted is an outcome.
LEMMA RunnerOutcome ==
    ASSUME IInv, NEW s \in Services, NEW why \in Reasons
    PROVE  /\ Terminal(why, thr[s].calls, thr[s].cost) \in Outcome
           /\ Terminal(why, thr[s].calls, thr[s].cost).why = why
           /\ Terminal(why, thr[s].calls, thr[s].cost).calls = thr[s].calls
           /\ Terminal(why, thr[s].calls, thr[s].cost).cost = thr[s].cost
<1>1. thr[s] \in Thread
  BY DEF IInv, TypeOK
<1>2. thr[s].calls \in Nat /\ thr[s].cost \in Int
  BY <1>1 DEF Thread
<1> QED
  BY <1>2 DEF Terminal, Outcome

\* A terminal of zeros is one too.
LEMMA EmptyOutcome ==
    ASSUME NEW why \in Reasons
    PROVE  /\ Terminal(why, 0, 0) \in Outcome /\ Terminal(why, 0, 0).why = why
           /\ Terminal(why, 0, 0).calls = 0 /\ Terminal(why, 0, 0).cost = 0
<1>1. 0 \in Nat /\ 0 \in Int
  OBVIOUS
<1> QED
  BY <1>1 DEF Terminal, Outcome

\* The runner ends its own run.
LEMMA RunnerEndsStep ==
    ASSUME OneService, IInv, NEW s \in Services, thr[s].step \notin {"none", "starting"},
           NEW why \in {"won", "cost_cap", "call_limit", "stopped", "failed"},
           RunnerEnds(s, why), UNCHANGED <<meta, ledger, svc>>,
           why = "cost_cap" => Total(ledger) + Reserve > meta[thr[s].ep].cap
    PROVE  IInv'
<1>1. why \in Reasons
  BY DEF Reasons
<1>2. PICK terminal \in Outcome : terminal = Terminal(why, thr[s].calls, thr[s].cost)
  BY <1>1, RunnerOutcome
<1>3. terminal.why = why /\ terminal.calls = thr[s].calls /\ terminal.cost = thr[s].cost
  BY <1>1, <1>2, RunnerOutcome
<1>4. EndWith(s, terminal)
  BY <1>2 DEF RunnerEnds
<1> QED
  BY <1>3, <1>4, EndStep

\* The run goes on: what it journals is about its own calls.
LEMMA GoStep ==
    ASSUME OneService, IInv, NEW s \in Services, thr[s].step # "none",
           NEW new \in Journal, NEW step \in ThreadSteps \ {"none", "starting"},
           log' = [log EXCEPT ![thr[s].ep] = new], Go(s, step), UNCHANGED <<meta, ledger, svc>>,
           ~Ended(thr[s].ep), new.terminal = log[thr[s].ep].terminal, new.stage # "empty",
           log[thr[s].ep].requests \subseteq new.requests,
           new.requests \subseteq Owned(ledger, {thr[s].ep}),
           new.responses \subseteq {i \in new.requests : ledger[i].settled},
           step \in {"reserved", "sent", "settled"} =>
              /\ thr[s].step \in {"reserved", "sent", "settled"}
              /\ ledger[thr[s].call].settled <=> step = "settled"
              /\ step # "reserved" => thr[s].call \in new.requests
    PROVE  IInv'
<1>1. PICK e \in Episodes : e = thr[s].ep
  BY Types, Numbers
<1>2. thr[s] \in Thread /\ log \in [Episodes -> Journal] /\ Running(thr[s])
  BY LiveThread DEF IInv, TypeOK
<1>3. PICK t \in Thread : t = [thr[s] EXCEPT !.step = step]
  BY <1>2 DEF Thread
<1>4. /\ t.step = step /\ t.ep = e /\ t.calls = thr[s].calls /\ t.cost = thr[s].cost
      /\ t.call = thr[s].call
  BY <1>1, <1>2, <1>3 DEF Thread
<1>5. thr' = [thr EXCEPT ![s] = t]
  BY <1>3 DEF Go
<1>6. log'[e] = new
  BY <1>1, <1>2
<1>7. log'[e].terminal.why = "none" /\ log'[e].stage # "empty"
  BY <1>1, <1>6 DEF Ended
<1>8. \A d \in Episodes : d = thr[s].ep => Claims(d)'
  BY <1>1, <1>7 DEF Claims
<1>9. step \in {"reserved", "sent", "settled"} => Calling(t)'
  BY <1>1, <1>2, <1>4, <1>6 DEF Running, Calling
<1>10. Running(t)'
  BY <1>1, <1>4, <1>7, <1>9, RunsOn
<1> QED
  BY <1>1, <1>4, <1>5, <1>6, <1>7, <1>8, <1>10, JournalStep

\* What the running thread and its journal say before such a step.
LEMMA RunFacts ==
    ASSUME OneService, IInv, NEW s \in Services, thr[s].step \notin {"none", "starting"}
    PROVE  /\ thr[s].ep \in Episodes /\ log[thr[s].ep] \in Journal
           /\ log \in [Episodes -> Journal]
           /\ Started(thr[s].ep) /\ ~Ended(thr[s].ep)
           /\ log[thr[s].ep].requests \subseteq Owned(ledger, {thr[s].ep})
           /\ log[thr[s].ep].responses
                 \subseteq {i \in log[thr[s].ep].requests : ledger[i].settled}
           /\ thr[s].step \in {"reserved", "sent", "settled"} =>
                 /\ Calling(thr[s]) /\ thr[s].call \in Calls
                 /\ thr[s].call \in Owned(ledger, {thr[s].ep})
<1>1. thr[s].ep \in Episodes /\ Running(thr[s]) /\ ledger \in Seq(Row) /\ Len(ledger) <= MaxRows
  BY LiveThread DEF IInv, TypeOK
<1>2. \A i \in DOMAIN ledger : i \in Calls
  BY <1>1, Numbers DEF Calls
<1> QED
  BY <1>1, <1>2 DEF IInv, TypeOK, Journals, Running, Calling, Owned

\* A step that journals nothing, or nothing of calls.
LEMMA OwnPaceStep ==
    ASSUME OneService, IInv, NEW s \in Services, thr[s].step # "none",
           NEW new \in Journal, NEW step \in {"opened", "idle", "acting"},
           log' = [log EXCEPT ![thr[s].ep] = new], Go(s, step), UNCHANGED <<meta, ledger, svc>>,
           ~Ended(thr[s].ep), new.stage # "empty", new.terminal = log[thr[s].ep].terminal,
           new.requests = log[thr[s].ep].requests, new.responses = log[thr[s].ep].responses
    PROVE  IInv'
<1>1. thr[s].ep \in Episodes
  BY LiveThread
<1>2. /\ log[thr[s].ep].requests \subseteq Owned(ledger, {thr[s].ep})
      /\ log[thr[s].ep].responses \subseteq {i \in log[thr[s].ep].requests : ledger[i].settled}
  BY <1>1 DEF IInv, Journals
<1>3. step \in ThreadSteps \ {"none", "starting"}
  BY DEF ThreadSteps
<1> QED
  BY <1>2, <1>3, GoStep

LEMMA WorkStep ==
    ASSUME OneService, IInv, NEW s \in Services,
           \/ OpenRun(s) \/ LaunchFails(s) \/ Observe(s) \/ RefuseCall(s)
           \/ LogRequest(s) \/ CallFails(s) \/ LogResponse(s) \/ UsageUnknown(s)
           \/ LogIntent(s) \/ LogCommit(s) \/ FinishRun(s) \/ LoseTerminal(s)
    PROVE  IInv'
<1>0. thr[s].step # "none" => thr[s].ep \in Episodes /\ log[thr[s].ep] \in Journal
  BY LiveThread DEF IInv, TypeOK
<1>1. log \in [Episodes -> Journal] /\ thr \in [Services -> Thread]
  BY DEF IInv, TypeOK
<1>2. CASE OpenRun(s)
  <2>1. thr[s].step = "starting" /\ UNCHANGED <<meta, ledger, svc>>
    BY <1>2 DEF OpenRun
  <2>2. CASE Ended(thr[s].ep)
    <3>1. thr' = [thr EXCEPT ![s] = NoThread] /\ log' = [log EXCEPT ![thr[s].ep] = log[thr[s].ep]]
      BY <1>1, <1>2, <2>2 DEF OpenRun
    <3>2. NoThread \in Thread /\ NoThread.step = "none"
      BY Numbers DEF NoThread, Thread, ThreadSteps
    <3>3. \A e \in Episodes : e = thr[s].ep => Claims(e)'
      <4> SUFFICES ASSUME NEW e \in Episodes PROVE Claims(e)'
        OBVIOUS
      <4>1. /\ Claims(e) /\ log'[e] = log[e] /\ meta'[e].calls = meta[e].calls
            /\ Owned(ledger, {e})' = Owned(ledger, {e}) /\ Spent(e)' = Spent(e)
        BY <1>1, <1>2, <2>1, <2>2 DEF OpenRun, IInv, Journals, Spent
      <4> QED
        BY <4>1, ClaimsStay
    <3>4. /\ log[thr[s].ep].requests \subseteq Owned(ledger, {thr[s].ep})
          /\ log[thr[s].ep].responses
                \subseteq {i \in log[thr[s].ep].requests : ledger[i].settled}
      BY <1>0, <2>1 DEF IInv, Journals
    <3> QED
      BY <1>0, <2>1, <3>1, <3>2, <3>3, <3>4, JournalStep DEF Started
  <2>3. CASE ~Ended(thr[s].ep)
    <3>1. PICK new \in Journal : new = [log[thr[s].ep] EXCEPT !.stage = "started"]
      BY <1>0, <2>1 DEF Journal, Stages
    <3>2. /\ new.stage # "empty" /\ new.terminal = log[thr[s].ep].terminal
          /\ new.requests = log[thr[s].ep].requests /\ new.responses = log[thr[s].ep].responses
      BY <1>0, <2>1, <3>1 DEF Journal
    <3>3. log' = [log EXCEPT ![thr[s].ep] = new] /\ Go(s, "opened")
      BY <1>2, <2>3, <3>1 DEF OpenRun
    <3> QED
      BY <2>1, <2>3, <3>2, <3>3, OwnPaceStep
  <2> QED
    BY <2>2, <2>3
<1>3. CASE LaunchFails(s)
  <2>1. PICK terminal \in Outcome : terminal = Terminal("refused", 0, 0)
    BY EmptyOutcome DEF Reasons
  <2>2. terminal.why = "refused" /\ terminal.calls = 0 /\ terminal.cost = 0
    BY <2>1, EmptyOutcome DEF Reasons
  <2> QED
    BY <1>3, <2>1, <2>2, EndStep DEF LaunchFails
<1>4. CASE Observe(s)
  <2>1. thr[s].step = "opened"
    BY <1>4 DEF Observe
  <2>2. ~Ended(thr[s].ep) /\ log[thr[s].ep] \in Journal
    BY <2>1, RunFacts
  <2>3. PICK new \in Journal : new = [log[thr[s].ep] EXCEPT !.stage = "observed"]
    BY <2>2 DEF Journal, Stages
  <2>4. /\ new.stage # "empty" /\ new.terminal = log[thr[s].ep].terminal
        /\ new.requests = log[thr[s].ep].requests /\ new.responses = log[thr[s].ep].responses
    BY <2>2, <2>3 DEF Journal
  <2>5. log' = [log EXCEPT ![thr[s].ep] = new] /\ Go(s, "idle") /\ UNCHANGED <<meta, ledger, svc>>
    BY <1>4, <2>3 DEF Observe
  <2> QED
    BY <2>1, <2>2, <2>4, <2>5, OwnPaceStep
<1>5. CASE RefuseCall(s)
  <2>1. /\ thr[s].step = "idle" /\ UNCHANGED <<meta, ledger, svc>>
        /\ \/ RunnerEnds(s, "call_limit")
           \/ RunnerEnds(s, "cost_cap") /\ Total(ledger) + Reserve > meta[thr[s].ep].cap
    BY <1>5 DEF RefuseCall
  <2> QED
    BY <2>1, RunnerEndsStep
<1>6. CASE LogRequest(s)
  <2>1. thr[s].step = "reserved" /\ UNCHANGED <<meta, ledger, svc>> /\ Go(s, "sent")
    BY <1>6 DEF LogRequest
  <2>2. /\ log[thr[s].ep] \in Journal /\ ~Ended(thr[s].ep) /\ Started(thr[s].ep)
        /\ thr[s].call \in Calls /\ thr[s].call \in Owned(ledger, {thr[s].ep})
        /\ log[thr[s].ep].requests \subseteq Owned(ledger, {thr[s].ep})
        /\ log[thr[s].ep].responses
              \subseteq {i \in log[thr[s].ep].requests : ledger[i].settled}
        /\ ~ledger[thr[s].call].settled
    BY <2>1, RunFacts DEF Calling
  <2>3. PICK new \in Journal : new = [log[thr[s].ep] EXCEPT !.requests = @ \cup {thr[s].call}]
    BY <2>2 DEF Journal
  <2>4. /\ new.stage = log[thr[s].ep].stage /\ new.terminal = log[thr[s].ep].terminal
        /\ new.requests = log[thr[s].ep].requests \cup {thr[s].call}
        /\ new.responses = log[thr[s].ep].responses
    BY <2>2, <2>3 DEF Journal
  <2>5. log' = [log EXCEPT ![thr[s].ep] = new]
    BY <1>6, <2>3 DEF LogRequest
  <2>6. "sent" \in ThreadSteps \ {"none", "starting"}
    BY DEF ThreadSteps
  <2> QED
    BY <2>1, <2>2, <2>4, <2>5, <2>6, GoStep DEF Started
<1>7. CASE CallFails(s)
  <2>1. thr[s].step = "sent" /\ UNCHANGED <<meta, log, ledger, svc>> /\ Go(s, "idle")
    BY <1>7 DEF CallFails
  <2>2. ~Ended(thr[s].ep) /\ log[thr[s].ep] \in Journal /\ Started(thr[s].ep)
    BY <2>1, RunFacts
  <2>3. log' = [log EXCEPT ![thr[s].ep] = log[thr[s].ep]]
    BY <1>1, <2>1
  <2> QED
    BY <2>1, <2>2, <2>3, OwnPaceStep DEF Started
<1>8. CASE LogResponse(s)
  <2>1. thr[s].step = "settled" /\ UNCHANGED <<meta, ledger, svc>> /\ Go(s, "idle")
    BY <1>8 DEF LogResponse
  <2>2. /\ log[thr[s].ep] \in Journal /\ ~Ended(thr[s].ep) /\ Started(thr[s].ep)
        /\ thr[s].call \in Calls
        /\ thr[s].call \in {i \in log[thr[s].ep].requests : ledger[i].settled}
        /\ log[thr[s].ep].requests \subseteq Owned(ledger, {thr[s].ep})
        /\ log[thr[s].ep].responses
              \subseteq {i \in log[thr[s].ep].requests : ledger[i].settled}
    BY <2>1, RunFacts DEF Calling
  <2>3. PICK new \in Journal : new = [log[thr[s].ep] EXCEPT !.responses = @ \cup {thr[s].call}]
    BY <2>2 DEF Journal
  <2>4. /\ new.stage = log[thr[s].ep].stage /\ new.terminal = log[thr[s].ep].terminal
        /\ new.requests = log[thr[s].ep].requests
        /\ new.responses = log[thr[s].ep].responses \cup {thr[s].call}
    BY <2>2, <2>3 DEF Journal
  <2>5. log' = [log EXCEPT ![thr[s].ep] = new]
    BY <1>8, <2>3 DEF LogResponse
  <2>6. "idle" \in ThreadSteps \ {"none", "starting"}
    BY DEF ThreadSteps
  <2> QED
    BY <2>1, <2>2, <2>4, <2>5, <2>6, GoStep DEF Started
<1>9. CASE UsageUnknown(s)
  <2>1. thr[s].step = "sent" /\ UNCHANGED <<meta, ledger, svc>>
    BY <1>9 DEF UsageUnknown
  <2>2. PICK e \in Episodes : e = thr[s].ep
    BY <1>0, <2>1
  <2>3. /\ log[e] \in Journal /\ Started(e) /\ thr[s].call \in Calls
        /\ log[e].requests \subseteq Owned(ledger, {e})
        /\ log[e].responses \subseteq {i \in log[e].requests : ledger[i].settled}
    BY <2>1, <2>2, RunFacts
  <2>4. "failed" \in Reasons
    BY DEF Reasons
  <2>5. PICK terminal \in Outcome : terminal = Terminal("failed", thr[s].calls, thr[s].cost)
    BY <2>4, RunnerOutcome
  <2>6. terminal.why = "failed" /\ terminal.calls = thr[s].calls /\ terminal.cost = thr[s].cost
    BY <2>4, <2>5, RunnerOutcome
  <2>7. PICK new \in Journal :
          new = [log[e] EXCEPT !.unpriced = @ \cup {thr[s].call}, !.terminal = terminal]
    BY <2>3, <2>5 DEF Journal
  <2>8. /\ new.stage = log[e].stage /\ new.terminal = terminal
        /\ new.requests = log[e].requests /\ new.responses = log[e].responses
    BY <2>3, <2>7 DEF Journal
  <2>9. log' = [log EXCEPT ![e] = new] /\ thr' = [thr EXCEPT ![s] = NoThread]
    <3>1. log' = [log EXCEPT ![e].unpriced = @ \cup {thr[s].call}, ![e].terminal = terminal]
      BY <1>9, <2>2, <2>5 DEF UsageUnknown
    <3> QED
      BY <1>1, <1>9, <2>3, <2>7, <3>1 DEF UsageUnknown
  <2>10. NoThread \in Thread /\ NoThread.step = "none"
    BY Numbers DEF NoThread, Thread, ThreadSteps
  <2>11. Claims(e)'
    <3>1. log'[e] = new /\ Started(e)'
      BY <1>1, <2>3, <2>8, <2>9 DEF Started
    <3>2. thr[s].cost = Spent(e)' /\ Owned(ledger, {e})' = Owned(ledger, {e})
      BY <2>1, <2>2, LiveThread DEF Running, Spent
    <3>3. thr[s].calls = meta'[e].calls + Cardinality(Owned(ledger, {e}))
      BY <2>1, <2>2, RunnerCounts
    <3> HIDE DEF Spent, Started
    <3> QED
      BY <2>6, <2>8, <3>1, <3>2, <3>3 DEF Claims
  <2> QED
    BY <2>1, <2>2, <2>3, <2>6, <2>8, <2>9, <2>10, <2>11, JournalStep DEF Started
<1>10. CASE LogIntent(s) \/ LogCommit(s)
  <2>1. PICK pending \in BOOLEAN, step \in {"idle", "acting"} :
          /\ log' = [log EXCEPT ![thr[s].ep].pending = pending] /\ Go(s, step)
          /\ thr[s].step \in {"idle", "acting"} /\ UNCHANGED <<meta, ledger, svc>>
    BY <1>10 DEF LogIntent, LogCommit
  <2>2. ~Ended(thr[s].ep) /\ log[thr[s].ep] \in Journal /\ Started(thr[s].ep)
    BY <2>1, RunFacts
  <2>3. PICK new \in Journal : new = [log[thr[s].ep] EXCEPT !.pending = pending]
    BY <2>2 DEF Journal
  <2>4. /\ new.stage = log[thr[s].ep].stage /\ new.terminal = log[thr[s].ep].terminal
        /\ new.requests = log[thr[s].ep].requests /\ new.responses = log[thr[s].ep].responses
    BY <2>2, <2>3 DEF Journal
  <2>5. log' = [log EXCEPT ![thr[s].ep] = new]
    BY <2>1, <2>3
  <2> QED
    BY <2>1, <2>2, <2>4, <2>5, OwnPaceStep DEF Started
<1>11. CASE FinishRun(s)
  <2>1. /\ thr[s].step \notin {"none", "starting"} /\ UNCHANGED <<meta, ledger, svc>>
        /\ \E why \in {"won", "stopped", "failed"} : RunnerEnds(s, why)
    BY <1>11 DEF FinishRun
  <2> QED
    BY <2>1, RunnerEndsStep
<1>12. CASE LoseTerminal(s)
  <2>1. PICK terminal \in Outcome : terminal = Terminal("incomplete", 0, 0)
    BY EmptyOutcome DEF Reasons
  <2>2. terminal.why = "incomplete"
    BY <2>1, EmptyOutcome DEF Reasons
  <2> QED
    BY <1>12, <2>1, <2>2, EndStep DEF LoseTerminal
<1> QED
  BY <1>2, <1>3, <1>4, <1>5, <1>6, <1>7, <1>8, <1>9, <1>10, <1>11, <1>12

---------------------------------------------------------------------------
(* The ledger *)

\* What a child froze is still there when only later rows change.
LEMMA FrozenRows ==
    ASSUME NEW rows \in Seq(Row), NEW more \in Seq(Row), NEW k \in Nat, k <= Len(rows),
           k <= Len(more), \A i \in DOMAIN rows : i <= k => more[i] = rows[i]
    PROVE  SubSeq(more, 1, k) = SubSeq(rows, 1, k)
<1>1. /\ SubSeq(more, 1, k) = [i \in 1 .. k |-> more[i]]
      /\ SubSeq(rows, 1, k) = [i \in 1 .. k |-> rows[i]]
  OBVIOUS
<1>2. \A i \in 1 .. k : i \in DOMAIN rows /\ i <= k
  OBVIOUS
<1> QED
  BY <1>1, <1>2

\* A step of the running thread that only adds to the rows of its episode.
LEMMA LedgerStep ==
    ASSUME OneService, IInv, NEW s \in Services, thr[s].step \notin {"none", "starting"},
           NEW rows \in Seq(Row), NEW t \in Thread, t.step # "none", Running(t)',
           ledger' = rows, thr' = [thr EXCEPT ![s] = t], UNCHANGED <<meta, log, svc>>,
           Len(ledger) <= Len(rows), Len(rows) <= MaxRows, Len(rows) <= MaxCalls,
           \A i \in DOMAIN ledger :
              /\ i <= meta[thr[s].ep].calls => rows[i] = ledger[i]
              /\ rows[i].owner = ledger[i].owner /\ (ledger[i].settled => rows[i].settled),
           \A i \in DOMAIN rows :
              /\ rows[i].cost = IF rows[i].settled THEN Actual ELSE Reserve
              /\ rows[i].settled => i \in log[rows[i].owner].requests
              /\ i \notin DOMAIN ledger =>
                    rows[i].owner = thr[s].ep /\ meta[thr[s].ep].calls < i,
           \A e \in Episodes \ {thr[s].ep} :
              /\ Owned(rows, {e}) = Owned(ledger, {e})
              /\ CostOf(rows, Owned(rows, {e})) = Spent(e)
    PROVE  IInv'
<1> DEFINE ep == thr[s].ep
<1>1. /\ ep \in Episodes /\ Exists(ep) /\ Started(ep) /\ ~Ended(ep)
      /\ \A d \in Services : d = s
      /\ \A d \in Services : svc[d].step = "idle"
      /\ \A e \in Episodes : Exists(e) => e <= ep
  BY LiveThread, RunFacts
<1>2. /\ ledger \in Seq(Row) /\ Len(ledger) \in Nat /\ Len(rows) \in Nat
      /\ DOMAIN ledger = 1 .. Len(ledger) /\ DOMAIN rows = 1 .. Len(rows)
      /\ meta \in [Episodes -> Manifest] /\ \A e \in Episodes : meta[e].calls \in Nat
  <2>1. meta \in [Episodes -> Manifest] /\ ledger \in Seq(Row)
    BY DEF IInv, TypeOK
  <2>2. \A e \in Episodes : meta[e].calls \in Nat
    BY <2>1 DEF Manifest
  <2> QED
    BY <2>1, <2>2
<1>3. DOMAIN ledger \subseteq DOMAIN rows
  BY <1>2
<1> HIDE DEF ep
<1>4. TypeOK' /\ SharedAllowance'
  BY DEF IInv, TypeOK, SharedAllowance
<1>5. Manifests'
  <2> SUFFICES ASSUME NEW e \in Episodes, Exists(e)
               PROVE  /\ meta[e].calls <= Len(rows)
                      /\ meta[e].admitted = SubSeq(rows, 1, meta[e].calls)
    BY DEF IInv, Manifests, Exists
  <2>1. /\ meta[e].calls <= Len(ledger) /\ meta[e].admitted = SubSeq(ledger, 1, meta[e].calls)
        /\ meta[e].calls <= meta[ep].calls
    <3>1. e <= ep
      BY <1>1
    <3>2. e < ep => meta[e].calls <= meta[ep].calls
      BY <1>1 DEF IInv, Manifests
    <3>3. e \in Nat /\ ep \in Nat
      BY <1>1, Numbers
    <3>4. e = ep => meta[e].calls <= meta[ep].calls
      BY <1>2
    <3>5. e < ep \/ e = ep
      BY <3>1, <3>3
    <3> QED
      BY <3>2, <3>4, <3>5 DEF IInv, Manifests
  <2>2. meta[e].calls \in Nat /\ meta[ep].calls \in Nat
    BY <1>1, <1>2
  <2>3. \A i \in DOMAIN ledger : i <= meta[e].calls => rows[i] = ledger[i]
    BY <1>2, <2>1, <2>2 DEF ep
  <2> QED
    <3>1. meta[e].calls <= Len(rows)
      BY <1>2, <2>1, <2>2
    <3>2. SubSeq(rows, 1, meta[e].calls) = SubSeq(ledger, 1, meta[e].calls)
      BY <1>2, <2>1, <2>2, <2>3, <3>1, FrozenRows
    <3> QED
      BY <2>1, <3>1, <3>2
<1>6. Rows'
  <2> SUFFICES ASSUME NEW i \in DOMAIN rows
               PROVE  LET r == rows[i]
                      IN  /\ r.cost = IF r.settled THEN Actual ELSE Reserve
                          /\ r.settled => i \in log[r.owner].requests
                          /\ Exists(r.owner) /\ Started(r.owner)
                          /\ meta[r.owner].calls < i
                          /\ \A e \in Episodes : Exists(e) /\ r.owner < e => i <= meta[e].calls
    BY DEF Rows, Exists, Started
  <2>1. CASE i \in DOMAIN ledger
    BY <2>1 DEF IInv, Rows
  <2>2. CASE i \notin DOMAIN ledger
    <3>1. rows[i].owner = ep /\ meta[ep].calls < i
      BY <2>2 DEF ep
    <3>2. ASSUME NEW e \in Episodes, Exists(e), ep < e PROVE FALSE
      <4>1. e <= ep /\ e \in Nat /\ ep \in Nat
        BY <1>1, <3>2, Numbers
      <4> QED
        BY <3>2, <4>1
    <3> QED
      BY <1>1, <3>1, <3>2
  <2> QED
    BY <2>1, <2>2
<1>7. Journals'
  <2> SUFFICES ASSUME NEW e \in Episodes
               PROVE  /\ log[e].requests \subseteq Owned(rows, {e})
                      /\ log[e].responses \subseteq {i \in log[e].requests : rows[i].settled}
                      /\ Claims(e)'
    BY DEF IInv, Journals, Exists
  <2>1. /\ log[e].requests \subseteq Owned(ledger, {e})
        /\ log[e].responses \subseteq {i \in log[e].requests : ledger[i].settled}
        /\ Claims(e)
    BY DEF IInv, Journals
  <2>2. Owned(ledger, {e}) \subseteq Owned(rows, {e})
    BY <1>3 DEF Owned
  <2>3. Owned(ledger, {e}) \subseteq DOMAIN ledger
    BY DEF Owned
  <2>4. Claims(e)'
    <3>1. CASE e = ep
      BY <1>1, <3>1 DEF Claims, Ended
    <3>2. CASE e # ep
      <4>1. Owned(ledger, {e})' = Owned(ledger, {e}) /\ Spent(e)' = Spent(e)
        BY <3>2 DEF ep, Spent
      <4> QED
        BY <2>1, <4>1, ClaimsStay
    <3> QED
      BY <3>1, <3>2
  <2> QED
    BY <2>1, <2>2, <2>3, <2>4
<1>8. Threads'
  <2>1. thr'[s] = t
    BY DEF IInv, TypeOK
  <2> QED
    BY <1>1, <2>1, OneThread
<1>9. Plans'
  BY <1>1 DEF Plans
<1>10. Closed'
  <2>1. CASE ep = Root
    BY <1>1, <2>1 DEF Closed, Ended
  <2>2. CASE ep # Root
    <3>1. Spent(Root)' = Spent(Root)
      BY <2>2, Numbers DEF ep, Spent
    <3> QED
      BY <3>1 DEF IInv, Closed
  <2> QED
    BY <2>1, <2>2
<1> QED
  BY <1>4, <1>5, <1>6, <1>7, <1>8, <1>9, <1>10 DEF IInv

\* What the running thread has counted, and the ledger it counted.
LEMMA ThreadFacts ==
    ASSUME OneService, IInv, NEW s \in Services, thr[s].step # "none"
    PROVE  /\ thr[s].ep \in Episodes /\ Running(thr[s]) /\ Exists(thr[s].ep)
           /\ thr \in [Services -> Thread] /\ thr[s] \in Thread
           /\ thr[s].calls \in Nat /\ thr[s].cost \in Int
           /\ ledger \in Seq(Row) /\ Len(ledger) \in Nat /\ DOMAIN ledger = 1 .. Len(ledger)
           /\ Len(ledger) <= MaxRows /\ Len(ledger) <= MaxCalls
           /\ thr[s].calls = Len(ledger) /\ thr[s].cost = Spent(thr[s].ep)
           /\ \A e \in Episodes : Exists(e) => e <= thr[s].ep
           /\ meta[thr[s].ep].calls \in Nat /\ meta[thr[s].ep].calls <= Len(ledger)
<1>1. thr[s].ep \in Episodes /\ Running(thr[s]) /\ Exists(thr[s].ep)
  BY LiveThread
<1>2. /\ thr \in [Services -> Thread] /\ meta \in [Episodes -> Manifest]
      /\ ledger \in Seq(Row) /\ Len(ledger) <= MaxRows /\ Len(ledger) <= MaxCalls
  BY DEF IInv, TypeOK, SharedAllowance
<1>3. thr[s] \in Thread /\ meta[thr[s].ep] \in Manifest
  BY <1>1, <1>2
<1>4. thr[s].calls \in Nat /\ thr[s].cost \in Int /\ meta[thr[s].ep].calls \in Nat
  BY <1>3 DEF Thread, Manifest
<1>5. Len(ledger) \in Nat /\ DOMAIN ledger = 1 .. Len(ledger)
  BY <1>2
<1>6. /\ thr[s].calls = Len(ledger) /\ thr[s].cost = Spent(thr[s].ep)
      /\ \A e \in Episodes : Exists(e) => e <= thr[s].ep
  BY <1>1 DEF Running
<1>7. meta[thr[s].ep].calls <= Len(ledger)
  BY <1>1 DEF IInv, Manifests
<1> QED
  BY <1>1, <1>2, <1>3, <1>4, <1>5, <1>6, <1>7

\* A reservation is the next row, within the allowance.
LEMMA ReserveStep ==
    ASSUME OneService, IInv, NEW s \in Services, ReserveCall(s)
    PROVE  IInv'
<1>0. PICK ep \in Episodes : ep = thr[s].ep
  BY Types, Numbers
<1>1. /\ thr[s].step = "idle" /\ thr[s].calls < MaxCalls /\ Len(ledger) < MaxRows
      /\ UNCHANGED <<meta, log, svc>>
  BY DEF ReserveCall
<1>2. /\ ep \in Episodes /\ Started(ep) /\ ~Ended(ep)
      /\ thr \in [Services -> Thread] /\ thr[s] \in Thread
      /\ ledger \in Seq(Row) /\ Len(ledger) \in Nat /\ DOMAIN ledger = 1 .. Len(ledger)
  BY <1>0, <1>1, ThreadFacts, RunFacts
<1>n. PICK n \in Nat : n = Len(ledger) + 1
  BY <1>2
<1>3. /\ thr[s].calls = Len(ledger) /\ thr[s].cost = Spent(ep) /\ Exists(ep)
      /\ \A e \in Episodes : Exists(e) => e <= ep
      /\ meta[ep].calls \in Nat /\ meta[ep].calls <= Len(ledger)
  BY <1>0, <1>1, ThreadFacts
<1>4. PICK r \in Row : r = [owner |-> ep, cost |-> Reserve, settled |-> FALSE]
  BY <1>2 DEF Row
<1>5. r.owner = ep /\ r.cost = Reserve /\ r.settled = FALSE
  BY <1>4
<1>6. PICK rows \in Seq(Row) : rows = Append(ledger, r)
  <2>1. Append(ledger, r) \in Seq(Row)
    BY <1>2
  <2> QED
    BY <2>1
<1>7. /\ Len(rows) = n /\ DOMAIN rows = DOMAIN ledger \cup {n} /\ rows[n] = r
      /\ \A i \in DOMAIN ledger : rows[i] = ledger[i]
      /\ \A e \in Episodes :
            /\ Owned(rows, {e}) = Owned(ledger, {e}) \cup (IF ep = e THEN {n} ELSE {})
            /\ CostOf(rows, Owned(rows, {e})) = Spent(e) + (IF ep = e THEN Reserve ELSE 0)
  <2>1. /\ Len(rows) = n /\ DOMAIN rows = DOMAIN ledger \cup {n} /\ rows[n] = r
        /\ \A i \in DOMAIN ledger : rows[i] = ledger[i]
    BY <1>2, <1>n, <1>6, <1>0, ReservedRow
  <2>2. ASSUME NEW e \in Episodes
        PROVE  /\ Owned(rows, {e}) = Owned(ledger, {e}) \cup (IF ep = e THEN {n} ELSE {})
               /\ CostOf(rows, Owned(rows, {e})) = Spent(e) + (IF ep = e THEN Reserve ELSE 0)
    <3>1. /\ Owned(Append(ledger, r), {e})
                = Owned(ledger, {e}) \cup (IF r.owner = e THEN {Len(ledger) + 1} ELSE {})
          /\ CostOf(Append(ledger, r), Owned(Append(ledger, r), {e}))
                = CostOf(ledger, Owned(ledger, {e})) + (IF r.owner = e THEN r.cost ELSE 0)
      BY <1>2, ReservedRow
    <3> QED
      BY <1>n, <1>5, <1>6, <3>1, Zenon DEF Spent
  <2> QED
    BY <2>1, <2>2
<1>8. ledger' = rows
  BY <1>0, <1>4, <1>6 DEF ReserveCall
<1>9. n \in Nat /\ n \in Calls /\ n = Len(ledger) + 1 /\ n \notin DOMAIN ledger
  BY <1>1, <1>2, <1>n, Numbers DEF Calls
<1>10. /\ thr[s].calls \in Nat /\ thr[s].cost \in Int /\ Reserve \in Nat
       /\ thr[s].calls + 1 \in Nat /\ thr[s].cost + Reserve \in Int
  <2>1. thr[s].calls \in Nat /\ thr[s].cost \in Int /\ Reserve \in Nat
    BY <1>1, ThreadFacts, Numbers
  <2> QED
    BY <2>1
<1>11. PICK t \in Thread :
         t = [thr[s] EXCEPT !.step = "reserved", !.calls = @ + 1, !.cost = @ + Reserve, !.call = n]
  BY <1>2, <1>9, <1>10 DEF Thread, ThreadSteps
<1>12. /\ t.step = "reserved" /\ t.ep = ep /\ t.calls = thr[s].calls + 1
       /\ t.cost = thr[s].cost + Reserve /\ t.call = n
  BY <1>0, <1>2, <1>11 DEF Thread
<1>13. thr' = [thr EXCEPT ![s] = t]
  <2>1. Len(ledger') = n
    BY <1>7, <1>8
  <2> QED
    BY <1>2, <1>11, <2>1 DEF ReserveCall
<1>14. Running(t)'
  <2>1. Spent(ep)' = Spent(ep) + Reserve
    <3>1. CostOf(rows, Owned(rows, {ep})) = Spent(ep) + Reserve
      BY <1>2, <1>7
    <3>2. Spent(ep)' = CostOf(rows, Owned(rows, {ep}))
      BY <1>8 DEF Spent
    <3> QED
      BY <3>1, <3>2
  <2>2. t.calls = Len(ledger)' /\ t.cost = Spent(t.ep)'
    <3>1. t.calls = Len(ledger)'
      BY <1>3, <1>7, <1>8, <1>9, <1>12
    <3>2. Spent(t.ep)' = Spent(ep)'
      BY <1>12 DEF Spent
    <3> HIDE DEF Spent
    <3> QED
      BY <1>3, <1>12, <2>1, <3>1, <3>2
  <2>3. Calling(t)'
    BY <1>5, <1>7, <1>8, <1>12 DEF Calling
  <2>4. /\ Exists(t.ep)' /\ \A e \in Episodes : Exists(e)' => e <= t.ep
        /\ Started(t.ep)' /\ ~Ended(t.ep)'
    BY <1>1, <1>2, <1>3, <1>12 DEF Exists, Started, Ended
  <2> HIDE DEF Spent, Calling
  <2> QED
    BY <1>12, <2>2, <2>3, <2>4 DEF Running
<1>15. /\ Len(ledger) <= Len(rows) /\ Len(rows) <= MaxRows /\ Len(rows) <= MaxCalls
  BY <1>1, <1>2, <1>3, <1>7, <1>9, Numbers
<1>16. \A i \in DOMAIN ledger :
          /\ i <= meta[thr[s].ep].calls => rows[i] = ledger[i]
          /\ rows[i].owner = ledger[i].owner /\ (ledger[i].settled => rows[i].settled)
  BY <1>7
<1>17. ASSUME NEW i \in DOMAIN rows
       PROVE  /\ rows[i].cost = IF rows[i].settled THEN Actual ELSE Reserve
              /\ rows[i].settled => i \in log[rows[i].owner].requests
              /\ i \notin DOMAIN ledger =>
                    rows[i].owner = thr[s].ep /\ meta[thr[s].ep].calls < i
  <2>1. CASE i \in DOMAIN ledger
    BY <1>7, <2>1 DEF IInv, Rows
  <2>2. CASE i = n
    <3>1. meta[ep].calls < n
      BY <1>2, <1>3, <1>9
    <3> QED
      BY <1>0, <1>5, <1>7, <2>2, <3>1
  <2> QED
    BY <1>7, <2>1, <2>2
<1>18. \A e \in Episodes \ {thr[s].ep} :
          /\ Owned(rows, {e}) = Owned(ledger, {e})
          /\ CostOf(rows, Owned(rows, {e})) = Spent(e)
  <2> SUFFICES ASSUME NEW e \in Episodes, e # ep
               PROVE  /\ Owned(rows, {e}) = Owned(ledger, {e})
                      /\ CostOf(rows, Owned(rows, {e})) = Spent(e)
    BY <1>0
  <2>1. Spent(e) \in Nat
    BY <1>2, CostType, OwnedFacts DEF Spent
  <2>2. Owned(rows, {e}) = Owned(ledger, {e})
    BY <1>7
  <2>3. CostOf(rows, Owned(rows, {e})) = Spent(e) + 0
    BY <1>7
  <2> QED
    BY <2>1, <2>2, <2>3
<1> QED
  BY <1>0, <1>1, <1>8, <1>12, <1>13, <1>14, <1>15, <1>16, <1>17, <1>18, LedgerStep

\* An answer settles the last row.
LEMMA SettleStep ==
    ASSUME OneService, IInv, NEW s \in Services, Settle(s)
    PROVE  IInv'
<1>0. PICK ep \in Episodes : ep = thr[s].ep
  BY Types, Numbers
<1>1. thr[s].step = "sent" /\ UNCHANGED <<meta, log, svc>>
  BY DEF Settle
<1>k. PICK k \in Calls : k = thr[s].call
  BY <1>1, RunFacts
<1>2. /\ ep \in Episodes /\ Started(ep) /\ ~Ended(ep) /\ Calling(thr[s])
      /\ thr \in [Services -> Thread] /\ thr[s] \in Thread
      /\ ledger \in Seq(Row) /\ Len(ledger) \in Nat /\ DOMAIN ledger = 1 .. Len(ledger)
      /\ Len(ledger) <= MaxRows /\ Len(ledger) <= MaxCalls
  BY <1>0, <1>1, ThreadFacts, RunFacts
<1>3. /\ thr[s].calls = Len(ledger) /\ thr[s].cost = Spent(ep) /\ Exists(ep)
      /\ \A e \in Episodes : Exists(e) => e <= ep
      /\ k = Len(ledger) /\ k \in DOMAIN ledger /\ ledger[k].owner = ep
      /\ ~ledger[k].settled /\ k \in log[ep].requests
  <2>1. /\ thr[s].calls = Len(ledger) /\ thr[s].cost = Spent(ep) /\ Exists(ep)
        /\ \A e \in Episodes : Exists(e) => e <= ep
    BY <1>0, <1>1, ThreadFacts
  <2> QED
    BY <1>0, <1>k, <1>1, <1>2, <2>1 DEF Calling
<1>4. ledger[k].cost = Reserve /\ meta[ep].calls < k /\ meta[ep].calls \in Nat
  <2>1. meta[ep].calls \in Nat
    BY <1>0, <1>1, ThreadFacts
  <2> QED
    BY <1>2, <1>3, <2>1 DEF IInv, Rows
<1>5. PICK rows \in Seq(Row) : rows = Settled(ledger, k)
  BY <1>2, <1>3, SettledRow
<1>6. /\ Len(rows) = Len(ledger) /\ DOMAIN rows = DOMAIN ledger
      /\ rows[k] = [owner |-> ep, cost |-> Actual, settled |-> TRUE]
      /\ \A i \in DOMAIN ledger \ {k} : rows[i] = ledger[i]
      /\ \A e \in Episodes :
            /\ Owned(rows, {e}) = Owned(ledger, {e})
            /\ CostOf(rows, Owned(ledger, {e}))
                  = Spent(e) - (IF ep = e THEN Reserve - Actual ELSE 0)
  <2>1. /\ Len(rows) = Len(ledger) /\ DOMAIN rows = DOMAIN ledger
        /\ rows[k] = [owner |-> ep, cost |-> Actual, settled |-> TRUE]
        /\ \A i \in DOMAIN ledger \ {k} : rows[i] = ledger[i]
    <3>1. /\ Len(Settled(ledger, k)) = Len(ledger)
          /\ DOMAIN Settled(ledger, k) = DOMAIN ledger
          /\ Settled(ledger, k)[k] = [owner |-> ledger[k].owner, cost |-> Actual, settled |-> TRUE]
          /\ \A i \in DOMAIN ledger \ {k} : Settled(ledger, k)[i] = ledger[i]
      BY <1>0, <1>2, <1>3, SettledRow
    <3> QED
      BY <1>3, <1>5, <3>1
  <2>2. ASSUME NEW e \in Episodes
        PROVE  /\ Owned(rows, {e}) = Owned(ledger, {e})
               /\ CostOf(rows, Owned(ledger, {e}))
                     = Spent(e) - (IF ep = e THEN Reserve - Actual ELSE 0)
    <3>1. /\ Owned(Settled(ledger, k), {e}) = Owned(ledger, {e})
          /\ CostOf(Settled(ledger, k), Owned(ledger, {e}))
                = CostOf(ledger, Owned(ledger, {e}))
                    - (IF ledger[k].owner = e THEN ledger[k].cost - Actual ELSE 0)
      <4>0. ledger \in Seq(Row) /\ k \in DOMAIN ledger
        BY <1>2, <1>3
      <4>1. \A S : Owned(Settled(ledger, k), S) = Owned(ledger, S)
        BY <4>0, SettledRow, Zenon
      <4>2. CostOf(Settled(ledger, k), Owned(ledger, {e}))
              = CostOf(ledger, Owned(ledger, {e}))
                  - (IF ledger[k].owner = e THEN ledger[k].cost - Actual ELSE 0)
        BY <4>0, SettledRow, ZenonT(40)
      <4> QED
        BY <4>1, <4>2, Zenon
    <3> QED
      BY <1>3, <1>4, <1>5, <3>1, Zenon DEF Spent
  <2> QED
    BY <2>1, <2>2
<1>7. ledger' = rows
  BY <1>k, <1>5 DEF Settle, Settled
<1>8. rows[k].owner = ep /\ rows[k].cost = Actual /\ rows[k].settled
  BY <1>6
<1>9. thr[s].cost \in Int /\ thr[s].cost - (Reserve - Actual) \in Int
  <2>1. thr[s].cost \in Int /\ Reserve \in Nat /\ Actual \in Nat
    BY <1>1, ThreadFacts, Numbers
  <2> QED
    BY <2>1
<1>10. PICK t \in Thread : t = [thr[s] EXCEPT !.step = "settled", !.cost = @ - (Reserve - Actual)]
  BY <1>2, <1>9 DEF Thread, ThreadSteps
<1>11. /\ t.step = "settled" /\ t.ep = ep /\ t.calls = thr[s].calls
       /\ t.cost = thr[s].cost - (Reserve - Actual) /\ t.call = k
  BY <1>0, <1>k, <1>2, <1>10 DEF Thread
<1>12. thr' = [thr EXCEPT ![s] = t]
  <2>1. thr \in [Services -> Thread]
    BY DEF IInv, TypeOK
  <2> QED
    BY <1>2, <1>10, <2>1 DEF Settle
<1>13. Running(t)'
  <2>1. Spent(ep)' = Spent(ep) - (Reserve - Actual)
    <3>1. CostOf(rows, Owned(rows, {ep})) = Spent(ep) - (Reserve - Actual)
      BY <1>2, <1>6
    <3>2. Spent(ep)' = CostOf(rows, Owned(rows, {ep}))
      BY <1>7 DEF Spent
    <3> QED
      BY <3>1, <3>2
  <2>2. t.calls = Len(ledger)' /\ t.cost = Spent(t.ep)'
    <3>1. t.calls = Len(ledger)'
      BY <1>3, <1>6, <1>7, <1>11
    <3>2. Spent(t.ep)' = Spent(ep)'
      BY <1>11 DEF Spent
    <3> HIDE DEF Spent
    <3> QED
      BY <1>3, <1>11, <2>1, <3>1, <3>2
  <2>3. Calling(t)'
    BY <1>1, <1>3, <1>6, <1>7, <1>8, <1>11 DEF Calling
  <2>4. /\ Exists(t.ep)' /\ \A e \in Episodes : Exists(e)' => e <= t.ep
        /\ Started(t.ep)' /\ ~Ended(t.ep)'
    BY <1>1, <1>2, <1>3, <1>11 DEF Exists, Started, Ended
  <2> HIDE DEF Spent, Calling
  <2> QED
    BY <1>11, <2>2, <2>3, <2>4 DEF Running
<1>14. \A i \in DOMAIN ledger :
          /\ i <= meta[thr[s].ep].calls => rows[i] = ledger[i]
          /\ rows[i].owner = ledger[i].owner /\ (ledger[i].settled => rows[i].settled)
  <2> SUFFICES ASSUME NEW i \in DOMAIN ledger
               PROVE  /\ i <= meta[ep].calls => rows[i] = ledger[i]
                      /\ rows[i].owner = ledger[i].owner /\ (ledger[i].settled => rows[i].settled)
    BY <1>0
  <2>1. CASE i = k
    <3>1. ~(i <= meta[ep].calls)
      BY <1>2, <1>4, <2>1
    <3> QED
      BY <1>3, <1>8, <2>1, <3>1
  <2>2. CASE i # k
    BY <1>6, <2>2
  <2> QED
    BY <2>1, <2>2
<1>15. ASSUME NEW i \in DOMAIN rows
       PROVE  /\ rows[i].cost = IF rows[i].settled THEN Actual ELSE Reserve
              /\ rows[i].settled => i \in log[rows[i].owner].requests
              /\ i \notin DOMAIN ledger =>
                    rows[i].owner = thr[s].ep /\ meta[thr[s].ep].calls < i
  <2>1. CASE i = k
    BY <1>3, <1>6, <1>8, <2>1
  <2>2. CASE i # k
    BY <1>6, <2>2 DEF IInv, Rows
  <2> QED
    BY <2>1, <2>2
<1>16. \A e \in Episodes \ {thr[s].ep} :
          /\ Owned(rows, {e}) = Owned(ledger, {e})
          /\ CostOf(rows, Owned(rows, {e})) = Spent(e)
  <2> SUFFICES ASSUME NEW e \in Episodes, e # ep
               PROVE  /\ Owned(rows, {e}) = Owned(ledger, {e})
                      /\ CostOf(rows, Owned(rows, {e})) = Spent(e)
    BY <1>0
  <2>1. Spent(e) \in Nat
    BY <1>2, CostType, OwnedFacts DEF Spent
  <2>2. Owned(rows, {e}) = Owned(ledger, {e})
    BY <1>6
  <2>3. CostOf(rows, Owned(ledger, {e})) = Spent(e) - 0
    BY <1>6
  <2> QED
    BY <2>1, <2>2, <2>3
<1>17. thr[s].step \notin {"none", "starting"} /\ t.step # "none"
  BY <1>1, <1>11
<1>18. Len(ledger) <= Len(rows) /\ Len(rows) <= MaxRows /\ Len(rows) <= MaxCalls
  BY <1>2, <1>6
<1> QED
  BY <1>0, <1>1, <1>7, <1>12, <1>13, <1>14, <1>15, <1>16, <1>17, <1>18, LedgerStep

---------------------------------------------------------------------------
(* Admissions *)

\* Before there is a root nothing was spent.
LEMMA NoRootNoRows ==
    ASSUME IInv, ~Exists(Root)
    PROVE  ledger = <<>> /\ Len(ledger) = 0
<1>1. ledger \in Seq(Row) /\ Len(ledger) \in Nat /\ DOMAIN ledger = 1 .. Len(ledger)
  BY DEF IInv, TypeOK
<1>2. ASSUME NEW i \in DOMAIN ledger PROVE FALSE
  <2>1. PICK e \in Episodes : e = ledger[i].owner
    BY <1>1, RowFacts
  <2>2. Exists(e)
    BY <2>1 DEF IInv, Rows
  <2>3. e = Root \/ Root < e
    BY Numbers
  <2> QED
    BY <2>2, <2>3, Numbers DEF IInv, Manifests
<1>3. Len(ledger) = 0
  <2>1. 1 \notin DOMAIN ledger
    BY <1>2
  <2> QED
    BY <1>1, <2>1
<1> QED
  BY <1>1, <1>3

\* An episode that does not exist has journaled and spent nothing.
LEMMA NotThere ==
    ASSUME IInv, NEW e \in Episodes, ~Exists(e)
    PROVE  /\ meta[e] = Absent /\ log[e] = NoEvents
           /\ Owned(ledger, {e}) = {} /\ Spent(e) = 0
           /\ \A d \in Episodes : Exists(d) => d < e
<1>1. meta[e] = Absent /\ log[e] = NoEvents
  BY DEF IInv, Manifests, Journals
<1>2. Owned(ledger, {e}) = {}
  BY DEF IInv, Rows, Owned
<1>3. Spent(e) = 0
  BY <1>2, CostNone DEF Spent, IInv, TypeOK
<1>4. ASSUME NEW d \in Episodes, Exists(d) PROVE d < e
  <2>1. ~(e < d)
    BY <1>4 DEF IInv, Manifests
  <2>2. d # e /\ d \in Nat /\ e \in Nat
    BY <1>4, Numbers
  <2> QED
    BY <2>1, <2>2
<1> QED
  BY <1>1, <1>2, <1>3, <1>4

\* A step that only moves the service: no thread runs, and a plan in hand is a
\* plan of this moment.
LEMMA ServiceStep ==
    ASSUME OneService, IInv, NEW s \in Services, NEW plan \in InHand,
           svc' = [svc EXCEPT ![s] = plan], thr' \in [Services -> Thread], thr'[s].step = "none",
           UNCHANGED <<meta, log, ledger>>,
           plan.step # "idle" =>
              /\ plan.ledger = ledger /\ Exists(Root)
              /\ plan.step = "restoring" =>
                    /\ \A e \in RestoreOwners : log[e].terminal.why # "won"
                    /\ log[Root].terminal.why # "cost_cap"
    PROVE  IInv'
<1>1. \A d \in Services : d = s
  BY DEF OneService
<1>2. svc'[s] = plan /\ svc' \in [Services -> InHand]
  BY DEF IInv, TypeOK
<1>3. TypeOK' /\ SharedAllowance'
  BY <1>2 DEF IInv, TypeOK, SharedAllowance
<1>4. Manifests' /\ Rows'
  BY DEF IInv, Manifests, Rows, Exists, Started
<1>5. Journals'
  <2> SUFFICES ASSUME NEW e \in Episodes PROVE Claims(e)'
    BY DEF IInv, Journals, Exists
  <2>1. Claims(e) /\ Owned(ledger, {e})' = Owned(ledger, {e}) /\ Spent(e)' = Spent(e)
    BY DEF IInv, Journals, Spent
  <2> QED
    BY <2>1, ClaimsStay
<1>6. Threads'
  BY <1>1 DEF Threads
<1>7. Plans'
  BY <1>1, <1>2 DEF Plans, Exists, RestoreOwners
<1>8. Closed'
  <2>1. Spent(Root)' = Spent(Root)
    BY DEF Spent
  <2>2. Root \in RestoreOwners
    BY DEF RestoreOwners
  <2>3. plan.step = "restoring" => log[Root].terminal.why \notin {"won", "cost_cap"}
    BY <2>2
  <2> HIDE DEF Spent, RestoreOwners
  <2> QED
    BY <1>1, <1>2, <2>1, <2>3 DEF IInv, Closed
<1> QED
  BY <1>3, <1>4, <1>5, <1>6, <1>7, <1>8 DEF IInv

\* A step that creates the next episode with the ledger as it is, and its thread.
LEMMA BirthStep ==
    ASSUME OneService, IInv, NEW s \in Services, thr[s].step = "none",
           NEW e \in Episodes, ~Exists(e), \A d \in Episodes : d < e => Exists(d),
           NEW m \in Manifest, m.kind # "absent", m.kind = "root" <=> e = Root,
           m.calls = Len(ledger), m.admitted = ledger, e = Root => m.cap = Cap,
           m.kind = "restore" => log[Root].terminal.why \notin {"won", "cost_cap"},
           meta' = [meta EXCEPT ![e] = m], Launch(s, e, Len(ledger)),
           svc' \in [Services -> InHand], svc'[s].step = "idle", UNCHANGED <<log, ledger>>
    PROVE  IInv'
<1>1. \A d \in Services : d = s
  BY DEF OneService
<1>2. /\ meta \in [Episodes -> Manifest] /\ meta' \in [Episodes -> Manifest] /\ meta'[e] = m
      /\ \A d \in Episodes \ {e} : meta'[d] = meta[d]
      /\ ledger \in Seq(Row) /\ Len(ledger) \in Nat /\ DOMAIN ledger = 1 .. Len(ledger)
      /\ Len(ledger) <= MaxRows
  BY DEF IInv, TypeOK
<1>3. /\ log[e] = NoEvents /\ Owned(ledger, {e}) = {} /\ Spent(e) = 0
      /\ \A d \in Episodes : Exists(d) => d < e
  BY NotThere
<1>4. PICK t \in Thread : t = Prepared(e, Len(ledger))
  <2>1. NoThread \in Thread
    BY Numbers DEF NoThread, Thread, ThreadSteps
  <2>2. [NoThread EXCEPT !.step = "starting", !.ep = e, !.calls = Len(ledger)] \in Thread
    BY <1>2, <2>1 DEF Thread, ThreadSteps
  <2> QED
    BY <2>2 DEF Prepared
<1>5. t.step = "starting" /\ t.ep = e /\ t.calls = Len(ledger) /\ t.cost = 0
  BY <1>4 DEF Prepared, NoThread
<1>6. /\ thr' = [thr EXCEPT ![s] = t] /\ thr' \in [Services -> Thread] /\ thr'[s] = t
  <2>1. thr \in [Services -> Thread]
    BY DEF IInv, TypeOK
  <2> QED
    BY <1>4, <2>1 DEF Launch
<1>8. svc' \in [Services -> InHand] /\ svc'[s].step = "idle"
  OBVIOUS
<1>9. /\ \A d \in Episodes : d # e => (Exists(d)' <=> Exists(d))
      /\ Exists(e)'
  BY <1>2 DEF Exists
<1>10. TypeOK' /\ SharedAllowance'
  BY <1>2, <1>6, <1>8 DEF IInv, TypeOK, SharedAllowance
<1>11. Manifests'
  <2>1. ASSUME NEW x \in Episodes
        PROVE  /\ ~Exists(x)' => meta'[x] = Absent
               /\ meta'[x].kind = "root" => x = Root
               /\ Exists(x)' =>
                    /\ \A d \in Episodes : d < x => Exists(d)' /\ meta'[d].calls <= meta'[x].calls
                    /\ meta'[x].calls <= Len(ledger)
                    /\ meta'[x].admitted = SubSeq(ledger, 1, meta'[x].calls)
    <3>1. CASE x = e
      <4>1. SubSeq(ledger, 1, Len(ledger)) = ledger
        BY <1>2
      <4>2. ASSUME NEW d \in Episodes, d < x
            PROVE  Exists(d)' /\ meta'[d].calls <= meta'[x].calls
        <5>1. d # e /\ Exists(d)
          BY <3>1, <4>2, Numbers
        <5> QED
          BY <1>2, <1>9, <3>1, <5>1 DEF IInv, Manifests
      <4> QED
        BY <1>2, <1>9, <3>1, <4>1, <4>2
    <3>2. CASE x # e
      <4>1. /\ ~Exists(x) => meta[x] = Absent
            /\ meta[x].kind = "root" => x = Root
            /\ Exists(x) =>
                 /\ \A d \in Episodes : d < x => Exists(d) /\ meta[d].calls <= meta[x].calls
                 /\ meta[x].calls <= Len(ledger)
                 /\ meta[x].admitted = SubSeq(ledger, 1, meta[x].calls)
        BY DEF IInv, Manifests
      <4>2. meta'[x] = meta[x] /\ (Exists(x)' <=> Exists(x))
        BY <1>2, <1>9, <3>2
      <4>3. ASSUME Exists(x), NEW d \in Episodes, d < x PROVE d # e
        BY <1>3, <4>3, Numbers
      <4> QED
        BY <1>2, <1>9, <4>1, <4>2, <4>3
    <3> QED
      BY <3>1, <3>2
  <2>2. /\ meta'[Root].kind \in {"absent", "root"} /\ meta'[Root].calls = 0
        /\ meta'[Root].cap = Cap
    <3>1. CASE e = Root
      BY <1>2, <3>1, NoRootNoRows
    <3>2. CASE e # Root
      BY <1>2, <3>2, Numbers DEF IInv, Manifests
    <3> QED
      BY <3>1, <3>2
  <2> HIDE DEF Exists
  <2> QED
    BY <2>1, <2>2 DEF Manifests
<1>12. Rows'
  <2> SUFFICES ASSUME NEW i \in DOMAIN ledger
               PROVE  /\ Exists(ledger[i].owner)'
                      /\ meta'[ledger[i].owner].calls < i
                      /\ \A d \in Episodes :
                            Exists(d)' /\ ledger[i].owner < d => i <= meta'[d].calls
    BY DEF IInv, Rows, Started, Exists
  <2>1. PICK o \in Episodes : o = ledger[i].owner
    BY <1>2, RowFacts
  <2>2. /\ Exists(o) /\ meta[o].calls < i
        /\ \A d \in Episodes : Exists(d) /\ o < d => i <= meta[d].calls
    BY <2>1 DEF IInv, Rows
  <2>3. o # e /\ i <= Len(ledger)
    BY <1>2, <2>2
  <2>4. Exists(o)' /\ meta'[o].calls < i
    BY <1>2, <1>9, <2>2, <2>3
  <2>5. ASSUME NEW d \in Episodes, Exists(d)', o < d PROVE i <= meta'[d].calls
    <3>1. CASE d = e
      BY <1>2, <2>3, <3>1
    <3>2. CASE d # e
      BY <1>2, <1>9, <2>2, <2>5, <3>2
    <3> QED
      BY <3>1, <3>2
  <2> QED
    BY <2>1, <2>4, <2>5 DEF Exists
<1>13. Journals'
  <2> SUFFICES ASSUME NEW x \in Episodes
               PROVE  (~Exists(x)' => log[x] = NoEvents) /\ Claims(x)'
    BY DEF IInv, Journals, Exists
  <2>1. CASE x = e
    <3>1. log'[x].terminal.why = "none"
      BY <1>3, <2>1 DEF NoEvents, NoTerminal
    <3> QED
      BY <1>9, <2>1, <3>1 DEF Claims
  <2>2. CASE x # e
    <3>1. /\ Claims(x) /\ Owned(ledger, {x})' = Owned(ledger, {x}) /\ Spent(x)' = Spent(x)
          /\ (~Exists(x) => log[x] = NoEvents) /\ meta'[x].calls = meta[x].calls
      BY <1>2, <2>2 DEF IInv, Journals, Spent
    <3>2. Claims(x)'
      BY <3>1, ClaimsStay
    <3> QED
      BY <1>9, <2>2, <3>1, <3>2
  <2> QED
    BY <2>1, <2>2
<1>14. Threads'
  <2>1. Running(t)'
    <3>1. Spent(t.ep)' = 0
      BY <1>3, <1>5 DEF Spent
    <3>2. Exists(t.ep)' /\ \A d \in Episodes : Exists(d)' => d <= t.ep
      <4>1. ASSUME NEW d \in Episodes, Exists(d)' PROVE d <= e
        BY <1>3, <1>9, <4>1, Numbers
      <4> QED
        BY <1>5, <1>9, <4>1 DEF Exists
    <3>3. ~Started(t.ep)'
      BY <1>3, <1>5 DEF Started, NoEvents
    <3> HIDE DEF Spent, Exists, Started
    <3> QED
      BY <1>5, <3>1, <3>2, <3>3 DEF Running
  <2> QED
    BY <1>1, <1>6, <1>8, <2>1, OneThread
<1>15. Plans'
  BY <1>1, <1>8 DEF Plans
<1>16. Closed'
  <2>1. Spent(Root)' = Spent(Root)
    BY DEF Spent
  <2>2. \A d \in Episodes : meta'[d].kind = "restore" =>
            meta[d].kind = "restore" \/ log[Root].terminal.why \notin {"won", "cost_cap"}
    BY <1>2
  <2> HIDE DEF Spent
  <2> QED
    BY <1>1, <1>8, <2>1, <2>2 DEF IInv, Closed
<1> QED
  BY <1>10, <1>11, <1>12, <1>13, <1>14, <1>15, <1>16 DEF IInv

\* No thread of the one process runs while an admission is on its way.
LEMMA PlanFacts ==
    ASSUME OneService, IInv, NEW s \in Services, svc[s].step # "idle"
    PROVE  /\ thr[s].step = "none" /\ svc[s] \in InHand /\ svc[s].ledger = ledger /\ Exists(Root)
           /\ svc[s].step = "restoring" => log[Root].terminal.why \notin {"won", "cost_cap"}
<1>1. thr[s].step = "none"
  BY DEF IInv, Threads
<1>2. Root \in RestoreOwners
  BY DEF RestoreOwners
<1>3. svc[s].step = "restoring" => log[Root].terminal.why # "won"
  BY <1>2 DEF IInv, Plans
<1>4. svc[s].step = "restoring" => log[Root].terminal.why # "cost_cap"
  BY DEF IInv, Closed
<1> QED
  BY <1>1, <1>3, <1>4 DEF IInv, Plans, TypeOK

\* No plan is one, too.
LEMMA NoPlan == NoAdmission \in InHand /\ NoAdmission.step = "idle"
<1>1. <<>> \in Seq(Row) /\ Root \in Episodes /\ Cap \in Nat
  BY Numbers
<1> QED
  BY <1>1 DEF NoAdmission, InHand

\* The plan in hand becomes a child.
LEMMA AdmitStep ==
    ASSUME OneService, IInv, NEW s \in Services, NEW kind \in {"restore", "budget"},
           svc[s].step = IF kind = "restore" THEN "restoring" ELSE "funding", Admit(s, kind)
    PROVE  IInv'
<1>1. PICK e \in NextChild :
        /\ meta' = [meta EXCEPT ![e] =
             [kind |-> kind, parent |-> svc[s].parent, calls |-> Len(svc[s].ledger),
              admitted |-> svc[s].ledger, cap |-> svc[s].cap]]
        /\ Launch(s, e, Len(svc[s].ledger))
  BY DEF Admit
<1>2. /\ thr[s].step = "none" /\ svc[s] \in InHand /\ svc[s].ledger = ledger /\ Exists(Root)
      /\ kind = "restore" => log[Root].terminal.why \notin {"won", "cost_cap"}
  BY PlanFacts
<1>3. /\ e \in Episodes /\ e # Root /\ ~Exists(e)
      /\ \A d \in Episodes : d < e => Exists(d)
  <2>1. e \in Episodes /\ e # Root /\ ~Exists(e) /\ \A d \in 1 .. (e - 1) : Exists(d)
    BY DEF NextChild
  <2>2. ASSUME NEW d \in Episodes, d < e PROVE d = Root \/ d \in 1 .. (e - 1)
    BY <2>1, <2>2, Numbers
  <2> QED
    BY <1>2, <2>1, <2>2
<1>4. PICK m \in Manifest :
        m = [kind |-> kind, parent |-> svc[s].parent, calls |-> Len(ledger),
             admitted |-> ledger, cap |-> svc[s].cap]
  <2>1. svc[s].parent \in Episodes /\ svc[s].cap \in Nat
    BY <1>2 DEF InHand
  <2>2. ledger \in Seq(Row) /\ Len(ledger) \in Nat
    BY DEF IInv, TypeOK
  <2> QED
    BY <2>1, <2>2 DEF Manifest
<1>5. m.kind = kind /\ m.calls = Len(ledger) /\ m.admitted = ledger
  BY <1>4
<1>6. meta' = [meta EXCEPT ![e] = m] /\ Launch(s, e, Len(ledger))
  BY <1>1, <1>2, <1>4
<1>7. svc' \in [Services -> InHand] /\ svc'[s].step = "idle" /\ UNCHANGED <<log, ledger>>
  <2>1. svc' = [svc EXCEPT ![s] = NoAdmission] /\ UNCHANGED <<log, ledger>>
    BY DEF Admit
  <2> QED
    BY <2>1, NoPlan DEF IInv, TypeOK
<1> QED
  BY <1>2, <1>3, <1>5, <1>6, <1>7, BirthStep

LEMMA AdmissionStep ==
    ASSUME OneService, IInv, NEW s \in Services,
           \/ Start(s)
           \/ \E parent \in Episodes : StartRestore(s, parent)
           \/ \E cap \in RaisedCaps : ContinueBudget(s, cap)
           \/ PreflightRefuses(s) \/ RestoreChild(s) \/ FundChild(s) \/ Crash(s)
    PROVE  IInv'
<1>1. /\ thr \in [Services -> Thread] /\ svc \in [Services -> InHand]
      /\ ledger \in Seq(Row) /\ meta \in [Episodes -> Manifest]
  BY DEF IInv, TypeOK
<1>2. NoAdmission \in InHand /\ NoAdmission.step = "idle"
  BY NoPlan
<1>3. CASE Start(s)
  <2>1. /\ thr[s].step = "none" /\ svc[s].step = "idle" /\ ~Exists(Root)
        /\ UNCHANGED <<log, ledger, svc>>
    BY <1>3 DEF Start, Admission
  <2>2. ledger = <<>> /\ Len(ledger) = 0
    BY <2>1, NoRootNoRows
  <2>3. meta[Root] = Absent /\ meta[Root] \in Manifest
    BY <1>1, <2>1, Numbers, NotThere
  <2>4. PICK m \in Manifest : m = [meta[Root] EXCEPT !.kind = "root"]
    BY <2>3 DEF Manifest
  <2>5. m.kind = "root" /\ m.calls = Len(ledger) /\ m.admitted = ledger /\ m.cap = Cap
    BY <2>2, <2>3, <2>4 DEF Absent
  <2>6. meta' = [meta EXCEPT ![Root] = m] /\ Launch(s, Root, Len(ledger))
    BY <1>3, <2>2, <2>4 DEF Start
  <2>7. \A d \in Episodes : ~(d < Root)
    BY Numbers
  <2>8. svc' \in [Services -> InHand] /\ svc'[s].step = "idle"
    BY <1>1, <2>1
  <2> QED
    BY <2>1, <2>5, <2>6, <2>7, <2>8, Numbers, BirthStep
<1>4. ASSUME NEW parent \in Episodes, StartRestore(s, parent) PROVE IInv'
  <2>1. /\ thr[s].step = "none" /\ Exists(parent) /\ UNCHANGED <<meta, log, ledger, thr>>
        /\ RestoreRoot(parent) /\ LatestBoundary(parent) /\ RestoreSpending(parent)
        /\ Affordable(Cap)
        /\ svc' = [svc EXCEPT ![s] = [step |-> "restoring", parent |-> parent,
                                      ledger |-> ledger, cap |-> Cap]]
    BY <1>4 DEF StartRestore, Admission, PrepareRestore
  <2>2. PICK plan \in InHand :
          plan = [step |-> "restoring", parent |-> parent, ledger |-> ledger, cap |-> Cap]
    BY <1>1, Numbers DEF InHand
  <2>3. plan.ledger = ledger
    BY <2>2
  <2>4. Exists(Root)
    <3>1. parent = Root \/ Root < parent
      BY Numbers
    <3> QED
      BY <2>1, <3>1, Numbers DEF IInv, Manifests
  <2>5. log[Root].terminal.why # "won"
    <3> SUFFICES ASSUME log[Root].terminal.why = "won" PROVE FALSE
      OBVIOUS
    <3>1. meta[parent].kind # "restore"
      BY DEF IInv, Closed
    <3>2. parent = Root
      BY <2>1, <3>1 DEF RestoreRoot, IInv, Manifests
    <3> QED
      BY <2>1, <3>2 DEF LatestBoundary
  <2>6. \A e \in RestoreOwners : log[e].terminal.why # "won"
    BY <2>1, <2>5 DEF RestoreSpending
  <2>7. log[Root].terminal.why # "cost_cap"
    <3>1. Spent(Root) <= Total(ledger)
      BY <1>1, OwnedFacts, CostPart DEF Spent, Total
    <3>2. Spent(Root) \in Nat /\ Total(ledger) \in Nat
      BY <1>1, OwnedFacts, CostType DEF Spent, Total
    <3>3. Total(ledger) + Reserve <= Cap
      BY <2>1 DEF Affordable
    <3>4. ~(Spent(Root) + Reserve > Cap)
      BY <3>1, <3>2, <3>3, Numbers
    <3> QED
      BY <3>4 DEF IInv, Closed
  <2> QED
    BY <1>1, <2>1, <2>2, <2>3, <2>4, <2>6, <2>7, ServiceStep
<1>5. ASSUME NEW cap \in RaisedCaps, ContinueBudget(s, cap) PROVE IInv'
  <2>1. /\ thr[s].step = "none" /\ log[Root].terminal.why = "cost_cap"
        /\ UNCHANGED <<meta, log, ledger, thr>>
        /\ svc' = [svc EXCEPT ![s] = [step |-> "funding", parent |-> Root,
                                      ledger |-> ledger, cap |-> cap]]
    BY <1>5 DEF ContinueBudget, Admission, PrepareBudget, ReadParent
  <2>2. cap \in Nat
    BY FamilyAssumption
  <2>3. PICK plan \in InHand :
          plan = [step |-> "funding", parent |-> Root, ledger |-> ledger, cap |-> cap]
    BY <1>1, <2>2, Numbers DEF InHand
  <2>4. plan.step = "funding" /\ plan.ledger = ledger
    BY <2>3
  <2>5. Exists(Root)
    <3>1. ~Exists(Root) => log[Root] = NoEvents
      BY Numbers DEF IInv, Journals
    <3> QED
      BY <2>1, <3>1 DEF NoEvents, NoTerminal
  <2> QED
    BY <1>1, <2>1, <2>3, <2>4, <2>5, ServiceStep
<1>6. CASE PreflightRefuses(s)
  <2>1. /\ svc[s].step # "idle" /\ svc' = [svc EXCEPT ![s] = NoAdmission]
        /\ UNCHANGED <<meta, log, ledger, thr>>
    BY <1>6 DEF PreflightRefuses
  <2> QED
    BY <1>1, <1>2, <2>1, PlanFacts, ServiceStep
<1>7. CASE RestoreChild(s)
  BY <1>7, AdmitStep DEF RestoreChild
<1>8. CASE FundChild(s)
  BY <1>8, AdmitStep DEF FundChild
<1>9. CASE Crash(s)
  <2>1. /\ svc' = [svc EXCEPT ![s] = NoAdmission] /\ thr' = [thr EXCEPT ![s] = NoThread]
        /\ UNCHANGED <<meta, log, ledger>>
    BY <1>9 DEF Crash
  <2>2. NoThread \in Thread /\ NoThread.step = "none"
    BY Numbers DEF NoThread, Thread, ThreadSteps
  <2>3. thr' \in [Services -> Thread] /\ thr'[s].step = "none"
    BY <1>1, <2>1, <2>2
  <2> QED
    BY <1>2, <2>1, <2>3, ServiceStep
<1> QED
  BY <1>3, <1>4, <1>5, <1>6, <1>7, <1>8, <1>9

---------------------------------------------------------------------------
(* Recovery *)

\* What recovery writes for an episode is an outcome.
Recovered(e) == Terminal("recovered", Cardinality(log[e].requests), Priced(e))

LEMMA RecoveredOutcome ==
    ASSUME IInv, NEW e \in Episodes
    PROVE  /\ Recovered(e) \in Outcome /\ Recovered(e).why = "recovered"
           /\ Recovered(e).calls = Cardinality(log[e].requests) /\ Recovered(e).cost = Priced(e)
<1>1. /\ IsFiniteSet(Owned(ledger, {e}))
      /\ log[e].requests \subseteq Owned(ledger, {e})
      /\ log[e].responses \subseteq log[e].requests
  BY OwnedFacts DEF IInv, Journals, TypeOK
<1>2. /\ Cardinality(log[e].requests) \in Nat /\ Cardinality(log[e].responses) \in Nat
      /\ Cardinality(log[e].requests \ log[e].responses) \in Nat
  BY <1>1, FS_Subset, FS_CardinalityType
<1>3. Priced(e) \in Int
  <2>1. \A a, b, m, n \in Nat : a * m + b * n \in Int
    OBVIOUS
  <2> QED
    BY <1>2, <2>1, Numbers DEF Priced
<1> QED
  BY <1>2, <1>3 DEF Recovered, Terminal, Outcome, Reasons

LEMMA RecoverStep ==
    ASSUME OneService, IInv, Recover
    PROVE  IInv'
<1>1. /\ UNCHANGED <<meta, ledger, svc, thr>>
      /\ \A e \in Episodes :
            log'[e] = IF ~Exists(e) \/ Ended(e) THEN log[e]
                      ELSE [log[e] EXCEPT !.terminal = Recovered(e)]
      /\ DOMAIN log' = Episodes /\ \E f : log' = [e \in Episodes |-> f[e]]
  <2>1. log' = [e \in Episodes |->
          IF ~Exists(e) \/ Ended(e) THEN log[e] ELSE [log[e] EXCEPT !.terminal = Recovered(e)]]
    BY DEF Recover, Recovered, Priced
  <2> QED
    BY <2>1 DEF Recover
<1>2. ASSUME NEW e \in Episodes
      PROVE  /\ log'[e] \in Journal
             /\ log'[e].requests = log[e].requests /\ log'[e].responses = log[e].responses
             /\ log'[e].stage = log[e].stage
             /\ log'[e].terminal = IF ~Exists(e) \/ Ended(e) THEN log[e].terminal ELSE Recovered(e)
             /\ ~Exists(e) \/ Ended(e) => log'[e] = log[e]
  <2>1. log[e] \in Journal /\ Recovered(e) \in Outcome
    BY RecoveredOutcome DEF IInv, TypeOK
  <2>2. CASE ~Exists(e) \/ Ended(e)
    BY <1>1, <2>1, <2>2
  <2>3. CASE ~(~Exists(e) \/ Ended(e))
    <3>1. PICK new \in Journal : new = [log[e] EXCEPT !.terminal = Recovered(e)]
      BY <2>1 DEF Journal
    <3>2. /\ new.requests = log[e].requests /\ new.responses = log[e].responses
          /\ new.stage = log[e].stage /\ new.terminal = Recovered(e)
      BY <2>1, <3>1 DEF Journal
    <3>3. log'[e] = new
      BY <1>1, <2>3, <3>1
    <3> QED
      BY <2>3, <3>2, <3>3
  <2> QED
    BY <2>2, <2>3
<1>3. ASSUME NEW e \in Episodes
      PROVE  log'[e].terminal.why = log[e].terminal.why \/ log'[e].terminal.why = "recovered"
  BY <1>2, RecoveredOutcome
<1>4. log' \in [Episodes -> Journal]
  BY <1>1, <1>2
<1>5. TypeOK' /\ SharedAllowance'
  BY <1>1, <1>4 DEF IInv, TypeOK, SharedAllowance
<1>6. Manifests'
  BY <1>1 DEF IInv, Manifests, Exists
<1>7. Rows'
  <2> SUFFICES ASSUME NEW i \in DOMAIN ledger
               PROVE  /\ ledger[i].settled => i \in log'[ledger[i].owner].requests
                      /\ log'[ledger[i].owner].stage # "empty"
    BY <1>1 DEF IInv, Rows, Exists, Started
  <2>1. ledger[i].owner \in Episodes
    BY RowFacts DEF IInv, TypeOK
  <2> QED
    BY <1>2, <2>1 DEF IInv, Rows, Started
<1>8. Journals'
  <2> SUFFICES ASSUME NEW e \in Episodes
               PROVE  /\ ~Exists(e) => log'[e] = NoEvents
                      /\ log'[e].requests \subseteq Owned(ledger, {e})
                      /\ log'[e].responses \subseteq {i \in log'[e].requests : ledger[i].settled}
                      /\ Claims(e)'
    BY <1>1 DEF Journals, Exists
  <2>1. Claims(e)'
    <3>1. CASE ~Exists(e) \/ Ended(e)
      <4>1. Claims(e) /\ Spent(e)' = Spent(e) /\ Owned(ledger, {e})' = Owned(ledger, {e})
        BY <1>1 DEF IInv, Journals, Spent
      <4>2. log'[e] = log[e] /\ meta'[e].calls = meta[e].calls
        BY <1>1, <1>2, <3>1
      <4> QED
        BY <4>1, <4>2, ClaimsStay
    <3>2. CASE ~(~Exists(e) \/ Ended(e))
      <4>1. /\ log'[e].terminal.why = "recovered"
            /\ log'[e].terminal.calls = Cardinality(log[e].requests)
            /\ log'[e].terminal.cost = Priced(e)
        BY <1>2, <3>2, RecoveredOutcome
      <4>2. Priced(e)' = Priced(e) /\ log'[e].requests = log[e].requests
        BY <1>2 DEF Priced
      <4> HIDE DEF Priced
      <4> QED
        BY <4>1, <4>2 DEF Claims
    <3> QED
      BY <3>1, <3>2
  <2> QED
    BY <1>2, <2>1 DEF IInv, Journals
<1>9. Threads'
  <2> SUFFICES ASSUME NEW s \in Services, thr[s].step # "none"
               PROVE  svc'[s].step = "idle" /\ Running(thr[s])'
    BY <1>1 DEF Threads
  <2>1. PICK t \in Thread : t = thr[s] /\ t.ep \in Episodes
    BY Types, Numbers
  <2>2. Running(t) /\ svc[s].step = "idle"
    BY <2>1 DEF IInv, Threads
  <2>3. t.step = "starting"
    <3>1. thr[s].step \in {"none", "starting"}
      BY DEF Recover, WorkerBusy
    <3> QED
      BY <2>1, <3>1
  <2>4. Spent(t.ep)' = Spent(t.ep) /\ Started(t.ep)' = Started(t.ep)
    BY <1>1, <1>2, <2>1 DEF Spent, Started
  <2>5. \A e \in Episodes : Exists(e)' = Exists(e)
    BY <1>1 DEF Exists
  <2>6. Running(t)'
    <3> HIDE DEF Spent, Started, Exists
    <3> QED
      BY <1>1, <2>1, <2>2, <2>3, <2>4, <2>5 DEF Running
  <2>7. thr'[s] = t
    BY <1>1, <2>1
  <2>8. Spent(thr[s].ep)' = Spent(t.ep)'
    BY <2>7 DEF Spent
  <2>9. svc'[s].step = "idle"
    BY <1>1, <2>2
  <2> QED
    <3> HIDE DEF Spent
    <3>1. Running(thr[s])'
      BY <2>3, <2>6, <2>7, <2>8 DEF Running, Exists, Started, Ended
    <3> QED
      BY <2>9, <3>1
<1>10. Plans'
  <2>1. \A e \in Episodes : log'[e].terminal.why = "won" => log[e].terminal.why = "won"
    BY <1>3
  <2>2. RestoreOwners' = RestoreOwners /\ RestoreOwners \subseteq Episodes
    BY <1>1, Numbers DEF RestoreOwners
  <2>3. Exists(Root)' = Exists(Root)
    BY <1>1 DEF Exists
  <2> HIDE DEF RestoreOwners, Exists
  <2> QED
    BY <1>1, <2>1, <2>2, <2>3 DEF IInv, Plans
<1>11. Closed'
  <2>1. Spent(Root)' = Spent(Root)
    BY <1>1 DEF Spent
  <2>2. /\ log'[Root].terminal.why = log[Root].terminal.why
           \/ log'[Root].terminal.why = "recovered"
    BY <1>3, Numbers
  <2> HIDE DEF Spent
  <2> QED
    BY <1>1, <2>1, <2>2 DEF IInv, Closed
<1> QED
  BY <1>5, <1>6, <1>7, <1>8, <1>9, <1>10, <1>11 DEF IInv

---------------------------------------------------------------------------
(* The theorems *)

LEMMA InitInv ==
    ASSUME Init
    PROVE  IInv
<1>1. /\ meta = [e \in Episodes |-> Absent] /\ log = [e \in Episodes |-> NoEvents]
      /\ ledger = <<>> /\ svc = [s \in Services |-> NoAdmission]
      /\ thr = [s \in Services |-> NoThread]
  BY DEF Init
<1>2. /\ <<>> \in Seq(Row) /\ Len(<<>>) = 0 /\ DOMAIN <<>> = {} /\ Root \in Episodes
      /\ Cap \in Nat /\ MaxCalls \in Nat /\ MaxRows \in Nat /\ 0 \in Nat /\ 0 \in Int
  BY Numbers
<1>3. Absent \in Manifest /\ Absent.kind = "absent" /\ Absent.calls = 0 /\ Absent.cap = Cap
  BY <1>2 DEF Absent, Manifest
<1>4. /\ NoEvents \in Journal /\ NoEvents.requests = {} /\ NoEvents.responses = {}
      /\ NoEvents.terminal.why = "none"
  <2>1. NoTerminal \in Outcome /\ NoTerminal.why = "none"
    BY <1>2 DEF NoTerminal, Outcome, Reasons
  <2> QED
    BY <2>1 DEF NoEvents, Journal, Stages
<1>5. NoThread \in Thread /\ NoThread.step = "none"
  BY <1>2 DEF NoThread, Thread, ThreadSteps
<1>6. NoAdmission \in InHand /\ NoAdmission.step = "idle"
  BY NoPlan
<1>7. TypeOK
  BY <1>1, <1>2, <1>3, <1>4, <1>5, <1>6 DEF TypeOK
<1>8. SharedAllowance
  BY <1>1, <1>2 DEF SharedAllowance
<1>9. Manifests /\ Closed
  BY <1>1, <1>2, <1>3, <1>4 DEF Manifests, Exists, Closed
<1>10. Rows
  BY <1>1, <1>2 DEF Rows
<1>11. Journals
  <2> SUFFICES ASSUME NEW e \in Episodes
               PROVE  Claims(e) /\ log[e].requests \subseteq Owned(ledger, {e})
    BY <1>1, <1>4 DEF Journals, Exists
  <2>1. log[e] = NoEvents
    BY <1>1
  <2> QED
    BY <1>4, <2>1 DEF Claims
<1>12. Threads /\ Plans
  BY <1>1, <1>5, <1>6 DEF Threads, Plans
<1> QED
  BY <1>7, <1>8, <1>9, <1>10, <1>11, <1>12 DEF IInv

\* The invariant is inductive where one process serves the family.
LEMMA StepInv ==
    ASSUME OneService, IInv, [Next]_vars
    PROVE  IInv'
<1>1. CASE Next
  <2>1. CASE Recover
    BY <2>1, RecoverStep
  <2>2. ASSUME NEW s \in Services,
               \/ Start(s)
               \/ \E parent \in Episodes : StartRestore(s, parent)
               \/ \E cap \in RaisedCaps : ContinueBudget(s, cap)
               \/ PreflightRefuses(s) \/ RestoreChild(s) \/ FundChild(s)
               \/ Work(s) \/ Crash(s)
        PROVE  IInv'
    <3>1. CASE Work(s)
      <4>1. CASE ReserveCall(s)
        BY <4>1, ReserveStep
      <4>2. CASE Settle(s)
        BY <4>2, SettleStep
      <4>3. CASE \/ OpenRun(s) \/ LaunchFails(s) \/ Observe(s) \/ RefuseCall(s)
                 \/ LogRequest(s) \/ CallFails(s) \/ LogResponse(s) \/ UsageUnknown(s)
                 \/ LogIntent(s) \/ LogCommit(s) \/ FinishRun(s) \/ LoseTerminal(s)
        BY <4>3, WorkStep
      <4> QED
        BY <3>1, <4>1, <4>2, <4>3 DEF Work
    <3>2. CASE ~Work(s)
      BY <2>2, <3>2, AdmissionStep
    <3> QED
      BY <3>1, <3>2
  <2> QED
    BY <1>1, <2>1, <2>2 DEF Next
<1>2. CASE UNCHANGED vars
  <2>1. UNCHANGED <<meta, log, ledger, svc, thr>>
    BY <1>2 DEF vars
  <2>2. TypeOK' /\ SharedAllowance' /\ Manifests' /\ Rows'
    BY <2>1 DEF IInv, TypeOK, SharedAllowance, Manifests, Rows, Exists, Started
  <2>3. \A e \in Episodes : /\ Spent(e)' = Spent(e) /\ Owned(ledger, {e})' = Owned(ledger, {e})
                            /\ log'[e] = log[e] /\ meta'[e].calls = meta[e].calls
    BY <2>1 DEF Spent
  <2>4. Journals'
    <3>1. \A e \in Episodes : Claims(e)'
      BY <2>3, ClaimsStay DEF IInv, Journals
    <3> QED
      BY <2>1, <3>1 DEF IInv, Journals, Exists
  <2>5. Threads'
    <3> SUFFICES ASSUME NEW s \in Services, thr[s].step # "none"
                 PROVE  svc'[s].step = "idle" /\ Running(thr[s])'
      BY <2>1 DEF Threads
    <3>1. Running(thr[s]) /\ svc[s].step = "idle"
      BY DEF IInv, Threads
    <3>2. Spent(thr[s].ep)' = Spent(thr[s].ep) /\ (Calling(thr[s])' <=> Calling(thr[s]))
      BY <2>1 DEF Spent, Calling
    <3> HIDE DEF Spent, Calling
    <3> QED
      BY <2>1, <3>1, <3>2 DEF Running, Exists, Started, Ended
  <2>6. Plans'
    BY <2>1 DEF IInv, Plans, Exists, RestoreOwners
  <2>7. Closed'
    BY <2>1, <2>3, Numbers DEF IInv, Closed
  <2> QED
    BY <2>2, <2>4, <2>5, <2>6, <2>7 DEF IInv
<1> QED
  BY <1>1, <1>2

(* One process that admits and runs a family keeps its ledger, journals and
   terminals in the relation IInv states, through crashes and recoveries. *)
THEOREM FamilyInductive ==
    ASSUME OneService
    PROVE  Spec => []IInv
<1>1. Init => IInv
  BY InitInv
<1>2. IInv /\ [Next]_vars => IInv'
  BY StepInv
<1> QED
  BY <1>1, <1>2, PTL DEF Spec

(* The provider-call allowance of a root is shared by all its continuations,
   whatever is restored or funded (docs/run-recovery.md). *)
THEOREM AllowanceShared ==
    ASSUME OneService
    PROVE  Spec => []SharedAllowance
<1>1. IInv => SharedAllowance
  BY DEF IInv
<1> QED
  BY <1>1, FamilyInductive, PTL

\* So many of one price and so many of another.
Charge(a, b, S, U) == a * Cardinality(S \cap U) + b * Cardinality(S \ U)

\* The charge for one position more is its price more.
LEMMA ChargeOneMore ==
    ASSUME NEW a \in Nat, NEW b \in Nat, NEW U, NEW S, IsFiniteSet(S), NEW i, i \notin S
    PROVE  /\ Charge(a, b, S, U) \in Nat
           /\ Charge(a, b, S \cup {i}, U) = Charge(a, b, S, U) + (IF i \in U THEN a ELSE b)
<1> DEFINE T == S \cup {i}
<1>1. PICK k, n : k = Cardinality(S \cap U) /\ n = Cardinality(S \ U)
  OBVIOUS
<1>2. IsFiniteSet(S \cap U) /\ IsFiniteSet(S \ U) /\ k \in Nat /\ n \in Nat
  <2>1. S \cap U \subseteq S /\ S \ U \subseteq S
    OBVIOUS
  <2> QED
    BY <1>1, <2>1, FS_Subset, FS_CardinalityType
<1>3. Charge(a, b, S, U) = a * k + b * n /\ a * k \in Nat /\ b * n \in Nat
  BY <1>1, <1>2 DEF Charge
<1>4. CASE i \in U
  <2>1. /\ T \cap U = (S \cap U) \cup {i} /\ i \notin S \cap U
        /\ T \ U = S \ U
    BY <1>4
  <2>2. Cardinality(T \cap U) = k + 1 /\ Cardinality(T \ U) = n
    BY <1>1, <1>2, <2>1, FS_AddElement
  <2> HIDE DEF T
  <2>3. a * (k + 1) + b * n = (a * k + b * n) + a
    BY <1>2
  <2>4. Charge(a, b, T, U) = a * (k + 1) + b * n
    BY <2>2 DEF Charge
  <2> QED
    BY <1>3, <1>4, <2>3, <2>4 DEF T
<1>5. CASE i \notin U
  <2>1. /\ T \ U = (S \ U) \cup {i} /\ i \notin S \ U
        /\ T \cap U = S \cap U
    BY <1>5
  <2>2. Cardinality(T \cap U) = k /\ Cardinality(T \ U) = n + 1
    BY <1>1, <1>2, <2>1, FS_AddElement
  <2> HIDE DEF T
  <2>3. a * k + b * (n + 1) = (a * k + b * n) + b
    BY <1>2
  <2>4. Charge(a, b, T, U) = a * k + b * (n + 1)
    BY <2>2 DEF Charge
  <2> QED
    BY <1>3, <1>5, <2>3, <2>4 DEF T
<1> QED
  BY <1>4, <1>5

\* Where rows have one of two prices, counting them is summing them.
LEMMA CostTwoPrices ==
    ASSUME NEW rows \in Seq(Row), NEW S \in SUBSET DOMAIN rows, NEW U,
           NEW a \in Nat, NEW b \in Nat,
           \A i \in S : rows[i].cost = IF i \in U THEN a ELSE b
    PROVE  CostOf(rows, S) = Charge(a, b, S, U)
<1> DEFINE P == {n \in 0 .. Len(rows) :
                   CostOf(rows, S \cap (1 .. n)) = Charge(a, b, S \cap (1 .. n), U)}
<1>1. Len(rows) \in Nat /\ DOMAIN rows = 1 .. Len(rows)
  BY RowFacts
<1>2. 0 \in P
  <2>1. S \cap (1 .. 0) = {} /\ {} \cap U = {} /\ {} \ U = {}
    OBVIOUS
  <2>2. Cardinality({}) = 0 /\ a * 0 + b * 0 = 0
    BY FS_EmptySet
  <2>3. CostOf(rows, {}) = Charge(a, b, {}, U)
    BY <2>1, <2>2, CostNone DEF Charge
  <2> QED
    BY <1>1, <2>1, <2>3
<1>3. ASSUME NEW n \in 1 .. Len(rows), n - 1 \in P PROVE n \in P
  <2>1. PICK T, more : T = S \cap (1 .. (n - 1)) /\ more = S \cap (1 .. n)
    OBVIOUS
  <2>2. /\ T \in SUBSET DOMAIN rows /\ n \notin T /\ n \in DOMAIN rows
        /\ CostOf(rows, T) = Charge(a, b, T, U)
    BY <1>1, <1>3, <2>1
  <2>3. IsFiniteSet(T)
    BY <2>2, CostType
  <2>4. CostOf(rows, more) = Charge(a, b, more, U)
    <3>1. CASE n \in S
      <4>1. more = T \cup {n}
        BY <2>1, <3>1
      <4>2. CostOf(rows, T \cup {n}) = CostOf(rows, T) + rows[n].cost
        BY <2>2, CostOneMore
      <4>3. Charge(a, b, T \cup {n}, U) = Charge(a, b, T, U) + (IF n \in U THEN a ELSE b)
        BY <2>2, <2>3, ChargeOneMore
      <4>4. rows[n].cost = IF n \in U THEN a ELSE b
        BY <3>1
      <4> QED
        BY <2>2, <4>1, <4>2, <4>3, <4>4
    <3>2. CASE n \notin S
      <4>1. more = T
        BY <2>1, <3>2
      <4> QED
        BY <2>2, <4>1
    <3> QED
      BY <3>1, <3>2
  <2> QED
    BY <2>1, <2>4
<1>4. 0 .. Len(rows) \subseteq P
  <2> HIDE DEF P
  <2> QED
    BY <1>1, <1>2, <1>3, Upwards
<1>5. S \cap (1 .. Len(rows)) = S
  BY <1>1
<1>6. Len(rows) \in P
  <2> HIDE DEF P
  <2> QED
    BY <1>1, <1>4
<1> QED
  BY <1>5, <1>6

\* What recovery charges for an episode that kept its responses is what the
\* journaled part of its rows cost.
LEMMA PricedRows ==
    ASSUME IInv, NEW e \in Episodes, ~LostResponse(e)
    PROVE  Priced(e) = CostOf(ledger, log[e].requests)
<1> DEFINE U == log[e].responses
           S == log[e].requests
<1>1. /\ ledger \in Seq(Row) /\ S \subseteq Owned(ledger, {e})
      /\ U \subseteq {i \in S : ledger[i].settled}
      /\ Owned(ledger, {e}) \subseteq DOMAIN ledger
  BY OwnedFacts DEF IInv, TypeOK, Journals
<1>2. S \in SUBSET DOMAIN ledger
  BY <1>1
<1>3. \A i \in S : ledger[i].cost = IF i \in U THEN Actual ELSE Reserve
  <2> SUFFICES ASSUME NEW i \in S PROVE ledger[i].cost = IF i \in U THEN Actual ELSE Reserve
    BY <1>1
  <2>1. ledger[i].settled <=> i \in U
    BY <1>1 DEF LostResponse
  <2>2. ledger[i].cost = IF ledger[i].settled THEN Actual ELSE Reserve
    BY <1>1 DEF IInv, Rows
  <2> QED
    BY <2>1, <2>2
<1>4. Actual \in Nat /\ Reserve \in Nat
  BY Numbers
<1>5. S \cap U = U
  BY <1>1
<1> HIDE DEF U, S
<1>6. CostOf(ledger, S) = Charge(Actual, Reserve, S, U)
  BY <1>1, <1>2, <1>3, <1>4, CostTwoPrices
<1> QED
  BY <1>5, <1>6 DEF Charge, Priced, U, S

\* The journals of a family that kept its responses agree with its ledger.
LEMMA WholeAgrees ==
    ASSUME IInv, NEW e \in Episodes, Whole(e)
    PROVE  RequestsAgree(e) /\ TerminalAgrees(e)
<1> DEFINE rows == Owned(ledger, {e})
           n == Cardinality(rows)
<1>1. /\ ~LostResponse(e) /\ log[e].unpriced = {} /\ log[e].terminal.why # "incomplete"
  BY DEF Whole
<1>2. /\ log[e].requests \subseteq rows /\ Claims(e) /\ log[e] \in Journal
      /\ meta[e] \in Manifest /\ ledger \in Seq(Row) /\ rows \subseteq DOMAIN ledger
      /\ IsFiniteSet(rows) /\ n \in Nat
  BY OwnedFacts DEF IInv, Journals, TypeOK
<1>3. \A i \in rows : /\ Started(e)
                      /\ ledger[i].settled => i \in log[e].requests /\ i \in log[e].responses
  <2> SUFFICES ASSUME NEW i \in rows
               PROVE  /\ Started(e)
                      /\ ledger[i].settled => i \in log[e].requests /\ i \in log[e].responses
    OBVIOUS
  <2>1. ledger[i].owner = e /\ i \in DOMAIN ledger
    BY DEF Owned
  <2> QED
    BY <1>1, <2>1 DEF IInv, Rows, LostResponse
<1>4. RequestsAgree(e)
  BY <1>1, <1>2, <1>3 DEF RequestsAgree
<1>5. /\ log[e].terminal.calls \in Nat /\ log[e].terminal.why \in Reasons
      /\ meta[e].calls \in Nat /\ CostOf(ledger, rows) \in Nat
  <2>1. log[e].terminal \in Outcome
    BY <1>2 DEF Journal
  <2>2. CostOf(ledger, rows) \in Nat
    BY <1>2, CostType
  <2> QED
    BY <1>2, <2>1, <2>2 DEF Outcome, Manifest
<1>6. ASSUME Ended(e)
      PROVE  /\ ~Started(e) => log[e].terminal.calls = 0
             /\ 0 <= OwnCalls(e) /\ OwnCalls(e) <= n
             /\ log[e].terminal.cost <= CostOf(ledger, rows)
  <2>1. CASE log[e].terminal.why = "refused"
    <3>1. ~Started(e) /\ log[e].terminal.calls = 0 /\ log[e].terminal.cost = 0
      BY <1>2, <2>1 DEF Claims
    <3>2. OwnCalls(e) = 0
      BY <3>1 DEF OwnCalls
    <3> QED
      BY <1>2, <1>5, <3>1, <3>2
  <2>2. CASE log[e].terminal.why = "recovered"
    <3>1. /\ log[e].terminal.calls = Cardinality(log[e].requests)
          /\ log[e].terminal.cost = Priced(e)
      BY <1>2, <2>2 DEF Claims
    <3>2. OwnCalls(e) = Cardinality(log[e].requests)
      BY <2>2, <3>1 DEF OwnCalls
    <3>3. Cardinality(log[e].requests) \in Nat /\ Cardinality(log[e].requests) <= n
      BY <1>2, FS_Subset, FS_CardinalityType
    <3>4. ~Started(e) => Cardinality(log[e].requests) = 0
      BY <1>2, <1>3, FS_EmptySet
    <3>5. Priced(e) <= CostOf(ledger, rows)
      BY <1>1, <1>2, PricedRows, CostPart
    <3> HIDE DEF n, rows
    <3> QED
      BY <3>1, <3>2, <3>3, <3>4, <3>5
  <2>3. CASE log[e].terminal.why \in {"won", "cost_cap", "call_limit", "stopped", "failed"}
    <3>1. /\ Started(e) /\ log[e].terminal.calls = meta[e].calls + n
          /\ log[e].terminal.cost = CostOf(ledger, rows)
      BY <1>2, <2>3 DEF Claims, Spent
    <3>2. OwnCalls(e) = log[e].terminal.calls - meta[e].calls
      BY <2>3, <3>1 DEF OwnCalls
    <3> HIDE DEF n, rows
    <3> QED
      BY <1>2, <1>5, <3>1, <3>2
  <2> QED
    BY <1>1, <1>5, <1>6, <2>1, <2>2, <2>3 DEF Ended, Reasons
<1>7. TerminalAgrees(e)
  BY <1>1, <1>6 DEF TerminalAgrees
<1> QED
  BY <1>4, <1>7

(* A family whose journals kept their responses is never refused a restore on
   account of its ledger, wherever its runs crashed (restore_ledger.py). *)
THEOREM CrashedFamiliesRestorable ==
    ASSUME OneService
    PROVE  Spec => []CrashesStayRestorable
<1>1. IInv => CrashesStayRestorable
  <2>1. RestoreOwners \subseteq Episodes
    BY Numbers DEF RestoreOwners
  <2> HIDE DEF RestoreOwners
  <2> QED
    BY <2>1, WholeAgrees DEF CrashesStayRestorable
<1> QED
  BY <1>1, FamilyInductive, PTL

(* No member of a family is restored once one of its restored runs, or the
   root, has won. *)
THEOREM WonStaysWon ==
    ASSUME OneService
    PROVE  Spec => WonFamiliesStayClosed
<1> DEFINE Closing ==
        \A e \in Episodes :
            (meta[e].kind # "restore" /\ meta'[e].kind = "restore")
                => \A d \in RestoreOwners : log[d].terminal.why # "won"
<1>1. ASSUME IInv, [Next]_vars PROVE Closing
  <2>1. meta \in [Episodes -> Manifest]
    BY <1>1 DEF IInv, TypeOK
  <2>2. ASSUME NEW s \in Services, Start(s) PROVE Closing
    <3>1. \A e \in Episodes : meta'[e].kind \in {meta[e].kind, "root"}
      BY <2>1, <2>2 DEF Start, Manifest
    <3> QED
      BY <3>1
  <2>3. ASSUME NEW s \in Services, FundChild(s) PROVE Closing
    <3>1. \A e \in Episodes : meta'[e].kind \in {meta[e].kind, "budget"}
      BY <2>1, <2>3 DEF FundChild, Admit
    <3> QED
      BY <3>1
  <2>4. ASSUME NEW s \in Services, RestoreChild(s) PROVE Closing
    <3>1. svc[s].step = "restoring"
      BY <2>4 DEF RestoreChild
    <3>2. \A d \in RestoreOwners : log[d].terminal.why # "won"
      BY <1>1, <3>1 DEF IInv, Plans
    <3> QED
      BY <3>2
  <2>5. CASE UNCHANGED meta
    BY <2>5
  <2>6. ASSUME NEW s \in Services,
               \/ \E parent \in Episodes : StartRestore(s, parent)
               \/ \E cap \in RaisedCaps : ContinueBudget(s, cap)
               \/ PreflightRefuses(s) \/ Work(s) \/ Crash(s)
        PROVE  UNCHANGED meta
    BY <2>6 DEF StartRestore, ContinueBudget, PreflightRefuses, Crash, Work, OpenRun, LaunchFails,
                Observe, ReserveCall, RefuseCall, LogRequest, CallFails, Settle, LogResponse,
                UsageUnknown, LogIntent, LogCommit, FinishRun, LoseTerminal
  <2>7. Recover \/ UNCHANGED vars => UNCHANGED meta
    BY DEF Recover, vars
  <2> HIDE DEF Closing
  <2> QED
    BY <1>1, <2>2, <2>3, <2>4, <2>5, <2>6, <2>7 DEF Next
<1>2. IInv /\ [Next]_vars => [Closing]_vars
  BY <1>1
<1>3. Spec => []IInv
  BY FamilyInductive
<1>4. Spec => [][Closing]_vars
  BY <1>2, <1>3, PTL DEF Spec
<1> QED
  BY <1>4 DEF WonFamiliesStayClosed

---------------------------------------------------------------------------
(* The order of admissions, found again *)

\* The children accounted for, one after the other, up to the k-th.
Order(k, g) == g = [n \in 0 .. k |-> IF n = 0 THEN {Root} ELSE Accounting(g[n - 1])]

\* There is such an order of every length.
LEMMA OrderExists == \A k \in Nat : \E g : Order(k, g)
<1> DEFINE missing == {k \in Nat : ~\E g : Order(k, g)}
<1> SUFFICES ASSUME missing # {} PROVE FALSE
  OBVIOUS
<1>1. PICK k \in missing : \A m \in missing : k <= m
  <2>1. missing \in SUBSET Nat
    OBVIOUS
  <2> HIDE DEF missing
  <2> QED
    BY <2>1, LeastNat
<1>2. CASE k = 0
  <2> DEFINE g == [n \in 0 .. 0 |-> {Root}]
  <2>1. g = [n \in 0 .. 0 |-> IF n = 0 THEN {Root} ELSE Accounting(g[n - 1])]
    OBVIOUS
  <2> QED
    BY <1>1, <1>2, <2>1 DEF Order
<1>3. CASE k # 0
  <2>1. k \in Nat /\ k - 1 \in Nat /\ k - 1 \notin missing
    BY <1>1, <1>3
  <2>2. PICK h : Order(k - 1, h)
    BY <2>1
  <2> DEFINE g == [n \in 0 .. k |-> IF n = 0 THEN {Root} ELSE Accounting(h[n - 1])]
  <2>3. ASSUME NEW n \in 0 .. k, n # 0
        PROVE  g[n - 1] = h[n - 1]
    <3>1. n - 1 \in 0 .. k /\ n - 1 \in 0 .. (k - 1)
      BY <2>1, <2>3
    <3>2. g[n - 1] = IF n - 1 = 0 THEN {Root} ELSE Accounting(h[(n - 1) - 1])
      BY <3>1
    <3>3. h[n - 1] = IF n - 1 = 0 THEN {Root} ELSE Accounting(h[(n - 1) - 1])
      BY <2>2, <3>1 DEF Order
    <3> QED
      BY <3>2, <3>3
  <2>4. Order(k, g)
    <3> DEFINE body == [n \in 0 .. k |-> IF n = 0 THEN {Root} ELSE Accounting(g[n - 1])]
    <3>1. ASSUME NEW n \in 0 .. k PROVE body[n] = g[n]
      <4>1. /\ g[n] = IF n = 0 THEN {Root} ELSE Accounting(h[n - 1])
            /\ body[n] = IF n = 0 THEN {Root} ELSE Accounting(g[n - 1])
        OBVIOUS
      <4> HIDE DEF g, body
      <4> QED
        BY <2>3, <4>1
    <3>2. body = g
      BY <3>1
    <3> QED
      BY <3>2 DEF Order
  <2> QED
    BY <1>1, <2>4
<1> QED
  BY <1>2, <1>3

\* So Accounted is that order, taken one step at a time.
LEMMA AccountedSteps ==
    /\ Accounted[0] = {Root}
    /\ \A n \in 1 .. MaxChildren : Accounted[n] = Accounting(Accounted[n - 1])
<1>1. MaxChildren \in Nat
  BY Numbers
<1>2. PICK g : Order(MaxChildren, g)
  BY <1>1, OrderExists
<1>3. Accounted = CHOOSE f : Order(MaxChildren, f)
  BY Zenon DEF Accounted, Order
<1>4. Order(MaxChildren, Accounted)
  BY <1>2, <1>3, Zenon
<1>5. \A n \in 0 .. MaxChildren :
        Accounted[n] = IF n = 0 THEN {Root} ELSE Accounting(Accounted[n - 1])
  BY <1>4, Zenon DEF Order
<1> QED
  BY <1>1, <1>5

\* The episodes up to the j-th.
Upto(j) == {e \in Episodes : Exists(e) /\ e <= j}

\* The next child froze exactly what those before it had spent.
LEMMA FrozenBefore ==
    ASSUME IInv, NEW b \in Episodes, Exists(b), NEW j \in Nat, b = j + 1
    PROVE  /\ meta[b].admitted = Preceding(Upto(j))
           /\ meta[b].calls = Cardinality(Owned(ledger, Upto(j)))
<1> DEFINE c == meta[b].calls
<1>1. /\ ledger \in Seq(Row) /\ DOMAIN ledger = 1 .. Len(ledger) /\ Len(ledger) \in Nat
      /\ c \in Nat /\ c <= Len(ledger) /\ meta[b].admitted = SubSeq(ledger, 1, c)
  <2>1. meta[b] \in Manifest /\ ledger \in Seq(Row)
    BY DEF IInv, TypeOK
  <2>2. c \in Nat
    BY <2>1 DEF Manifest
  <2> QED
    BY <2>1, <2>2 DEF IInv, Manifests
<1>2. \A i \in 1 .. c : i \in DOMAIN ledger
  BY <1>1
<1>3. ASSUME NEW i \in DOMAIN ledger
      PROVE  ledger[i].owner \in Upto(j) <=> i <= c
  <2>1. PICK o \in Episodes : o = ledger[i].owner
    BY <1>1, RowFacts
  <2>2. /\ Exists(o) /\ meta[o].calls < i /\ (o < b => i <= c)
        /\ b < o => c <= meta[o].calls
    BY <2>1 DEF IInv, Rows, Manifests
  <2>3. o \in Nat /\ b \in Nat /\ i \in Nat /\ c \in Nat /\ meta[o].calls \in Nat
    <3>1. meta[o] \in Manifest
      BY DEF IInv, TypeOK
    <3> QED
      BY <1>1, <3>1, Numbers, SMTT(30) DEF Manifest
  <2>4. o = b => c < i
    BY <2>2
  <2> HIDE DEF c
  <2>5. o <= j <=> i <= c
    BY <2>2, <2>3, <2>4
  <2> QED
    BY <2>1, <2>2, <2>5 DEF Upto
<1>4. Owned(ledger, Upto(j)) = 1 .. c
  BY <1>1, <1>2, <1>3 DEF Owned
<1> HIDE DEF c
<1>5. Cardinality(1 .. c) = c
  <2>1. 1 \in Int /\ c \in Int /\ c \in Nat
    BY <1>1
  <2>2. Cardinality(1 .. c) = IF 1 > c THEN 0 ELSE c - 1 + 1
    BY <2>1, FS_Interval
  <2> QED
    BY <2>1, <2>2
<1>6. SubSeq(ledger, 1, c) = [i \in 1 .. c |-> ledger[i]]
  BY <1>1
<1>7. Preceding(Upto(j)) = [i \in 1 .. c |-> ledger[i]]
  BY <1>4 DEF Preceding
<1> QED
  BY <1>1, <1>4, <1>5, <1>6, <1>7 DEF c

\* An accounting takes the next child, and stops after the last.
LEMMA AccountingNext ==
    ASSUME IInv, \A e \in Episodes : meta[e].kind # "restore", NEW j \in Nat
    PROVE  Accounting(Upto(j)) = Upto(j + 1)
<1> DEFINE before == Upto(j)
           fits == {e \in BudgetChildren \ before :
                      /\ meta[e].admitted = Preceding(before)
                      /\ meta[e].calls = Cardinality(Owned(ledger, before))}
           free == {e \in fits : Owned(ledger, {e}) = {}}
           b == j + 1
<1>1. Accounting(before) = IF fits = {} THEN before
                           ELSE before \cup {IF free # {} THEN Min(free) ELSE Min(fits)}
  BY DEF Accounting
<1>2. \A e \in fits : e \in Episodes /\ Exists(e) /\ e \in Nat /\ b <= e
  <2>1. \A e \in fits : e \in Episodes /\ Exists(e) /\ ~(e <= j)
    BY DEF BudgetChildren, Exists, Upto
  <2> HIDE DEF fits, b
  <2>2. \A e \in fits : e \in Nat
    BY <2>1, Numbers
  <2>3. \A e \in Nat : ~(e <= j) => b <= e
    BY DEF b
  <2> QED
    BY <2>1, <2>2, <2>3
<1>3. CASE b \in Episodes /\ Exists(b)
  <2>1. /\ meta[b].admitted = Preceding(before)
        /\ meta[b].calls = Cardinality(Owned(ledger, before))
    BY <1>3, FrozenBefore
  <2>2. meta[b].kind = "budget"
    <3>1. b # Root
      BY Numbers
    <3>2. meta[b].kind \in {"absent", "root", "restore", "budget"}
      BY <1>3 DEF IInv, TypeOK, Manifest
    <3> QED
      BY <1>3, <3>1, <3>2 DEF Exists, IInv, Manifests
  <2>3. b \in fits
    <3>1. b \notin before
      BY DEF Upto
    <3> QED
      BY <1>3, <2>1, <2>2, <3>1 DEF BudgetChildren
  <2>4. ASSUME NEW e \in fits, e # b PROVE b \in free
    <3>1. b < e /\ e \in Episodes /\ Exists(e)
      BY <1>2, <2>4
    <3>2. meta[e].calls = meta[b].calls
      BY <2>1
    <3>3. ASSUME NEW i \in Owned(ledger, {b}) PROVE FALSE
      <4>1. i \in DOMAIN ledger /\ ledger[i].owner = b
        BY DEF Owned
      <4>2. meta[b].calls < i /\ i <= meta[e].calls
        BY <3>1, <4>1 DEF IInv, Rows
      <4>3. meta[b] \in Manifest /\ ledger \in Seq(Row)
        BY <1>3 DEF IInv, TypeOK
      <4>4. i \in Nat /\ meta[b].calls \in Nat
        BY <4>1, <4>3 DEF Manifest
      <4> HIDE DEF b
      <4> QED
        BY <3>2, <4>2, <4>4
    <3>4. Owned(ledger, {b}) = {}
      BY <3>3
    <3> HIDE DEF fits
    <3> QED
      BY <2>3, <3>4
  <2>5. free \subseteq fits /\ (free # {} => b \in free)
    <3>1. free # {} => \E e \in fits : e \in free
      OBVIOUS
    <3> HIDE DEF fits
    <3> QED
      BY <2>4, <3>1
  <2> HIDE DEF fits, free
  <2>6. ASSUME NEW S \in SUBSET fits, b \in S PROVE Min(S) = b
    <3>1. \A y \in S : b <= y
      BY <1>2
    <3>2. ASSUME NEW x \in S, \A y \in S : x <= y PROVE x = b
      <4>1. x <= b /\ b <= x /\ x \in Nat /\ b \in Nat
        BY <1>2, <2>6, <3>2
      <4> HIDE DEF b
      <4> QED
        BY <4>1
    <3> HIDE DEF b
    <3> QED
      BY <2>6, <3>1, <3>2 DEF Min
  <2>7. (IF free # {} THEN Min(free) ELSE Min(fits)) = b
    <3>1. Min(fits) = b
      BY <2>3, <2>6
    <3>2. ASSUME free # {} PROVE Min(free) = b
      <4>1. free \in SUBSET fits /\ b \in free
        BY <2>5, <3>2
      <4> QED
        BY <4>1, <2>6
    <3> QED
      BY <3>1, <3>2
  <2>8. Accounting(before) = before \cup {b}
    BY <1>1, <2>3, <2>7
  <2>9. Upto(b) = before \cup {b}
    <3>1. \A e \in Nat : e <= b <=> e <= j \/ e = b
      OBVIOUS
    <3> HIDE DEF b
    <3>2. \A e \in Episodes : e <= b <=> e <= j \/ e = b
      BY <3>1, Numbers
    <3> QED
      BY <1>3, <3>2 DEF Upto
  <2> QED
    BY <2>8, <2>9
<1>4. CASE ~(b \in Episodes /\ Exists(b))
  <2>1. ASSUME NEW e \in Episodes, Exists(e), b <= e PROVE FALSE
    <3>1. b \in Episodes
      BY <2>1, Numbers DEF Episodes
    <3>2. b # e
      BY <1>4, <2>1
    <3>3. b < e
      BY <2>1, <3>1, <3>2, Numbers
    <3>4. Exists(b)
      BY <2>1, <3>1, <3>3 DEF IInv, Manifests
    <3> QED
      BY <1>4, <3>1, <3>4
  <2>2. fits = {}
    BY <1>2, <2>1
  <2>3. Accounting(before) = before
    BY <1>1, <2>2
  <2>4. Upto(b) = before
    <3>1. \A e \in Nat : (e <= b <=> e <= j) \/ b <= e
      OBVIOUS
    <3> HIDE DEF b
    <3>2. \A e \in Episodes : Exists(e) => (e <= b <=> e <= j)
      BY <2>1, <3>1, Numbers
    <3> QED
      BY <3>2 DEF Upto
  <2> QED
    BY <2>3, <2>4
<1> QED
  BY <1>3, <1>4

\* After n steps the first n children are accounted for.
LEMMA AccountedIs ==
    ASSUME IInv, \A e \in Episodes : meta[e].kind # "restore", Exists(Root)
    PROVE  \A n \in 0 .. MaxChildren : Accounted[n] = Upto(n)
<1> DEFINE bad == {n \in 0 .. MaxChildren : Accounted[n] # Upto(n)}
<1> SUFFICES ASSUME bad # {} PROVE FALSE
  OBVIOUS
<1>1. PICK n \in bad : \A m \in bad : n <= m
  <2>1. bad \in SUBSET Nat
    OBVIOUS
  <2> HIDE DEF bad
  <2> QED
    BY <2>1, LeastNat
<1>2. CASE n = 0
  <2>1. Upto(0) = {Root}
    <3>1. \A e \in Nat : e <= 0 <=> e = 0
      OBVIOUS
    <3>2. \A e \in Episodes : e <= 0 <=> e = Root
      BY <3>1, Numbers
    <3> QED
      BY <3>2, Numbers DEF Upto
  <2> QED
    BY <1>1, <1>2, <2>1, AccountedSteps
<1>3. CASE n # 0
  <2>1. n - 1 \in Nat /\ n - 1 \in 0 .. MaxChildren /\ n \in 1 .. MaxChildren /\ n - 1 + 1 = n
    BY <1>1, <1>3, Numbers
  <2>2. n - 1 \notin bad
    BY <1>1, <2>1
  <2>3. Accounted[n - 1] = Upto(n - 1)
    BY <2>1, <2>2
  <2>4. Accounting(Upto(n - 1)) = Upto(n)
    BY <2>1, AccountingNext
  <2>5. Accounted[n] = Accounting(Accounted[n - 1])
    BY <2>1, AccountedSteps
  <2> QED
    BY <1>1, <2>3, <2>4, <2>5
<1> QED
  BY <1>2, <1>3

\* What a child that kept its journal says of its spending is what it spent.
LEMMA WholeMatches ==
    ASSUME IInv, NEW e \in Episodes, Whole(e), ~LostRequest(e), Ended(e)
    PROVE  /\ ~Started(e) => log[e].terminal.calls = 0
           /\ MatchingSpend(ledger, Owned(ledger, {e}), OwnCalls(e), log[e].terminal.cost)
<1> DEFINE rows == Owned(ledger, {e})
           n == Cardinality(rows)
<1>1. /\ log[e].requests = rows /\ Claims(e) /\ n \in Nat
      /\ ~LostResponse(e) /\ log[e].terminal.why \notin {"none", "incomplete"}
  BY OwnedFacts DEF IInv, Journals, TypeOK, Whole, LostRequest, Ended
<1>2. log[e].terminal.why \in Reasons /\ log[e].terminal.calls \in Nat /\ meta[e].calls \in Nat
  <2>1. log[e] \in Journal /\ meta[e] \in Manifest
    BY DEF IInv, TypeOK
  <2>2. log[e].terminal \in Outcome /\ meta[e].calls \in Nat
    BY <2>1 DEF Journal, Manifest
  <2> QED
    BY <2>2 DEF Outcome
<1>3. ~Started(e) => rows = {}
  BY DEF IInv, Rows, Owned
<1>4. ~Started(e) => n = 0
  BY <1>3, FS_EmptySet
<1>5. CASE log[e].terminal.why = "refused"
  <2>1. ~Started(e) /\ log[e].terminal.calls = 0 /\ log[e].terminal.cost = 0
    BY <1>1, <1>5 DEF Claims
  <2>2. OwnCalls(e) = 0
    BY <2>1 DEF OwnCalls
  <2>3. CostOf(ledger, rows) = 0
    BY <1>3, <2>1, CostNone DEF IInv, TypeOK
  <2> QED
    BY <1>4, <2>1, <2>2, <2>3 DEF MatchingSpend
<1>6. CASE log[e].terminal.why = "recovered"
  <2>1. log[e].terminal.calls = n /\ log[e].terminal.cost = Priced(e)
    BY <1>1, <1>6 DEF Claims
  <2>2. OwnCalls(e) = n
    BY <1>6, <2>1 DEF OwnCalls
  <2>3. Priced(e) = CostOf(ledger, rows)
    BY <1>1, PricedRows
  <2> HIDE DEF n, rows
  <2>4. MatchingSpend(ledger, rows, OwnCalls(e), log[e].terminal.cost)
    BY <1>1, <2>1, <2>2, <2>3 DEF MatchingSpend, n
  <2> QED
    BY <1>4, <2>1, <2>4 DEF rows
<1>7. CASE log[e].terminal.why \in {"won", "cost_cap", "call_limit", "stopped", "failed"}
  <2>1. /\ Started(e) /\ log[e].terminal.calls = meta[e].calls + n
        /\ log[e].terminal.cost = CostOf(ledger, rows)
    BY <1>1, <1>7 DEF Claims, Spent
  <2>2. OwnCalls(e) = log[e].terminal.calls - meta[e].calls
    BY <1>7, <2>1 DEF OwnCalls
  <2> HIDE DEF n, rows
  <2>3. OwnCalls(e) = n
    BY <1>1, <1>2, <2>1, <2>2
  <2>4. MatchingSpend(ledger, rows, OwnCalls(e), log[e].terminal.cost)
    BY <1>1, <2>1, <2>3 DEF MatchingSpend, n
  <2> QED
    BY <2>1, <2>4 DEF rows
<1> QED
  BY <1>1, <1>2, <1>5, <1>6, <1>7 DEF Reasons

(* A root that stopped for money can be funded further whatever its children
   did, as long as their journals kept requests and responses: the order of
   the admissions is found again from what each of them froze. *)
THEOREM AdmissionsFoundAgain ==
    ASSUME OneService
    PROVE  Spec => []AdmissionsReconcile
<1>1. ASSUME IInv PROVE AdmissionsReconcile
  <2> SUFFICES ASSUME log[Root].terminal.why = "cost_cap", ledger # <<>>,
                      \A e \in BudgetChildren : Whole(e) /\ ~LostRequest(e) /\ Ended(e)
               PROVE  ReconcileSharedLedger
    BY DEF AdmissionsReconcile
  <2>1. Exists(Root)
    <3>1. ~Exists(Root) => log[Root] = NoEvents
      BY <1>1, Numbers DEF IInv, Journals
    <3> QED
      BY <3>1 DEF NoEvents, NoTerminal
  <2>2. ReconcileParent
    <3>1. Claims(Root) /\ meta[Root].calls = 0
      BY <1>1, Numbers DEF IInv, Journals, Manifests
    <3>2. /\ log[Root].terminal.calls = 0 + Cardinality(Owned(ledger, {Root}))
          /\ log[Root].terminal.cost = Spent(Root)
      BY <3>1 DEF Claims
    <3>3. Cardinality(Owned(ledger, {Root})) \in Nat
      BY <1>1, OwnedFacts DEF IInv, TypeOK
    <3> QED
      BY <3>2, <3>3 DEF ReconcileParent, MatchingSpend, Spent
  <2>3. \A e \in Episodes : meta[e].kind # "restore"
    BY <1>1 DEF IInv, Closed
  <2>4. Accounted[MaxChildren] = {e \in Episodes : Exists(e)}
    <3>1. MaxChildren \in 0 .. MaxChildren
      BY Numbers
    <3>2. Accounted[MaxChildren] = Upto(MaxChildren)
      BY <1>1, <2>1, <2>3, <3>1, AccountedIs
    <3>3. \A e \in Episodes : e <= MaxChildren
      BY Numbers DEF Episodes
    <3> QED
      BY <3>2, <3>3 DEF Upto
  <2>5. OrderedChildren
    <3>1. BudgetChildren \subseteq {e \in Episodes : Exists(e)}
      BY DEF BudgetChildren, Exists
    <3>2. RowsOwnedBy({e \in Episodes : Exists(e)})
      <4>1. \A i \in DOMAIN ledger : ledger[i].owner \in Episodes /\ Exists(ledger[i].owner)
        BY <1>1, RowFacts DEF IInv, TypeOK, Rows
      <4> QED
        BY <4>1 DEF RowsOwnedBy
    <3> QED
      BY <2>4, <3>1, <3>2 DEF OrderedChildren
  <2>6. ASSUME NEW e \in BudgetChildren
        PROVE  /\ Ended(e) /\ (~Started(e) => log[e].terminal.calls = 0)
               /\ MatchingSpend(ledger, Owned(ledger, {e}), OwnCalls(e), log[e].terminal.cost)
    BY <1>1, WholeMatches DEF BudgetChildren
  <2> QED
    BY <2>2, <2>5, <2>6 DEF ReconcileSharedLedger
<1>2. IInv => AdmissionsReconcile
  BY <1>1
<1> QED
  BY <1>2, FamilyInductive, PTL
=============================================================================
