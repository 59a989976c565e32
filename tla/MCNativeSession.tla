--------------------------- MODULE MCNativeSession ---------------------------
EXTENDS NativeSession, TLC

CONSTANTS c1, c2

\* One checkout leases and diagnoses and may launch twice, with a restart, a
\* connection or an expiry check only at first, beside another one's run.  A
\* run's moves take the path of the interruption check's.
AtFirst == {"restart", "connection", "expiry"}
Beside == [kind \in Kinds |-> IF kind = "run" THEN 0 ELSE IF kind \in AtFirst THEN 1 ELSE 2]
Running == [kind \in Kinds |-> IF kind = "run" THEN 1 ELSE 0]
MCWork == c1 :> Beside @@ c2 :> Running
MCMaxMoves == c1 :> 1 @@ c2 :> 0

Symmetry == Permutations(Shells)
=============================================================================
