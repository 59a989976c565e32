---------------------------- MODULE ActionPromise ----------------------------
(***************************************************************************)
(* What the runner may rely on when it asks the game for an action: the    *)
(* action happens at most once, an acceptance means that it did, and a     *)
(* rejection that it never will.  An unknown verdict promises nothing.     *)
(***************************************************************************)
CONSTANT Requests

VARIABLES
  happened,  \* requests the game has executed
  verdict    \* what the caller was told of each request

vars == <<happened, verdict>>

Init ==
  /\ happened = {}
  /\ verdict = [r \in Requests |-> "none"]

Happen(r) ==
  /\ r \notin happened
  /\ verdict[r] # "rejected"
  /\ happened' = happened \cup {r}
  /\ UNCHANGED verdict

Tell(r, v) ==
  /\ verdict[r] = "none"
  /\ v = "accepted" => r \in happened
  /\ v = "rejected" => r \notin happened
  /\ verdict' = [verdict EXCEPT ![r] = v]
  /\ UNCHANGED happened

Next == \E r \in Requests :
  Happen(r) \/ \E v \in {"accepted", "rejected", "unknown"} : Tell(r, v)

Spec == Init /\ [][Next]_vars
=============================================================================
