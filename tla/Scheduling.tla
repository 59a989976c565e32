------------------------------ MODULE Scheduling ------------------------------
(***************************************************************************)
(* What a frozen campaign promises about its attempts, whoever schedules   *)
(* them: a slot is attempted again only once, after its only attempt has   *)
(* failed as infrastructure, and a funding refusal ends scheduling for     *)
(* good.                                                                   *)
(***************************************************************************)
CONSTANTS Slots, Episodes

VARIABLES
  attempts,  \* the episodes launched for each slot
  failed,    \* episodes known to have ended as infrastructure failures
  halted     \* has a campaign funding refusal been recorded?

vars == <<attempts, failed, halted>>

Launched == UNION {attempts[s] : s \in Slots}

Init ==
  /\ attempts = [s \in Slots |-> {}]
  /\ failed = {}
  /\ halted = FALSE

Replaceable(s) == \E first \in failed : attempts[s] = {first}

Launch(s, e) ==
  /\ ~halted
  /\ e \notin Launched
  /\ attempts[s] = {} \/ Replaceable(s)
  /\ attempts' = [attempts EXCEPT ![s] = @ \cup {e}]
  /\ UNCHANGED <<failed, halted>>

Fail(e) ==
  /\ e \in Launched
  /\ failed' = failed \cup {e}
  /\ UNCHANGED <<attempts, halted>>

Halt ==
  /\ halted' = TRUE
  /\ UNCHANGED <<attempts, failed>>

Next ==
  \/ \E s \in Slots, e \in Episodes : Launch(s, e)
  \/ \E e \in Episodes : Fail(e)
  \/ Halt

Spec == Init /\ [][Next]_vars
=============================================================================
