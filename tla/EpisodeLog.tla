------------------------------ MODULE EpisodeLog ------------------------------
(***************************************************************************)
(* What the episode store promises its readers: the log of an episode only *)
(* ever grows, by one entry at a time, an ending entry is the last one,    *)
(* and a listing that shows an episode as ended is right.  A listing may   *)
(* lag or be lost.                                                         *)
(***************************************************************************)
EXTENDS Sequences

CONSTANT Episodes

VARIABLES
  log,    \* the entries of an episode; of each only whether it ends the log
  listed  \* what the listing shows of it

vars == <<log, listed>>

Ended(e) == \E i \in DOMAIN log[e] : log[e][i]

Init ==
  /\ log = [e \in Episodes |-> <<>>]
  /\ listed = [e \in Episodes |-> "absent"]

Write(e, ends) ==
  /\ ~Ended(e)
  /\ log' = [log EXCEPT ![e] = Append(@, ends)]
  /\ UNCHANGED listed

List(e, row) ==
  /\ row = "ended" => Ended(e)
  /\ listed' = [listed EXCEPT ![e] = row]
  /\ UNCHANGED log

LoseListing ==
  /\ listed' = [e \in Episodes |-> "absent"]
  /\ UNCHANGED log

Next ==
  \/ \E e \in Episodes, ends \in BOOLEAN : Write(e, ends)
  \/ \E e \in Episodes, row \in {"open", "ended"} : List(e, row)
  \/ LoseListing

Spec == Init /\ [][Next]_vars
=============================================================================
