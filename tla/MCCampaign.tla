------------------------------ MODULE MCCampaign ------------------------------
(***************************************************************************)
(* TLC instances of Campaign: a paid slot, then a scripted one.            *)
(***************************************************************************)
EXTENDS Campaign, TLC

PaidThenScripted == 1 :> 2 @@ 2 :> 0
=============================================================================
