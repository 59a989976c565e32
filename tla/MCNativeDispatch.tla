--------------------------- MODULE MCNativeDispatch ---------------------------
(***************************************************************************)
(* TLC instances of NativeDispatch: one intent of each method family.      *)
(***************************************************************************)
EXTENDS NativeDispatch, TLC

CONSTANTS act, select, menu

MethodOf == act :> "bh_action" @@ select :> "upstream" @@ menu :> "menu"
=============================================================================
