------------------------- MODULE MCGeneralReaction -------------------------
(***************************************************************************)
(* Two or three pods for model checking GeneralReaction.                   *)
(***************************************************************************)
EXTENDS GeneralReaction

CONSTANTS ross, tim, alex
=============================================================================
