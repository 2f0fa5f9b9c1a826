--------------------------- MODULE MCSquadSession ---------------------------
(***************************************************************************)
(* Small squads for model checking SquadSession.  The turn order is fixed: *)
(* the permutation drawn from the anchor's hash is the same on every pod.  *)
(***************************************************************************)
EXTENDS SquadSession

CONSTANTS ross, tim, alex

OrderTwo == <<ross, tim>>
OrderThree == <<ross, tim, alex>>
=============================================================================
