-------------------------- MODULE MCOutboundGate --------------------------
(***************************************************************************)
(* A pod's event loop, a session and a failover goroutine behind one gate. *)
(***************************************************************************)
EXTENDS OutboundGate, TLC

CONSTANTS loop, sess, fail

CallerSymmetry == Permutations(Caller)
=============================================================================
