--------------------------- MODULE MCJoanneEmail ---------------------------
(***************************************************************************)
(* Setups of Joanne's pod for model checking JoanneEmail.                  *)
(***************************************************************************)
EXTENDS JoanneEmail

\* The router is off and every event arrives twice.
Direct ==
  [mode |-> "off", seed |-> FALSE, appMention |-> TRUE, messages |-> 3,
   kinds |-> FaultKind \ {"session_expires", "misread"}, maxFaults |-> 2]

\* The same with words taken for requests, and Gmail's answers lost.
Misread == [Direct EXCEPT !.kinds = {"misread", "mail_lost"}]

\* Task threads are seeded and enforced, and sessions expire.
Enforced ==
  [mode |-> "enforce", seed |-> TRUE, appMention |-> FALSE, messages |-> 5,
   kinds |-> {"session_expires", "misread", "mail_refused", "crash"}, maxFaults |-> 1]

All == {Direct, Misread, Enforced}

\* Enforced without faults.
Calm == {[Enforced EXCEPT !.messages = 4, !.kinds = {}]}
=============================================================================
