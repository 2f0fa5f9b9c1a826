--------------------------- MODULE MCThreadTalk ---------------------------
(***************************************************************************)
(* Threads for model checking ThreadTalk.                                  *)
(***************************************************************************)
EXTENDS ThreadTalk

CONSTANTS ross, tim, alex

\* A thread under a message of the CEO: one pod has Redis, the other has not,
\* both enforce the availability router, and anything may fail once.
HumanRoot ==
  [squad |-> {ross, tim}, root |-> Ceo, redis |-> {ross}, enforcing |-> {ross, tim},
   appMention |-> FALSE, handoff |-> FALSE, said |-> 2, posts |-> 2,
   cues |-> BOOLEAN, kinds |-> FaultKind, maxFaults |-> 1]

\* A thread under a message of ross: mentions arrive twice, and replies hand
\* off.
BotRoot ==
  [squad |-> {ross, tim}, root |-> ross, redis |-> {}, enforcing |-> {},
   appMention |-> TRUE, handoff |-> TRUE, said |-> 1, posts |-> 2,
   cues |-> {FALSE}, kinds |-> {}, maxFaults |-> 0]

\* Three bots that may call each other.
Chain ==
  [squad |-> Bot, root |-> ross, redis |-> {}, enforcing |-> {},
   appMention |-> FALSE, handoff |-> TRUE, said |-> 1, posts |-> 1, cues |-> {FALSE},
   kinds |-> {}, maxFaults |-> 0]

All == {HumanRoot, BotRoot, Chain}

\* One reply and a fetch that does not show it.
Stale == {[HumanRoot EXCEPT !.said = 1, !.posts = 1, !.kinds = {"stale"}]}
=============================================================================
