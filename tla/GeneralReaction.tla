-------------------------- MODULE GeneralReaction --------------------------
(***************************************************************************)
(* One plain #general message and the squad's single thumbs-up for it.     *)
(*                                                                         *)
(* Every pod computes the same winner.  The winner claims a Redis key      *)
(* (SetNX, 90 s TTL) and reacts; every other pod waits for its failover    *)
(* delay, claims the same key and reacts only if the claim was acquired.   *)
(* A failed reaction gives the claim back with a GET and a separate DEL.   *)
(*                                                                         *)
(* Delays carry no clock: event delivery, b.mu (held across LLM calls) and *)
(* the event loop put no bound on when a pod claims or reacts, so every    *)
(* order of the pods' steps and of the key's expiry is possible.           *)
(***************************************************************************)
EXTENDS Naturals, FiniteSets

CONSTANTS
  Bot,       \* the squad's pods
  NoBot,     \* "no key in Redis"
  Winner,    \* selectSingleGeneralParticipant of the message
  Faults,    \* the kinds of fault that may happen
  MaxFaults  \* bound: how many of them

FaultKind == {"error",       \* a Redis command fails and does nothing
              "error_after", \* a SET NX takes effect, its reply is lost
             "del_again",   \* a DEL takes effect, its reply is lost
              "expire",      \* the claim outlives its TTL
              "lost",        \* a reaction lands, Slack's answer is lost
              "refused",     \* a reaction is refused or rate limited
              "crash"}       \* a pod dies

ASSUME ReactionAssumption ==
  /\ NoBot \notin Bot
  /\ Winner \in Bot
  /\ Faults \subseteq FaultKind
  /\ MaxFaults \in Nat

VARIABLES
  key,     \* the claimant stored in Redis
  pc,      \* bot -> where its handler or failover goroutine is
  status,  \* bot -> what its claim returned
  reacted, \* the bots whose thumbs-up is on the message
  faults,  \* how many faults so far
  seen,    \* of which kinds
  locked   \* the pods with a usable REDIS_URL

vars == <<key, pc, status, reacted, faults, seen, locked>>

Fault(kind) ==
  /\ kind \in Faults
  /\ faults < MaxFaults
  /\ faults' = faults + 1
  /\ seen' = seen \cup {kind}

NoFault == UNCHANGED <<faults, seen>>

-----------------------------------------------------------------------------
\* The message event arrives: the winner claims at once, the others schedule
\* their failover, or give up if they have no lock.
Receive(b) ==
  /\ pc[b] = "idle"
  /\ pc' = [pc EXCEPT ![b] = IF b = Winner THEN "claiming"
                             ELSE IF b \in locked THEN "delayed" ELSE "done"]
  /\ UNCHANGED <<key, status, reacted, locked>> /\ NoFault

\* The failover delay (5 s and more, by position in the order) is over.
DelayOver(b) ==
  /\ pc[b] = "delayed"
  /\ pc' = [pc EXCEPT ![b] = "claiming"]
  /\ UNCHANGED <<key, status, reacted, locked>> /\ NoFault

\* Mutant: the winner only reacts with a claim.
WinnerNeedsClaim(st) == st = "acquired"

\* generalAutoReplyWinnerShouldPost / generalAutoReplyFailoverShouldPost.
WinnerShouldPost(st) == st \in {"acquired", "backend_unavailable"}
FailoverShouldPost(st) == st = "acquired"

AfterClaim(b, st) ==
  /\ status' = [status EXCEPT ![b] = st]
  /\ pc' = [pc EXCEPT ![b] =
       IF (IF b = Winner THEN WinnerShouldPost(st) ELSE FailoverShouldPost(st))
       THEN "reacting" ELSE "done"]

\* Mutant: SET instead of SET NX.
SetAlways(b) == key' = b /\ AfterClaim(b, "acquired")

SetNX(b) ==
  IF key = NoBot
  THEN key' = b /\ AfterClaim(b, "acquired")
  ELSE key' = key /\ AfterClaim(b, "already_claimed")

\* TryClaim over Redis.
Claim(b) ==
  /\ pc[b] = "claiming"
  /\ b \in locked
  /\ SetNX(b)
  /\ UNCHANGED <<reacted, locked>> /\ NoFault

\* TryClaim's command fails, before or after it took effect.
ClaimError(b) ==
  /\ pc[b] = "claiming"
  /\ b \in locked
  /\ \/ Fault("error") /\ key' = key
     \/ Fault("error_after") /\ key' = IF key = NoBot THEN b ELSE key
  /\ AfterClaim(b, "backend_unavailable")
  /\ UNCHANGED <<reacted, locked>>

\* The Redis client repeats a command whose reply it lost (its default for
\* network errors): the repeated SET NX meets the pod's own claim.
ClaimAgain(b) ==
  /\ pc[b] = "claiming"
  /\ b \in locked
  /\ Fault("error_after")
  /\ key' = IF key = NoBot THEN b ELSE key
  /\ UNCHANGED <<pc, status, reacted, locked>>

\* The winner has no lock at all.
ClaimWithoutLock(b) ==
  /\ pc[b] = "claiming"
  /\ b \notin locked
  /\ AfterClaim(b, "backend_unavailable")
  /\ UNCHANGED <<key, reacted, locked>> /\ NoFault

\* postReactionWithResult; "already_reacted" counts as success.
React(b) ==
  /\ pc[b] = "reacting"
  /\ reacted' = reacted \cup {b}
  /\ pc' = [pc EXCEPT ![b] = "done"]
  /\ UNCHANGED <<key, status, locked>> /\ NoFault

\* The outbound gate or Slack refuses, or Slack's answer is lost: an acquired
\* claim is released.
ReactFails(b) ==
  /\ pc[b] = "reacting"
  /\ \/ Fault("refused") /\ reacted' = reacted
     \/ Fault("lost") /\ reacted' = reacted \cup {b}
  /\ pc' = [pc EXCEPT ![b] = IF status[b] = "acquired" THEN "releasing" ELSE "done"]
  /\ UNCHANGED <<key, status, locked>>

\* ReleaseIfOwned, first half: GET and compare the claimant.
ReleaseGet(b) ==
  /\ pc[b] = "releasing"
  /\ \/ NoFault /\ pc' = [pc EXCEPT ![b] = IF key = b THEN "deleting" ELSE "done"]
     \/ Fault("error") /\ pc' = [pc EXCEPT ![b] = "done"]
  /\ UNCHANGED <<key, status, reacted, locked>>

\* Second half: DEL, whoever holds the key by now.
ReleaseDel(b) ==
  /\ pc[b] = "deleting"
  /\ \/ NoFault /\ key' = NoBot
     \/ Fault("error") /\ key' = key
  /\ pc' = [pc EXCEPT ![b] = "done"]
  /\ UNCHANGED <<status, reacted, locked>>

\* The repeated DEL: somebody else may have claimed the key in between.
ReleaseAgain(b) ==
  /\ pc[b] = "deleting"
  /\ Fault("del_again")
  /\ key' = NoBot
  /\ UNCHANGED <<pc, status, reacted, locked>>

\* The 90 s are over.
Expire ==
  /\ key # NoBot
  /\ Fault("expire")
  /\ key' = NoBot
  /\ UNCHANGED <<pc, status, reacted, locked>>

\* The pod dies: its handler or its failover timer is gone, the key stays.
Crash(b) ==
  /\ pc[b] \notin {"idle", "done"}
  /\ Fault("crash")
  /\ pc' = [pc EXCEPT ![b] = "done"]
  /\ UNCHANGED <<key, status, reacted, locked>>

-----------------------------------------------------------------------------
Init ==
  /\ key = NoBot
  /\ pc = [b \in Bot |-> "idle"]
  /\ status = [b \in Bot |-> "none"]
  /\ reacted = {}
  /\ faults = 0
  /\ seen = {}
  /\ locked \in SUBSET Bot

BotStep(b) ==
  \/ Receive(b) \/ DelayOver(b)
  \/ Claim(b) \/ ClaimError(b) \/ ClaimAgain(b) \/ ClaimWithoutLock(b)
  \/ React(b) \/ ReactFails(b)
  \/ ReleaseGet(b) \/ ReleaseDel(b) \/ ReleaseAgain(b)
  \/ Crash(b)

Next == (\E b \in Bot : BotStep(b)) \/ Expire

Spec == Init /\ [][Next]_vars

\* Slack delivers the event, timers fire, and every call returns.
FairSpec == Spec /\ \A b \in Bot : WF_vars(BotStep(b))
-----------------------------------------------------------------------------
(***************************************************************************)
(* Properties.                                                             *)
(***************************************************************************)
\* The variables stay in their types.
TypeOK ==
  /\ key \in Bot \cup {NoBot}
  /\ pc \in [Bot -> {"idle", "delayed", "claiming", "reacting", "releasing",
                     "deleting", "done"}]
  /\ status \in [Bot -> {"none", "acquired", "already_claimed",
                         "backend_unavailable"}]
  /\ reacted \subseteq Bot
  /\ faults \in 0 .. MaxFaults
  /\ seen \subseteq FaultKind
  /\ locked \subseteq Bot

\* So far the claim alone keeps the bots apart: it has not expired, Slack's
\* answers have arrived and no DEL was repeated.
Reliable == seen \cap {"expire", "lost", "del_again"} = {}

\* As long as that is so, the bots that hold an acquired claim react at most
\* once between them, through failed reactions, releases, Redis errors and
\* crashes.
ClaimsExclusive ==
  Reliable =>
    \A a, b \in reacted :
      status[a] = "acquired" /\ status[b] = "acquired" => a = b

\* The inductive strengthening of ClaimsExclusive: whoever acquired the claim
\* and has reacted, may still react or is giving the claim back holds the key.
Holders ==
  {b \in Bot : status[b] = "acquired" /\
     (b \in reacted \/ pc[b] \in {"reacting", "releasing", "deleting"})}
HoldersOwnKey ==
  Reliable =>
    /\ Holders \subseteq {key}
    /\ reacted \subseteq {b \in Bot : pc[b] = "done"}
    /\ \A b \in Bot : pc[b] \in {"releasing", "deleting"} => status[b] = "acquired"

\* Every reaction beyond the first is paid for by a fault of its own: an
\* expired claim, a lost answer, a repeated DEL or an unavailable backend lets
\* at most one more bot in, never a whole squad.
ReactionsBudget ==
  Cardinality(reacted) <=
    1 + faults + (IF Winner \in locked THEN 0 ELSE 1)

\* Redis being unreachable, or nobody having a lock, never silences the squad:
\* without a crash, a refused reaction or a lost reply to a claim somebody
\* reacts.
SomeoneReacts ==
  <>(reacted # {} \/ seen \cap {"crash", "refused", "error_after"} # {})
=============================================================================
