---------------------------- MODULE SquadSession ----------------------------
(***************************************************************************)
(* One channel-wide or multi-mention summons and the squad's answer to it. *)
(*                                                                         *)
(* Every pod that receives the summons starts its own copy of              *)
(* runMultiagentSession.  The pods share no lock: each one polls the       *)
(* channel history until the messages of the earlier slots are there, asks *)
(* the LLM and posts.  Meanwhile each pod's event loop answers the squad   *)
(* messages that mention it (trySquadBotMentionTrigger) and the human's    *)
(* direct mentions, and a pod's session and event loop contend for b.mu.   *)
(*                                                                         *)
(* "chat" holds the squad messages posted in the channel after the         *)
(* summons, oldest first: human messages only matter to the run count.     *)
(***************************************************************************)
EXTENDS Integers, Sequences, FiniteSets

CONSTANTS
  Bot,            \* the squad's Slack user ids (MULTIAGENT_BOT_USER_IDS)
  NoBot,          \* "mentions nobody"
  Grant,          \* CHAT_ALLOWED_USER_ID
  Order,          \* participants in turn order, the same on every pod
  Rounds,         \* MULTIAGENT_BROADCAST_ROUNDS, 1 for explicit mentions
  Broadcast,      \* summoned by <!everyone>/<!channel>, not by mentions
  Mixed,          \* the bot also mentioned by name in a broadcast, if any
  AppMention,     \* the Slack app delivers app_mention besides message
  Handoff,        \* the sampled handoff probability can be positive
  AllowDegraded,  \* the bots with MULTIAGENT_ALLOW_DEGRADED_START
  MaxNoProgress,  \* polls without progress before a slot is given up (45)
  MaxMismatch,    \* polls with a wrong prefix before that (6)
  RunMax,         \* MULTIAGENT_SQUAD_RUN_MAX, 0 for no cap
  MaxPings,       \* bound: direct mentions by the human after the summons
  MaxFaults       \* bound: skipped posts, failed polls and crashes

ASSUME SquadAssumption ==
  /\ NoBot \notin Bot
  /\ Order \in Seq(Bot) /\ Len(Order) >= 1
  /\ Rounds \in Nat \ {0}
  /\ Mixed \subseteq Bot /\ \A b, c \in Mixed : b = c
  /\ \A flag \in {Broadcast, AppMention, Handoff} : flag \in BOOLEAN
  /\ AllowDegraded \subseteq Bot
  /\ MaxNoProgress \in Nat \ {0} /\ MaxMismatch \in Nat \ {0}
  /\ RunMax \in Nat /\ MaxPings \in Nat /\ MaxFaults \in Nat

VARIABLES
  chat,       \* squad messages after the summons, oldest first
  lastHuman,  \* how many of them precede the newest human message
  pc,         \* session -> where its goroutine is
  slot,       \* session -> the own slot it is at
  clock,      \* session -> has the soft / hard slot deadline passed
  lastSeen,   \* session -> messages seen by the previous poll
  noProgress, \* session -> consecutive polls without a new message
  mismatch,   \* session -> consecutive polls with a wrong prefix
  heard,      \* session -> prior messages left after the Grant boundary
  active,     \* bot -> activeBroadcastByChannel of the channel
  mu,         \* bot -> who holds b.mu
  inbox,      \* bot -> mention events not handled yet
  loop,       \* bot -> what its event loop is doing
  answering,  \* bot -> the event its loop is answering
  pings,      \* human mentions so far
  faults      \* faults so far

sessionVars == <<slot, clock, lastSeen, noProgress, mismatch, heard>>
loopVars == <<inbox, loop, answering>>
boundVars == <<pings, faults>>
vars == <<chat, lastHuman, pc, sessionVars, active, mu, loopVars, boundVars>>

(***************************************************************************)
(* Static data.                                                            *)
(***************************************************************************)
NSlots == Rounds * Len(Order)
SlotIndex == 0 .. NSlots - 1

\* buildSlots: the order repeated once per round, slots counted from 0.
Slots == [k \in SlotIndex |-> Order[(k % Len(Order)) + 1]]

\* An explicit multi-mention reaches a mentioned bot as a message event and,
\* if subscribed, as an app_mention event: both handlers start a session.
Kind == IF ~Broadcast /\ AppMention THEN {"message", "app_mention"}
                                    ELSE {"message"}
Session == Bot \X Kind
Me(s) == s[1]

\* What an event answers: 0 the summons, -1 a later human mention, i > 0 the
\* squad message i.
Event == [re : Int, kind : {"message", "app_mention"}]

Message == [from : Bot, to : Bot \cup {NoBot}, slot : SlotIndex \cup {-1},
            re : Int, n : Int, heard : Nat]

Running == {"waiting", "ready", "replying"}

(***************************************************************************)
(* What a session reads from the channel history.                          *)
(***************************************************************************)
PrefixMatches(k) ==
  /\ Len(chat) >= k
  /\ \A i \in 1 .. k : chat[i].from = Slots[i - 1]

\* clipMessagesToGrantBoundary applied to the squad-only messages of a poll:
\* the messages up to Grant's newest one among them, none if there is none.
ClipToGrant(msgs) ==
  {i \in 1 .. Len(msgs) : \E j \in i .. Len(msgs) : msgs[j].from = Grant}

\* Mutant: a slot starts while its immediate predecessor is still missing.
ExactEarly(s) == LET k == IF slot[s] > 0 THEN slot[s] - 1 ELSE 0
                 IN  Len(chat) \in {k, slot[s]} /\ PrefixMatches(k)

\* evaluateMultiagentSlotState.
Exact(s) == Len(chat) = slot[s] /\ PrefixMatches(slot[s])
\* Mutant: degraded start only when messages are missing, not when there are
\* too many.
DegradedWhenShort(s) ==
  Me(s) \in AllowDegraded /\ clock[s] = "soft" /\ Len(chat) < slot[s]

Degraded(s) == Me(s) \in AllowDegraded /\ clock[s] = "soft"

\* squadRunCountThrough for the message that is posted next.
NextRunCount == Len(chat) + 1 - lastHuman

(***************************************************************************)
(* Posting.  A message that mentions a bot becomes an event of that bot:   *)
(* a message event and, if subscribed, an app_mention event as well.       *)
(***************************************************************************)
EventsOf(i) ==
  [re : {i}, kind : IF AppMention THEN {"message", "app_mention"}
                                  ELSE {"message"}]

Post(b, to, k, re, ctx) ==
  /\ chat' = Append(chat, [from |-> b, to |-> to, slot |-> k, re |-> re,
                           n |-> NextRunCount, heard |-> ctx])
  /\ inbox' = [c \in Bot |-> IF c = to THEN inbox[c] \cup EventsOf(Len(chat) + 1)
                                       ELSE inbox[c]]

\* enforceMultiagentMentionPolicy: one other squad member when a handoff was
\* sampled, nobody otherwise.
MayMention(b) == IF Handoff THEN (Bot \ {b}) \cup {NoBot} ELSE {NoBot}

(***************************************************************************)
(* The session goroutine.                                                  *)
(***************************************************************************)
\* Mutant: the slot just handled is not passed over.
OwnSlotsAgain(b, k) == {j \in SlotIndex : j + 1 >= k /\ Slots[j] = b}

OwnSlotsFrom(b, k) == {j \in SlotIndex : j >= k /\ Slots[j] = b}

StartWait(s, k) ==
  /\ slot' = [slot EXCEPT ![s] = k]
  /\ clock' = [clock EXCEPT ![s] = "fresh"]
  /\ lastSeen' = [lastSeen EXCEPT ![s] = -1]
  /\ noProgress' = [noProgress EXCEPT ![s] = 0]
  /\ mismatch' = [mismatch EXCEPT ![s] = 0]
  /\ heard' = [heard EXCEPT ![s] = 0]

\* Mutant: endBroadcast is missing on the way out.
LeaveActive(s) ==
  /\ pc' = [pc EXCEPT ![s] = "done"]
  /\ UNCHANGED active

\* The session returns; a broadcast's deferred endBroadcast runs.
Leave(s) ==
  /\ pc' = [pc EXCEPT ![s] = "done"]
  /\ active' = IF Broadcast /\ active[Me(s)] > 0
               THEN [active EXCEPT ![Me(s)] = @ - 1] ELSE active

\* Mutant: the loop goes on behind the bot's last slot.
NextSlotOn(s, k) ==
  LET own == OwnSlotsFrom(Me(s), k)
  IN  /\ \E j \in IF own = {} THEN {k} ELSE own :
           /\ \A i \in own : j <= i
           /\ StartWait(s, j)
      /\ pc' = [pc EXCEPT ![s] = "waiting"]
      /\ UNCHANGED active

\* On to the bot's next own slot at or after k, or out of the loop.
NextSlot(s, k) ==
  LET own == OwnSlotsFrom(Me(s), k)
  IN  \/ /\ own # {}
         /\ \E j \in own :
              /\ \A i \in own : j <= i
              /\ StartWait(s, j)
         /\ pc' = [pc EXCEPT ![s] = "waiting"]
         /\ UNCHANGED active
      \/ /\ own = {}
         /\ Leave(s)
         /\ UNCHANGED sessionVars

\* The event loop dispatches the summons: "go func() { ... }".
Receive(s) ==
  /\ pc[s] = "idle"
  /\ loop[Me(s)] = "idle"
  /\ pc' = [pc EXCEPT ![s] = "spawned"]
  /\ UNCHANGED <<chat, lastHuman, sessionVars, active, mu, loopVars, boundVars>>

\* The goroutine marks the broadcast active and enters the slot loop; a bot
\* with no slot of its own is done at once.
Begin(s) ==
  /\ pc[s] = "spawned"
  /\ LET own == OwnSlotsFrom(Me(s), 0)
     IN  \/ /\ own # {}
            /\ \E j \in own :
                 /\ \A i \in own : j <= i
                 /\ StartWait(s, j)
            /\ pc' = [pc EXCEPT ![s] = "waiting"]
            /\ active' = IF Broadcast THEN [active EXCEPT ![Me(s)] = @ + 1]
                                      ELSE active
         \/ /\ own = {}
            /\ pc' = [pc EXCEPT ![s] = "done"]
            /\ UNCHANGED <<sessionVars, active>>
  /\ UNCHANGED <<chat, lastHuman, mu, loopVars, boundVars>>

\* A poll finds the slot ready, exactly or by degraded start.
PollReady(s) ==
  /\ pc[s] = "waiting"
  /\ clock[s] # "hard"
  /\ Exact(s) \/ Degraded(s)
  /\ pc' = [pc EXCEPT ![s] = "ready"]
  /\ heard' = [heard EXCEPT ![s] = Cardinality(ClipToGrant(chat))]
  /\ UNCHANGED <<chat, lastHuman, slot, clock, lastSeen, noProgress, mismatch,
                 active, mu, loopVars, boundVars>>

\* A poll that is not ready counts stalls and prefix mismatches; at either
\* limit the slot is reported missing and the session abandoned, unless
\* degraded start is allowed.  The counters saturate at their limits.
Bump(n, limit) == IF n < limit THEN n + 1 ELSE limit

PollAgain(s) ==
  /\ pc[s] = "waiting"
  /\ clock[s] # "hard"
  /\ ~Exact(s) /\ ~Degraded(s)
  /\ noProgress' = [noProgress EXCEPT ![s] =
       IF Len(chat) = lastSeen[s] THEN Bump(@, MaxNoProgress) ELSE 0]
  /\ lastSeen' = [lastSeen EXCEPT ![s] = Len(chat)]
  /\ mismatch' = [mismatch EXCEPT ![s] =
       IF Len(chat) >= slot[s] /\ ~PrefixMatches(slot[s])
       THEN Bump(@, MaxMismatch) ELSE 0]
  /\ LET missing == \/ mismatch'[s] >= MaxMismatch
                    \/ Len(chat) < slot[s] /\ noProgress'[s] >= MaxNoProgress
     IN  IF missing /\ Me(s) \notin AllowDegraded
         THEN Leave(s) ELSE UNCHANGED <<pc, active>>
  /\ UNCHANGED <<chat, lastHuman, slot, clock, heard, mu, loopVars, boundVars>>

\* Mutant: the deadline is only looked at while messages are missing.
WaitTimeoutWhenShort(s) ==
  /\ pc[s] = "waiting"
  /\ clock[s] = "hard"
  /\ Len(chat) < slot[s]
  /\ Leave(s)
  /\ UNCHANGED <<chat, lastHuman, sessionVars, mu, loopVars, boundVars>>

\* The slot's wait context expires, or conversations.history fails: the bot
\* gives up this slot and all its later ones.
WaitTimeout(s) ==
  /\ pc[s] = "waiting"
  /\ clock[s] = "hard"
  /\ Leave(s)
  /\ UNCHANGED <<chat, lastHuman, sessionVars, mu, loopVars, boundVars>>

HistoryError(s) ==
  /\ pc[s] = "waiting"
  /\ faults < MaxFaults
  /\ faults' = faults + 1
  /\ Leave(s)
  /\ UNCHANGED <<chat, lastHuman, sessionVars, mu, loopVars, pings>>

\* Time passes for a waiting session.  With degraded start a poll (every
\* 0.8 s) always falls between the soft (12 s) and the hard (300 s) deadline.
Elapse(s) ==
  /\ pc[s] = "waiting"
  /\ \/ /\ clock[s] = "fresh"
        /\ clock' = [clock EXCEPT ![s] = "soft"]
     \/ /\ clock[s] = "soft" /\ ~Degraded(s)
        /\ clock' = [clock EXCEPT ![s] = "hard"]
  /\ UNCHANGED <<chat, lastHuman, pc, slot, lastSeen, noProgress, mismatch,
                 heard, active, mu, loopVars, boundVars>>

\* postMultiagentReply: b.mu is taken, then the LLM is called.
Acquire(s) ==
  /\ pc[s] = "ready"
  /\ mu[Me(s)] = "free"
  /\ mu' = [mu EXCEPT ![Me(s)] = s[2]]
  /\ pc' = [pc EXCEPT ![s] = "replying"]
  /\ UNCHANGED <<chat, lastHuman, sessionVars, active, loopVars, boundVars>>

\* The reply (or the LLM error text) is posted; the closing slot never hands
\* off.
PostSlot(s) ==
  /\ pc[s] = "replying"
  /\ \E to \in IF slot[s] = NSlots - 1 THEN {NoBot} ELSE MayMention(Me(s)) :
       Post(Me(s), to, slot[s], 0, heard[s])
  /\ mu' = [mu EXCEPT ![Me(s)] = "free"]
  /\ NextSlot(s, slot[s] + 1)
  /\ UNCHANGED <<lastHuman, loop, answering, boundVars>>

\* The post is suppressed (availability router, outbound rate limit) or
\* refused by Slack: the slot is passed over without a message.
SkipSlot(s) ==
  /\ pc[s] = "replying"
  /\ faults < MaxFaults
  /\ faults' = faults + 1
  /\ mu' = [mu EXCEPT ![Me(s)] = "free"]
  /\ NextSlot(s, slot[s] + 1)
  /\ UNCHANGED <<chat, lastHuman, loopVars, pings>>

(***************************************************************************)
(* The event loop: one event at a time.                                    *)
(***************************************************************************)
\* The human mentions one bot in a new top-level message.
Ping(b) ==
  /\ pings < MaxPings
  /\ pings' = pings + 1
  /\ lastHuman' = Len(chat)
  /\ inbox' = [inbox EXCEPT ![b] = @ \cup EventsOf(-1)]
  /\ UNCHANGED <<chat, pc, sessionVars, active, mu, loop, answering, faults>>

\* Mutant: the run cap lets one message too many through.
IgnoredAboveCap(b, e) ==
  /\ e.kind = "message"
  /\ e.re > 0
  /\ \/ active[b] > 0
     \/ RunMax > 0 /\ chat[e.re].n > RunMax

\* trySquadBotMentionTrigger ignores a squad mention while a broadcast is
\* active, and one at or above the run cap.  onAppMention has neither test.
Ignored(b, e) ==
  /\ e.kind = "message"
  /\ e.re > 0
  /\ \/ active[b] > 0
     \/ RunMax > 0 /\ chat[e.re].n >= RunMax

HandleMention(b) ==
  /\ loop[b] = "idle"
  /\ \E e \in inbox[b] :
       /\ inbox' = [inbox EXCEPT ![b] = @ \ {e}]
       /\ IF Ignored(b, e)
          THEN UNCHANGED <<loop, answering>>
          ELSE /\ loop' = [loop EXCEPT ![b] = "locking"]
               /\ answering' = [answering EXCEPT ![b] = e.re]
  /\ UNCHANGED <<chat, lastHuman, pc, sessionVars, active, mu, boundVars>>

\* squadRunCountThrough can not read the history, or does not find the message
\* in it: the mention goes unanswered.
RunCountError(b) ==
  /\ loop[b] = "idle"
  /\ \E e \in inbox[b] :
       /\ e.kind = "message" /\ e.re > 0 /\ active[b] = 0
       /\ inbox' = [inbox EXCEPT ![b] = @ \ {e}]
  /\ faults < MaxFaults
  /\ faults' = faults + 1
  /\ UNCHANGED <<chat, lastHuman, pc, sessionVars, active, mu, loop, answering,
                 pings>>

\* postLLMReply takes b.mu for the LLM call and the post.
LoopAcquire(b) ==
  /\ loop[b] = "locking"
  /\ mu[b] = "free"
  /\ mu' = [mu EXCEPT ![b] = "loop"]
  /\ loop' = [loop EXCEPT ![b] = "replying"]
  /\ UNCHANGED <<chat, lastHuman, pc, sessionVars, active, inbox, answering,
                 boundVars>>

PostReply(b) ==
  /\ loop[b] = "replying"
  /\ \E to \in MayMention(b) : Post(b, to, -1, answering[b], 0)
  /\ mu' = [mu EXCEPT ![b] = "free"]
  /\ loop' = [loop EXCEPT ![b] = "idle"]
  /\ UNCHANGED <<lastHuman, pc, sessionVars, active, answering, boundVars>>

SkipReply(b) ==
  /\ loop[b] = "replying"
  /\ faults < MaxFaults
  /\ faults' = faults + 1
  /\ mu' = [mu EXCEPT ![b] = "free"]
  /\ loop' = [loop EXCEPT ![b] = "idle"]
  /\ UNCHANGED <<chat, lastHuman, pc, sessionVars, active, inbox, answering,
                 pings>>

\* The pod dies and restarts: sessions, the answer in progress, b.mu and the
\* broadcast marks live in memory only.  Events not yet taken stay queued.
Crash(b) ==
  /\ faults < MaxFaults
  /\ faults' = faults + 1
  /\ pc' = [s \in Session |-> IF Me(s) = b /\ pc[s] # "idle" THEN "done"
                              ELSE pc[s]]
  /\ active' = [active EXCEPT ![b] = 0]
  /\ mu' = [mu EXCEPT ![b] = "free"]
  /\ loop' = [loop EXCEPT ![b] = "idle"]
  /\ UNCHANGED <<chat, lastHuman, sessionVars, inbox, answering, pings>>

-----------------------------------------------------------------------------
\* The summons has just been posted.  In a mixed broadcast summons a bot
\* mentioned by name also gets an app_mention event, which onAppMention
\* answers without looking for the broadcast token.
Init ==
  /\ chat = <<>>
  /\ lastHuman = 0
  /\ pc = [s \in Session |-> "idle"]
  /\ slot = [s \in Session |-> 0]
  /\ clock = [s \in Session |-> "fresh"]
  /\ lastSeen = [s \in Session |-> -1]
  /\ noProgress = [s \in Session |-> 0]
  /\ mismatch = [s \in Session |-> 0]
  /\ heard = [s \in Session |-> 0]
  /\ active = [b \in Bot |-> 0]
  /\ mu = [b \in Bot |-> "free"]
  /\ inbox = [b \in Bot |-> IF Broadcast /\ AppMention /\ b \in Mixed
                            THEN {[re |-> 0, kind |-> "app_mention"]} ELSE {}]
  /\ loop = [b \in Bot |-> "idle"]
  /\ answering = [b \in Bot |-> 0]
  /\ pings = 0
  /\ faults = 0

SessionStep(s) ==
  \/ Receive(s) \/ Begin(s)
  \/ PollReady(s) \/ PollAgain(s) \/ WaitTimeout(s) \/ HistoryError(s)
  \/ Elapse(s)
  \/ Acquire(s) \/ PostSlot(s) \/ SkipSlot(s)

LoopStep(b) ==
  \/ HandleMention(b) \/ RunCountError(b)
  \/ LoopAcquire(b) \/ PostReply(b) \/ SkipReply(b)

Next ==
  \/ \E s \in Session : SessionStep(s)
  \/ \E b \in Bot : LoopStep(b) \/ Ping(b) \/ Crash(b)

Spec == Init /\ [][Next]_vars

\* Slack delivers events, goroutines are scheduled, LLM calls return (their
\* context has a deadline), time passes, and a Go mutex is not starved.
Fairness ==
  /\ \A s \in Session :
       /\ WF_vars(Receive(s)) /\ WF_vars(Begin(s))
       /\ WF_vars(PollReady(s) \/ PollAgain(s)) /\ WF_vars(WaitTimeout(s))
       /\ WF_vars(Elapse(s))
       /\ SF_vars(Acquire(s)) /\ WF_vars(PostSlot(s))
  /\ \A b \in Bot :
       /\ WF_vars(HandleMention(b))
       /\ SF_vars(LoopAcquire(b)) /\ WF_vars(PostReply(b))

FairSpec == Spec /\ Fairness
-----------------------------------------------------------------------------
(***************************************************************************)
(* Properties.                                                             *)
(***************************************************************************)
\* The variables stay in their types; in particular a session only ever
\* waits for a slot that exists and the broadcast marks are never negative.
TypeOK ==
  /\ chat \in Seq(Message)
  /\ lastHuman \in Nat
  /\ pc \in [Session -> Running \cup {"idle", "spawned", "done"}]
  /\ slot \in [Session -> SlotIndex]
  /\ clock \in [Session -> {"fresh", "soft", "hard"}]
  /\ lastSeen \in [Session -> Nat \cup {-1}]
  /\ noProgress \in [Session -> 0 .. MaxNoProgress]
  /\ mismatch \in [Session -> 0 .. MaxMismatch]
  /\ heard \in [Session -> Nat]
  /\ active \in [Bot -> Nat]
  /\ mu \in [Bot -> Kind \cup {"free", "loop"}]
  /\ inbox \in [Bot -> SUBSET Event]
  /\ loop \in [Bot -> {"idle", "locking", "replying"}]
  /\ answering \in [Bot -> Int]
  /\ pings \in Nat
  /\ faults \in Nat

\* The configuration in which nothing but the session writes to the channel:
\* no degraded start, no handoff mention, no human mention, and no app_mention
\* event for the summons.
Strict ==
  /\ AllowDegraded = {} /\ ~Handoff /\ MaxPings = 0
  /\ AppMention => Broadcast /\ Mixed = {}

\* Every squad message is the next turn: the channel never shows a slot out
\* of order, twice, or with another squad message in between, whatever polls,
\* timeouts, skipped posts and crashes do (README "Turn order").
InOrder ==
  /\ Len(chat) <= NSlots
  /\ \A i \in DOMAIN chat : chat[i].from = Slots[i - 1] /\ chat[i].slot = i - 1

\* The inductive strengthening of InOrder: a session whose wait has returned
\* still sees exactly its own slot's prefix, and no event loop answers.
TurnInv ==
  /\ InOrder
  /\ \A i \in DOMAIN chat : chat[i].to = NoBot
  /\ \A s \in Session :
       /\ pc[s] \in Running => Slots[slot[s]] = Me(s)
       /\ pc[s] \in {"ready", "replying"} => Len(chat) = slot[s]
  /\ \A b \in Bot : inbox[b] = {} /\ loop[b] = "idle"

\* No slot is posted twice, however polls, mutex waits, follow-ups and
\* crashes interleave.
OncePerSlot ==
  \A i, j \in DOMAIN chat :
    chat[i].slot # -1 /\ chat[i].slot = chat[j].slot => i = j

\* Bot-to-bot talk is bounded: of the messages of one run (between two human
\* messages) fewer than RunMax are ever answered, so a run can not keep
\* itself alive (MULTIAGENT_SQUAD_RUN_MAX).
RunOf(i) == i - chat[i].n
FollowupsBounded ==
  RunMax > 0 =>
    \A r \in 0 .. Len(chat) :
      Cardinality({i \in DOMAIN chat : chat[i].re > 0 /\ RunOf(chat[i].re) = r})
        < RunMax

\* beginBroadcast and endBroadcast balance on every path out of a session: a
\* leaked mark would silence the bot's follow-ups for good, a missing one
\* would let it answer in the middle of its own broadcast.
ActiveBalanced ==
  \A b \in Bot :
    active[b] = IF Broadcast
                THEN Cardinality({s \in Session : Me(s) = b /\ pc[s] \in Running})
                ELSE 0

\* A slot after the first is generated with the earlier squad messages in its
\* prompt ("includes prior squad context when slot>0", multiagent.go).
SlotHearsPrior ==
  \A i \in DOMAIN chat : chat[i].slot > 0 => chat[i].heard > 0

\* Every session that starts comes to an end, by its last post, a missing
\* predecessor, its deadline, an error or a crash: no pod keeps polling.
SessionsEnd == \A s \in Session : pc[s] = "spawned" ~> pc[s] = "done"

\* Without failures a bot with degraded start posts every slot of its own: a
\* predecessor that gave up or a follow-up that disturbs the prefix delays it,
\* and does not silence it ("do not block downstream agents forever").
EveryoneReplies ==
  \A k \in SlotIndex : Slots[k] \in AllowDegraded =>
    <>(faults > 0 \/ \E i \in DOMAIN chat : chat[i].slot = k)

\* The session implements the abstract turn-taking.
Abs == INSTANCE TurnTaking
         WITH Turns <- [i \in 1 .. NSlots |-> Slots[i - 1]],
              said <- [i \in DOMAIN chat |-> chat[i].from]

\* Every step of the squad is a turn of the abstract specification or leaves
\* the channel as it is.
TakesTurns == Abs!Spec
=============================================================================
