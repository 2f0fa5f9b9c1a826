------------------------------ MODULE ThreadTalk ------------------------------
(***************************************************************************)
(* One Slack thread of the squad.  Every pod gets every message of the     *)
(* thread as an event and decides alone whether it answers: it fetches the *)
(* thread, resolves the thread's owner (the author of the root if that is  *)
(* a bot, else Redis, else the bot named by the CEO's first reply) and     *)
(* compares itself with the names in the message.  Squad bots may also     *)
(* call each other by name.  The availability router stands in front and   *)
(* answers some messages with an acknowledgement.                          *)
(*                                                                         *)
(* Messages are numbered as Slack orders them; the root is not counted.    *)
(* Events of one pod may be handled in any order, one at a time.           *)
(***************************************************************************)
EXTENDS Integers, Sequences, FiniteSets

CONSTANTS
  Bot,       \* the squad's pods
  Ceo,       \* CHAT_ALLOWED_USER_ID; also the author of a human root
  NoBot,     \* no owner
  Setups,    \* the setups to start from
  MaxSaid,   \* bound: messages of the CEO in any setup
  MaxPosts   \* bound: the outbound gate's limit in any setup

FaultKind == {"stale",        \* a fetch does not see the newest messages
              "fetch_error",  \* conversations.replies fails
              "get_error",    \* a GET of the owner key fails
              "set_error",    \* a SET of the owner key fails
              "expire",       \* the owner key outlives THREAD_OWNER_TTL_SEC
              "edit",         \* the CEO rewrites who a reply names
              "delete",       \* the CEO deletes a reply
              "cue",          \* a bot's reply happens to hold a cue
              "silent",       \* the LLM's and Slack's answer never gets posted
              "crash"}        \* a pod dies while it handles an event

\* A setup: the squad, who wrote the root, the pods with a REDIS_URL, the pods
\* that enforce the availability router, whether mentions also arrive as
\* app_mention events, whether replies may hand off, how many messages the CEO
\* writes, how many the outbound gate lets a pod post (the thread lasts one
\* window), and the faults.
Setup == [squad : SUBSET Bot, root : Bot \cup {Ceo}, redis : SUBSET Bot, enforcing : SUBSET Bot,
          appMention : BOOLEAN, handoff : BOOLEAN,
          said : 0 .. MaxSaid, posts : 0 .. MaxPosts,
          cues : SUBSET BOOLEAN, kinds : SUBSET FaultKind, maxFaults : Nat]

ASSUME ThreadAssumption ==
  /\ Ceo \notin Bot /\ NoBot \notin Bot \cup {Ceo}
  /\ MaxSaid \in Nat /\ MaxPosts \in Nat
  /\ Setups \subseteq Setup

Source == {"message", "app_mention"}

NoReply == [at |-> 0, names |-> {}]

VARIABLES
  thread,  \* the replies: author, bots named as written and as shown after an
           \* edit, cue, and what they answer
  gone,    \* replies the CEO deleted
  todo,    \* bot -> events not handled yet
  pc,      \* bot -> where its event loop is
  cur,     \* bot -> the message it handles
  first,   \* bot -> the first reply of the CEO in the thread it fetched
  owner,   \* bot -> the owner it resolved
  key,     \* the owner stored in Redis
  faults,  \* how many faults so far
  seen,    \* of which kinds
  setup

vars == <<thread, gone, todo, pc, cur, first, owner, key, faults, seen, setup>>

Fault(kind) ==
  /\ kind \in setup.kinds
  /\ faults < setup.maxFaults
  /\ faults' = faults + 1
  /\ seen' = seen \cup {kind}

NoFault == UNCHANGED <<faults, seen>>

FromCeo(m) == thread[m].by = Ceo
Posts(b) == Cardinality({m \in DOMAIN thread : thread[m].by = b})
Squad == setup.squad

GateAllows(b) == Posts(b) < setup.posts

\* threadRoutingShouldReplyToSquadFollowup: another bot calls b.
SquadFollowup(b, msg) == msg.by \in Bot \ {b} /\ b \in msg.names

\* onMessage drops the pod's own messages, handleThreadMessage what neither
\* the CEO nor a calling bot wrote.
Concerns(b, msg) == msg.by = Ceo \/ SquadFollowup(b, msg)

\* The availability router swallows a message with a cue, whoever wrote it.
Acks(b, msg) == b \in setup.enforcing /\ msg.cue /\ msg.by # b

\* Message m becomes an event in every pod; the pod that drops it at once needs
\* none.
Events(m, msg, b) ==
  IF b \notin Squad \/ ~(Concerns(b, msg) \/ Acks(b, msg)) THEN {}
  ELSE {[of |-> m, via |-> "message"]} \cup
       (IF setup.appMention /\ b \in msg.names
        THEN {[of |-> m, via |-> "app_mention"]} ELSE {})

\* A message appears; "done" are the events this step has handled.
AppearAfter(msg, done) ==
  /\ thread' = Append(thread, msg)
  /\ todo' = [b \in Bot |-> (todo[b] \ done[b]) \cup Events(Len(thread) + 1, msg, b)]
Appear(msg) == AppearAfter(msg, [b \in Bot |-> {}])

Message(by, names, cue, to, ack) ==
  [by |-> by, names |-> names, shown |-> names, cue |-> cue, to |-> to, ack |-> ack]

-----------------------------------------------------------------------------
(***************************************************************************)
(* The CEO.                                                                *)
(***************************************************************************)
Say(names, cue) ==
  /\ Cardinality({m \in DOMAIN thread : FromCeo(m)}) < setup.said
  /\ Appear(Message(Ceo, names, cue, 0, FALSE))
  /\ UNCHANGED <<gone, pc, cur, first, owner, key, setup>> /\ NoFault

\* message_changed and message_deleted events are ignored by every pod.
Edit(m, names) ==
  /\ FromCeo(m) /\ m \notin gone /\ names # thread[m].shown
  /\ Fault("edit")
  /\ thread' = [thread EXCEPT ![m].shown = names]
  /\ UNCHANGED <<gone, todo, pc, cur, first, owner, key, setup>>

Delete(m) ==
  /\ FromCeo(m) /\ m \notin gone
  /\ Fault("delete")
  /\ gone' = gone \cup {m}
  /\ UNCHANGED <<thread, todo, pc, cur, first, owner, key, setup>>

-----------------------------------------------------------------------------
(***************************************************************************)
(* The event loop of pod b.                                                *)
(***************************************************************************)
Idle(b) ==
  /\ pc' = [pc EXCEPT ![b] = "idle"]
  /\ cur' = [cur EXCEPT ![b] = 0]
  /\ first' = [first EXCEPT ![b] = NoReply]
  /\ owner' = [owner EXCEPT ![b] = NoBot]

Goto(b, where) == pc' = [pc EXCEPT ![b] = where]

\* Mutant: the owner answers whoever else is named.
ShouldReplyOrOwn(b, own, m) == b \in thread[m].names \/ b = own

\* Mutant: only the owner answers.
ShouldReplyIfOwner(b, own, m) == b = own

\* threadRoutingShouldReply: the names decide, and without names the owner.
ShouldReply(b, own, m) ==
  IF thread[m].names # {} THEN b \in thread[m].names ELSE b = own

\* Mutant: the acknowledgement holds a cue itself.
AcknowledgeInKind(b, e) ==
  /\ pc[b] = "idle" /\ e \in todo[b] /\ Acks(b, thread[e.of])
  /\ GateAllows(b)
  /\ AppearAfter(Message(b, {}, TRUE, e.of, TRUE),
                 [c \in Bot |-> IF c = b THEN {e} ELSE {}])
  /\ UNCHANGED <<gone, pc, cur, first, owner, key, setup>> /\ NoFault

\* The router swallows the message and posts one acknowledgement.  The wording
\* names nobody and holds no cue itself.
Acknowledge(b, e) ==
  /\ pc[b] = "idle" /\ e \in todo[b] /\ Acks(b, thread[e.of])
  /\ GateAllows(b)
  /\ AppearAfter(Message(b, {}, FALSE, e.of, TRUE),
                 [c \in Bot |-> IF c = b THEN {e} ELSE {}])
  /\ UNCHANGED <<gone, pc, cur, first, owner, key, setup>> /\ NoFault

\* The gate is closed, or Slack refuses.
AcknowledgeDropped(b, e) ==
  /\ pc[b] = "idle" /\ e \in todo[b] /\ Acks(b, thread[e.of])
  /\ \/ ~GateAllows(b) /\ NoFault
     \/ GateAllows(b) /\ Fault("silent")
  /\ todo' = [todo EXCEPT ![b] = @ \ {e}]
  /\ UNCHANGED <<thread, gone, pc, cur, first, owner, key, setup>>

\* The CEO's first reply among the first n messages.
CeoReplies(n) == {m \in 1 .. n : FromCeo(m) /\ m \notin gone}
FirstReply(n) ==
  IF CeoReplies(n) = {} THEN NoReply
  ELSE LET m == CHOOSE m \in CeoReplies(n) : \A k \in CeoReplies(n) : m <= k
       IN  [at |-> m, names |-> thread[m].shown]

\* The event passes the router, and the handler fetches the thread; a stale
\* answer ends before the newest messages.
Take(b, e) ==
  /\ pc[b] = "idle" /\ e \in todo[b] /\ ~Acks(b, thread[e.of])
  /\ todo' = [todo EXCEPT ![b] = @ \ {e}]
  /\ cur' = [cur EXCEPT ![b] = e.of]
  /\ Goto(b, IF FromCeo(e.of) THEN "resolving" ELSE "replying")
  /\ UNCHANGED <<thread, gone, owner, key, setup>>

Fetch(b, e) ==
  /\ Take(b, e)
  /\ \/ NoFault /\ first' = [first EXCEPT ![b] = FirstReply(Len(thread))]
     \/ Fault("stale") /\ \E n \in 0 .. Len(thread) - 1 :
                             first' = [first EXCEPT ![b] = FirstReply(n)]

\* The fetch fails, or the pod dies: the event was acknowledged before.
FetchFails(b, e) ==
  /\ pc[b] = "idle" /\ e \in todo[b] /\ ~Acks(b, thread[e.of])
  /\ Fault("fetch_error")
  /\ todo' = [todo EXCEPT ![b] = @ \ {e}]
  /\ UNCHANGED <<thread, gone, pc, cur, first, owner, key, setup>>

\* The owner is known: answer or not.
Decide(b, own) ==
  IF ShouldReply(b, own, cur[b])
  THEN Goto(b, "replying") /\ UNCHANGED <<cur, first, owner>>
  ELSE Idle(b)

The(S) == IF Cardinality(S) = 1 THEN CHOOSE x \in S : TRUE ELSE NoBot

IsFirstReply(b) == first[b].at # 0 /\ first[b].at = cur[b]

\* The owner according to the fetched thread: whom the CEO's first reply names
\* alone.  Without one in sight the message at hand would do, but only if it
\* is the first reply in sight.
OwnerInView(b) ==
  IF first[b].at # 0 THEN The(first[b].names)
  ELSE IF IsFirstReply(b) THEN The(thread[cur[b]].names) ELSE NoBot

\* The root's author owns the thread, else Redis knows, else the thread tells;
\* without an owner nobody answers, not even a bot that is named.
Resolve(b) ==
  /\ pc[b] = "resolving"
  /\ IF setup.root \in Bot THEN Decide(b, setup.root)
     ELSE IF b \in setup.redis /\ key # NoBot THEN Decide(b, key)
     ELSE IF OwnerInView(b) = NoBot THEN Idle(b)
     ELSE /\ owner' = [owner EXCEPT ![b] = OwnerInView(b)]
          /\ Goto(b, "storing")
          /\ UNCHANGED <<cur, first>>
  /\ UNCHANGED <<thread, gone, todo, key, setup>> /\ NoFault

ResolveFails(b) ==
  /\ pc[b] = "resolving"
  /\ setup.root = Ceo /\ b \in setup.redis
  /\ Fault("get_error")
  /\ Idle(b)
  /\ UNCHANGED <<thread, gone, todo, key, setup>>

\* Mutant: the pod stores itself.
StoreSelf(b) ==
  /\ pc[b] = "storing"
  /\ key' = b
  /\ Decide(b, owner[b])
  /\ UNCHANGED <<thread, gone, todo, setup>> /\ NoFault

\* Mutant: the root's author is stored when nobody is known.
StoreRoot(b) ==
  /\ pc[b] = "storing"
  /\ key' = setup.root
  /\ Decide(b, owner[b])
  /\ UNCHANGED <<thread, gone, todo, setup>> /\ NoFault

\* SET, unconditionally; the error is ignored.  A pod without Redis has a store
\* that keeps nothing.
Store(b) ==
  /\ pc[b] = "storing"
  /\ \/ NoFault /\ key' = IF b \in setup.redis THEN owner[b] ELSE key
     \/ b \in setup.redis /\ Fault("set_error") /\ key' = key
  /\ Decide(b, owner[b])
  /\ UNCHANGED <<thread, gone, todo, setup>>

\* Mutant: a handoff keeps every mention the LLM wrote.
MayNameMany(b) == IF setup.handoff THEN SUBSET (Squad \ {b}) ELSE {{}}

\* enforceMultiagentMentionPolicy: nobody, or one other bot for a handoff.
MayName(b) ==
  {{}} \cup {{c} : c \in IF setup.handoff THEN Squad \ {b} ELSE {}}

\* postLLMReplyInThread: gate, LLM, post.  A notice about an LLM error is a
\* reply that names nobody.
Reply(b) ==
  /\ pc[b] = "replying"
  /\ GateAllows(b)
  /\ \E names \in MayName(b) :
       \/ NoFault /\ Appear(Message(b, names, FALSE, cur[b], FALSE))
       \/ Fault("cue") /\ Appear(Message(b, names, TRUE, cur[b], FALSE))
  /\ Idle(b)
  /\ UNCHANGED <<gone, key, setup>>

\* The gate is closed, or Slack refuses.
ReplyDropped(b) ==
  /\ pc[b] = "replying"
  /\ \/ ~GateAllows(b) /\ NoFault
     \/ GateAllows(b) /\ Fault("silent")
  /\ Idle(b)
  /\ UNCHANGED <<thread, gone, todo, key, setup>>

\* The event was acknowledged before it was handled.
Crash(b) ==
  /\ pc[b] # "idle"
  /\ Fault("crash")
  /\ Idle(b)
  /\ UNCHANGED <<thread, gone, todo, key, setup>>

Expire ==
  /\ key # NoBot
  /\ Fault("expire")
  /\ key' = NoBot
  /\ UNCHANGED <<thread, gone, todo, pc, cur, first, owner, setup>>

-----------------------------------------------------------------------------
Init ==
  /\ thread = <<>>
  /\ gone = {}
  /\ todo = [b \in Bot |-> {}]
  /\ pc = [b \in Bot |-> "idle"]
  /\ cur = [b \in Bot |-> 0]
  /\ first = [b \in Bot |-> NoReply]
  /\ owner = [b \in Bot |-> NoBot]
  /\ key = NoBot
  /\ faults = 0
  /\ seen = {}
  /\ setup \in Setups

Human ==
  \/ \E names \in SUBSET Squad, cue \in setup.cues : Say(names, cue)
  \/ \E m \in DOMAIN thread : Delete(m) \/ \E names \in SUBSET Squad : Edit(m, names)

\* One step of the pod's event loop; it takes its events in any order.
BotStep(b) ==
  \/ \E e \in todo[b] : \/ Acknowledge(b, e) \/ AcknowledgeDropped(b, e)
                        \/ Fetch(b, e) \/ FetchFails(b, e)
  \/ Resolve(b) \/ ResolveFails(b) \/ Store(b)
  \/ Reply(b) \/ ReplyDropped(b)

Next ==
  \/ Human
  \/ \E b \in Squad : BotStep(b) \/ Crash(b)
  \/ Expire

Spec == Init /\ [][Next]_vars

\* Slack delivers, and every call of the event loop returns.
FairSpec == Spec /\ \A b \in Bot : WF_vars(BotStep(b))
-----------------------------------------------------------------------------
(***************************************************************************)
(* Properties.                                                             *)
(***************************************************************************)
\* The variables stay in their types.
TypeOK ==
  /\ thread \in Seq([by : Bot \cup {Ceo}, names : SUBSET Bot, shown : SUBSET Bot,
                     cue : BOOLEAN, to : Nat, ack : BOOLEAN])
  /\ \A m \in DOMAIN thread : thread[m].to < m
  /\ gone \subseteq DOMAIN thread
  /\ todo \in [Bot -> SUBSET [of : DOMAIN thread, via : Source]]
  /\ pc \in [Bot -> {"idle", "resolving", "storing", "replying"}]
  /\ cur \in [Bot -> 0 .. Len(thread)]
  /\ \A b \in Bot : pc[b] # "idle" => cur[b] \in DOMAIN thread
  /\ first \in [Bot -> [at : 0 .. Len(thread), names : SUBSET Bot]]
  /\ owner \in [Bot -> Bot \cup {NoBot}]
  /\ key \in Bot \cup {NoBot}
  /\ faults \in Nat
  /\ seen \subseteq FaultKind
  /\ setup \in Setups

Answers(m) == {r \in DOMAIN thread : thread[r].to = m /\ ~thread[r].ack}
Answerers(m) == {thread[r].by : r \in Answers(m)}

\* The CEO has not rewritten the thread's history so far.
Unedited == seen \cap {"edit", "delete"} = {}

\* "if the CEO @mentions squad members, only those respond; otherwise only the
\* thread owner responds" (threads.go): one bot at most answers a message of
\* the CEO that names nobody, whichever pods have Redis, see a stale thread,
\* lose the key or fail to store it, as long as no reply is edited or deleted.
OneVoice ==
  Unedited =>
    \A m \in DOMAIN thread : FromCeo(m) =>
      IF thread[m].names # {} THEN Answerers(m) \subseteq thread[m].names
      ELSE \A a, b \in Answerers(m) : a = b

\* The owner of a thread with a human root: whom its first reply names alone.
FirstCeo == {m \in DOMAIN thread : FromCeo(m) /\ \A k \in 1 .. m - 1 : ~FromCeo(k)}
Named == {The(thread[m].names) : m \in FirstCeo} \ {NoBot}

\* What Redis and the pods hold about the owner of a thread is always the
\* first reply's choice, so an expired key or a lost SET is made good by any
\* later message and never by another bot.
OwnersAgree ==
  Unedited => /\ {key} \cup {owner[b] : b \in Bot} \subseteq Named \cup {NoBot}
              /\ \A b \in Bot : first[b].at # 0 =>
                   first[b].at \in FirstCeo /\ first[b].names = thread[first[b].at].names

\* "keeps cross-agent loops organic while bounded" (slack_format.go): a bot's
\* message in a thread draws at most one answer for every event it becomes, so
\* a chain of follow-ups never branches by itself.
ChainsDoNotBranch ==
  \A m \in DOMAIN thread : ~FromCeo(m) =>
    Cardinality(Answers(m)) <= IF setup.appMention THEN 2 ELSE 1

\* An acknowledgement is never answered nor acknowledged, so bots that repeat
\* a cue to each other can not keep each other going.
AcksEndThere == \A m \in DOMAIN thread : thread[m].to # 0 => ~thread[thread[m].to].ack

\* Who should answer message m of the CEO once the owner is settled.
Expected(m) ==
  IF thread[m].names # {} THEN thread[m].names
  ELSE IF setup.root \in Bot THEN {setup.root} ELSE Named

HasOwner == setup.root \in Bot \/ Named # {}

\* Without faults every message of the CEO in a thread that has an owner gets
\* an answer or an acknowledgement from each bot that should give one, unless
\* that bot's gate is closed.
CeoIsAnswered ==
  <>[](\/ seen # {} \/ ~HasOwner
       \/ \A m \in DOMAIN thread : FromCeo(m) =>
            \A b \in Expected(m) :
              ~GateAllows(b) \/ \E r \in DOMAIN thread : thread[r].to = m /\ thread[r].by = b)

\* "No CEO message in thread yet - bootstrap with this message" (threads.go):
\* a pod whose fetch does not show the first reply yet takes the owner from
\* the reply it is handling.
BootstrapFires ==
  [][\A b \in Bot :
       /\ pc[b] = "resolving" /\ pc'[b] # "resolving"
       /\ setup.root = Ceo /\ key = NoBot /\ seen \cup seen' = {"stale"}
       /\ first[b].at = 0 /\ cur[b] \in FirstCeo
       /\ thread[cur[b]].names = {b}
       => pc'[b] # "idle"]_vars
=============================================================================
