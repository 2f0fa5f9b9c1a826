# Verification of employee-factory

employee-factory runs a squad of Slack bots, one pod per bot ("employee"). The
pods share no coordinator: they meet in the Slack channel's history, in a few
Redis keys and in the events Slack delivers to each of them. This directory
models that interaction in TLA+, model-checks it with TLC and proves what
matters most with TLAPS.

1. [The system](#1-the-system)
2. [Plan](#2-plan)
3. [Modules and code](#3-modules-and-code)
4. [Runs, bounds and fairness](#4-runs-bounds-and-fairness)
5. [Proofs](#5-proofs)
6. [Where the code and its documentation part](#6-where-the-code-and-its-documentation-part)
7. [What is not modelled](#7-what-is-not-modelled)

## 1. The system

A pod is one process: a Socket Mode **event loop** that handles one event at a
time (`Bot.Run`, `handleEvent`), goroutines it starts, and the mutex `b.mu`,
which is held across an LLM call and the post that follows it. An event is
acknowledged before it is handled.

| Component | State | Operations | Interaction |
|---|---|---|---|
| Squad session (`multiagent.go`, `bot.go`) | channel history, `activeBroadcastByChannel`, per-session slot wait | dispatch, wait for a slot, reply, pass a slot over, answer a squad mention, run cap | pods see each other only through polled history; replies may mention a bot, which becomes an event there |
| General auto-reaction (`bot.go`, `general_auto_reply_lock.go`) | Redis claim key | winner claim, delayed failover claim, react, release | pods meet in the key |
| Outbound gate (`outbound_gate.go`) | times of recent posts | `allow`, `record`, `prune` | shared by the pod's goroutines under `b.mu` |
| Joanne e-mail (`joanne_email.go`) | pending draft per channel, requester and thread | request, draft, confirm, cancel, expire | drafting goroutines beside the event loop; Gmail |
| Advanced task router (`advanced_tooling_router.go`) | task session per channel, requester and task | seed, adopt, redirect, expire | in front of Joanne's tools and Ross ops |
| Thread ownership (`threads.go`, `threadstore/`) | Redis owner key per thread | fetch, resolve, store, answer, follow up | every pod resolves on its own |
| Availability router (`availability_router.go`, `router/`) | none | swallow and acknowledge a message with a cue | every pod decides alone; its acknowledgement is an event for the others |
| Runtime lessons (`lessons/`) | Redis list of lessons and events | capture, filter, upsert, save, prefix | load and save without a transaction, under `b.mu` of one pod only |
| LLM client (`llm/`) | none between calls | attempts, backoff, budgets, fallback | under `b.mu` |
| Outbound text (`outbound_repair.go`, `slack_format.go`) | none | quality gate, rewrite, formatting, mention policy, cap | between the LLM and the post |
| Ross ops tool (`ross_ops.go`) | none | classify, check, ask the proxy, answer | a goroutine per question; HTTP to the proxy |
| Ops proxy (`opsproxy/`) | none | status, metrics, logs, Redis and waitlist reads | a series of calls to Redis or Kubernetes while the data changes |
| Turn order, documents tool, e-mail parsing, configuration | none that survives a call | text in, text out | - |

What makes each correct, and what is hard about it:

* **Squad session** - turns in order, each at most once, nobody in between;
  every session ends; bot-to-bot follow-ups die out; the broadcast mark is
  balanced. Hard: the decision that a slot is ready is taken on a history
  snapshot, and `b.mu`, the LLM and Slack come after it; one summons can arrive
  as two events; one silent bot stalls the rest; follow-ups change the prefix
  the others wait for.
* **General auto-reaction** - one thumbs-up, and at least one. Hard: Redis is
  unreachable for some pods only, claims expire while a pod is blocked, a
  release is a GET and a DEL, replies of Redis and Slack get lost.
* **Outbound gate** - no window with too many posts. Hard: look-up and record
  are an LLM call apart.
* **Joanne e-mail** - the mail that leaves is the one that was confirmed, once,
  and never after it was canceled. Hard: drafts are stored by goroutines while
  the event loop confirms, cancels and calls Gmail; events are doubled;
  sessions and drafts expire.
* **Thread ownership** - all pods agree on a thread's owner, and one bot answers
  a message that names nobody. Hard: each pod resolves from its own fetch, the
  key expires, a failed store is ignored, some pods have no Redis, replies are
  edited and deleted, mentions arrive twice.
* **Availability router** - an acknowledgement ends the talk. Hard: every pod
  reads the other pods' acknowledgements as messages.
* **Runtime lessons** - captured lessons are kept, newest and surest first.
  Hard: read-modify-write of one list, with expiry in between.
* **LLM client** - attempts, waits and the fallback fit the caller's budget, and
  a stall leads to the fallback. Hard: the slices are rounded up and down, the
  fallback sometimes runs on a context of its own, two calls share one lock.
* **Outbound text** - internal labels are kept back, sentences are not sliced, the
  mention policy decides who is called; where the later steps break this is known. Hard: the steps undo each other, and one of
  them runs twice.
* **Ross ops and the proxy** - the guardrail holds whatever the LLM extracts, and
  a complete looking answer is complete. Hard: SCAN may repeat keys and return
  empty pages, keys change between SCAN, TYPE and the read, totals and lists
  are cut at different places.

`PROJECT.json` lists the hazards with their lines and the properties that would
catch them.

## 2. Plan

Done:

1. `TurnTaking` (abstract), `SquadSession` (detailed), refinement between them,
   safety, liveness and proofs.
2. `GeneralReaction`, with proofs of the exclusive claim.
3. `Outbox` (abstract), `JoanneEmail` (detailed: the task router, the drafting
   goroutines and the confirmation handler), refinement between them, with proofs.
4. `OutboundGate`, with proofs.
5. `ThreadTalk` - thread ownership, follow-ups and the availability router over
   several pods, with proofs.
6. `OpsProxy` and `RossOps` - the proxy's series of calls and the tool in front
   of it, with proofs.
7. `ReplyText`, `LLMClient`, `RuntimeLessons` and `ReplyPath`, which composes
   them: what one reply does under `b.mu`, with proofs.

Next, in this order:

8. `TurnOrder` - the shuffle, the winner hash and the context clipping as pure
   operators.
9. The presence-ack session as actions of its own beside `SquadSession`.
10. The documents tool behind the task router.

Every safety property and every action property of the passing runs has a
theorem; the modules to come need theirs.

## 3. Modules and code

`PROJECT.json` maps every definition to its lines. The modules `*Proofs` hold the
theorems about the module they are named after (`RossOpsProofs` those of `OpsProxy`
too, `ReplyPathProofs` those of the three modules it composes); `Counting` the
lemmas on natural numbers and the sizes of finite sets that they share. Operators introduced by a
`Mutant:` comment are deliberately wrong variants of the definition after them,
kept to show that a property would notice that bug; no specification uses them.

### SquadSession, TurnTaking

One summons to the squad. `chat` is the part of the channel history that
`squadMessagesInChannelAfter` returns, `lastHuman` what
`countSquadMessagesInRun` needs of the human messages. A *session* is a bot and
the kind of event that started it: an explicit multi-mention starts one per
event kind.

| Action | Code |
|---|---|
| `Receive`, `Begin` | `onMessage`/`onAppMention` dispatch; the goroutine, `beginBroadcast`, first own slot |
| `PollReady`, `PollAgain`, `Elapse`, `WaitTimeout`, `HistoryError` | `waitUntilSlot` and `evaluateMultiagentSlotState`: exact prefix, degraded start after the soft deadline, stall and mismatch counters, hard deadline, failed history call |
| `Acquire`, `PostSlot`, `SkipSlot` | `postMultiagentReply`: `b.mu`, LLM, post; or suppressed, rate limited, refused |
| `Ping` | the human mentions one bot |
| `HandleMention`, `RunCountError`, `LoopAcquire`, `PostReply`, `SkipReply` | `trySquadBotMentionTrigger` (broadcast mark, run cap) or `onAppMention`, then `postLLMReply` |
| `Crash` | the pod restarts: everything in memory is gone, what is in the channel stays |

Data abstracted: texts, order hashes, handoff sampling (any mention the policy
permits), poll clock (fresh, past the soft, past the hard deadline). The two
poll counters saturate at their limits.

`TurnTaking` is what a session promises: the channel hears the turns in order,
each at most once. The refinement maps `said` to the authors of `chat`.

### GeneralReaction

One plain message; `locked` are the pods with a Redis URL, `seen` the kinds of
fault so far. `key` is the Redis claim, `status` what `TryClaim` returned.
`Receive`, `DelayOver`, `Claim`, `ClaimError`, `ClaimWithoutLock`, `React`,
`ReactFails`, `ReleaseGet` and `ReleaseDel` follow
`dispatchGeneralAutoReaction`, `tryGeneralAutoReplyFailover`, `TryClaim`,
`postReactionWithResult` and `ReleaseIfOwned`. `ClaimAgain` and `ReleaseAgain`
are external: the Redis client repeats a command whose reply it lost. Delays
have no upper bound, because delivery, `b.mu` and the event loop give none.

### OutboundGate

`times` is the gate's slice, `posts` what the channel shows. `Lock`, `Check`,
`Post`, `PostFails` and `Record` are the common shape of `postMultiagentReply`,
`postLLMReplyWithResult`, `postPresenceAck` and `postReactionWithResult`. Ticks
fall between any two steps.

### JoanneEmail, Outbox

One requester in one channel, in one of several setups (router mode, seeding,
doubled events). `session` is the router's task session, `pending`
the pending draft of each thread, `drafts` the drafting goroutines, `busy` the
Gmail call that blocks the event loop. `HandleRequest`, `HandleConfirm` and
`HandleCancel` run `decideAdvancedTaskRouting` and then the tool. Where nothing is
pending, a confirmation or a cancellation goes on to the extraction like any other
text (`NothingPending`): usually nothing matches, and sometimes the LLM takes it for
a request (the fault "misread"); the router, asked a second time, decides the same.
`DraftStored` and `Prompt` are the last two steps of `handleJoanneSendEmail`,
kept apart because the code does them in that order without a lock.
`said[m].saw` is a history record: the summaries on display in the place where
message `m` was written.

`InTaskThread` says what enforcement gives: *while a task session is active* no
draft is started and no mail leaves outside its thread. It gives no more. Once the
session has expired, the next message in any thread adopts that thread
(`advanced_tooling_router.go:105-114`), so a confirmation in a thread left behind
makes it the task thread again and sends the draft it still holds.

`Outbox` is what the tool promises about each draft: it is written, may wait for
its confirmation, and ends canceled or done, for good; a mail is a draft that was
waiting, and ends it unless Gmail's answer was lost. The refinement maps a
draft's `fate` to `canceled`, `drafts`, `pending` and `busy`, so one step of the
code may be several things at once: storing a draft overtakes the one before it,
and a send that succeeds may delete a newer draft along with its own.

### ThreadTalk

One thread, its messages in Slack's order. `todo` are the events a pod has not
handled; it handles them one at a time in any order. `Setups` fixes who wrote
the root, which pods have Redis and enforce the router, and the faults.

| Action | Code |
|---|---|
| `Say`, `Edit`, `Delete` | the CEO; every pod ignores `message_changed` and `message_deleted` |
| `Acknowledge`, `AcknowledgeDropped` | `applyAvailabilityRouter` and `postAvailabilityRouterAck` |
| `Fetch`, `FetchFails` | `handleThreadMessage` up to `conversations.replies` |
| `Resolve`, `ResolveFails`, `Store` | `resolveThreadOwner`: root author, Redis, the CEO's first reply; then SET |
| `Reply`, `ReplyDropped` | `postLLMReplyInThread` under the gate, with the mention policy |
| `Expire`, `Crash` | the key's TTL; a pod dies while it handles an event |

What the model shows about the code besides its properties: without an owner
nobody answers, not even a bot that is named; a failed GET makes the pod drop
the message; a mention that arrives as `message` and as `app_mention` is
answered twice (hence the bound 2 in `ChainsDoNotBranch`); each pod posts its
own acknowledgement, and a bot's reply that happens to hold a cue draws one from
every enforcing pod. The router's second phase, before the LLM call, sees the
text that passed the first and never fires in a thread.
`threadTranscriptBefore` feeds the prompt only and is left out.

### OpsProxy, RossOps

One request at a time: requests share nothing but the data, and the data moves
on its own (`SignUp`, `Reschedule`, `Scale`) for the keys, pods and nodes a setup
calls moving. `Serve` is the handler up to its first call, `Scan`, `ReadType`,
`ReadValue`, `ReadFails` the Redis loop, `List*`, `Get*`, `PodsOf`, `Usage`,
`Stream` the Kubernetes calls, `CallFails` the error exits. SCAN is external: it
returns any keys in any pages and promises only the keys that stay.

`RossOps` extends it with one message of the channel: `Understand` is
`tryHandleRossOps` with `resolveRossOpsAction` and the keyword parser, `Ask`,
`Refuse`, `GiveUp`, `Hear`, `Deliver`, `Lose` are `handleRossOps`, its goroutine and
`recover`. Rows are counted per address; the code's limits (100 rows of
the waitlist) become 2 and 3; one node is one unit of capacity and one pod one
unit of requests. Two things a reader of the code may want to know: Ross
compares namespaces without regard to case, the proxy exactly; the keyword
parser's default prefix `thread_owner:` is not the prefix the thread store
writes (`employee-factory:thread_owner:`). A duplicate address takes the time of
the key that was read first, and `LatestIsNewest` says so.

### ReplyText, LLMClient, RuntimeLessons, ReplyPath

`ReplyText` treats a draft as a sequence of tokens (mention, name, comma, open
end, label, line break, ...) and the code's string functions as operators on them:
`NeedsRepair`, `Complete`, `Normalize`, `Enforce`, `Cap`. As in the code, a label
counts for the gate where it opens a line (`Labelled`), and formatting takes away
what may stand in front of it: the signs of a heading and the brackets of a link
(`NoMarks`), mentions (`NoSelfPings`, `NoPings`). `Cap` first cuts the lines beyond
`MaxLines`, and only a text that is still too long is cut at the end of a sentence
or given a full stop. Labels end in a colon; rule slugs, bracketed assignments and
the speaker prefixes, which formatting strips at the openings of lines, are left
out; the wording variants of a hand-off are one. `Without`, which drops tokens and
the lines they leave empty, is a recursive function over texts, so that it can be
reasoned about as well as run.
`LLMClient` is `EmployeeLLM.Reply` on a clock in seconds per caller: `Attempt`,
`Backoff`, `Fallback`. `RuntimeLessons` is the stored list as a function from the
three lessons that `deriveLesson` knows to the time of their last update.

`ReplyPath` composes them: `Take` and `Lock`, the LLM (`WaitForModel`, `Drafted`,
`Rewrite`), `Post` with `Final`, and `AppendEvent`, `LoadLessons`, `SaveLessons` of
`Capture`, all under `b.mu`; `GateClosed`, `Notice`, `PostFails`, `CaptureFails` and
`Crash` are the ways out. `held` counts the time a caller waits for models; the
Slack calls under `b.mu` have no bound in the code and are not counted. A save
and the load before it use the same `now`, as `Capture` does. Lessons are only
ever lost to a second pod of the same employee: within one pod `b.mu` orders the
captures. `writer`, the pod that saved a lesson last, is a history variable that
only `LessonsKept` reads. It is the pod that *saved* last and not the one that
updated last: with three pods, a lesson that one of them drops may come back with
the old list of another, and be dropped again.

`ReplyPath` shows where the mention policy holds (`MentionsAsDecided`) and where
not (`ReplyMentions`); `SquadSession` and `ThreadTalk` assume that it holds.

## 4. Runs, bounds and fairness

All configurations disable the deadlock test: every modelled protocol is finite
and stops when it is done.

| Run | Shows | Bounds and why they suffice |
|---|---|---|
| `SquadStrict` | types, `TurnInv`, refinement of `TurnTaking` | 3 bots, 2 rounds (a bot has a second slot, and a bot that comes back meets two others), 2 faults |
| `SquadFair` | `OncePerSlot`, `FollowupsBounded`, `ActiveBalanced`, `EveryoneReplies`, `SessionsEnd` | 2 bots (mutual mentions, the ping-pong case), one with degraded start and one without, a human mention that may be answered before the first slot, so the prefix is disturbed: stall, mismatch and deadline exits are all taken; run cap 2 (reached), 1 fault |
| `React` | `ClaimsExclusive`, `ReactionsBudget`, `SomeoneReacts` | 3 pods (the winner and two failovers, so a claim given back can be fought over), every assignment of locks to pods, all fault kinds, 2 of them |
| `Email` | types, `SentOncePerAnswer`, `InTaskThread`, `DraftsStay`, refinement of `Outbox` | three setups: router off, doubled events, 3 messages (request, confirm or cancel, one more), 2 faults of any kind but misreading; the same with words taken for requests and lost answers of Gmail; router enforcing, 5 messages (seed, request in the thread, a second seed after expiry, request, confirm), 1 fault. 6,447,173 states, the largest run |
| `GateWindow` | `WindowLimit`, `GateBounded` | 3 symmetric callers, window 2, 2 posts, 7 ticks: more than three windows, and one lost answer |
| `Threads` | types, `OneVoice`, `OwnersAgree`, `ChainsDoNotBranch`, `AcksEndThere`, `CeoIsAnswered` | three setups: a thread under a human (2 bots, one with Redis, both enforcing the router, 2 messages, so an owner can be known, lost and found again, any one fault); under a bot with doubled mentions and hand-offs; 3 bots that call each other. The gate lets each bot post twice (once with 3 bots), which ends every chain |
| `Ops` | types, `NothingLeftOut`, `NoMailTwice`, `KubeTellsAll`, `WaitlistGuarded`, `LatestIsNewest`, `EveryQuestionAnswered` | 4 keys under 3 prefixes, 2 addresses, 2 nodes, 2 pods, limits below and above what there is, 2 SCAN pages per prefix (one may be empty, one may repeat), every extraction that could break the guardrail, one fault |
| `Reply` | types, `MuExclusive`, `MuHeldAtMost`, `FallbackFollows`, `OnlyHiddenLabels`, `NeverSliced`, `MentionsAsDecided`, `LessonsKept`, `EveryoneServed` | four families of setups: timing, with the code's slices (4 s, 15 s, backoff up to 8 s) and four-way outcomes for (budget, retries, backoff, fallback) = (19,2,1,3), (26,1,8,2), (5,2,1,0), and a provider that is down with (37,2,8,1), the shortest deadline that has room for two retries with the longest backoff; contention of two goroutines with every fault; every draft of up to 3 tokens out of 13 (`MaxLines` 2, `MaxLen` 5), drafts of 6 tokens past the cap or of 3 lines and more, and rewrites that hide a label; lessons of two pods with a TTL of one tick and room for 1 or 2 |

**Fairness.** `SquadSession!FairSpec` assumes that Slack delivers events,
goroutines and timers run, LLM calls return (each has a context deadline), Slack's
calls return, and that a Go mutex is not starved: strong fairness on
`Acquire` and `LoopAcquire`, because `b.mu` is free again and again, which
`sync.Mutex`'s starvation mode turns into progress; weak fairness on the rest.
No fault is fair. `ThreadTalk` assumes weak fairness of each pod's event loop,
`RossOps` of Ross's goroutine and of the proxy (a SCAN of a finite key space
ends: `MaxPages`), `ReplyPath` of each goroutine: its LLM calls have deadlines, its
messages are finitely many, and a mutex that becomes free goes to somebody who
waits. The calls to Slack and Redis under `b.mu` run on the root context
(`bot.go:841`, `845`, `886`, `multiagent.go:756`) and have no deadline: that they
return is an assumption about the environment, in `SquadSession` and `ReplyPath`. `GeneralReaction!FairSpec` assumes that a pod which can take
a step takes one; `SomeoneReacts` excuses runs in which a pod crashed, a
reaction was refused or the reply to a claim was lost. `EveryoneReplies` and
`CeoIsAnswered` speak of runs without faults: a suppressed reply is meant to stay
silent. `EveryQuestionAnswered` excuses any fault: a refused post, a
panic, and a call of the proxy, Redis or Kubernetes that fails.

**Degraded start** is a setting of each pod, so `AllowDegraded` is a set of
bots. In the model a poll falls between the soft deadline (12 s) and the hard
one (300 s), so with degraded start the hard deadline is not reached; with the poll interval at 0.8 s the code's defaults guarantee it.

## 5. Proofs

The theorems of the modules `*Proofs` hold for every value of the constants that
satisfies the named assumptions (`SquadAssumption`, `ReactionAssumption`,
`EmailAssumption`, `GateAssumption`, `ThreadAssumption`, `ProxyAssumption` and
`RossAssumption`, `TextAssumption`, `ClientAssumption` and `ReplyAssumption`).

* **`SquadSessionProofs!TypeCorrect`** - `TypeOK` is inductive. The delicate part is that a session
  only ever waits for a slot that exists: `OwnSlotsFrom` is a subset of
  `SlotIndex`, and the wait is entered for one of its members.
* **`TurnOrder`, `ChannelInOrder`** - `Strict` describes the configuration in
  which only sessions write: no degraded start, no handoff, no human mention
  and no `app_mention` for the summons. There `InOrder` is not inductive: a
  session may be past its poll, waiting for `b.mu` or the LLM. `TurnInv` adds
  that such a session's slot is *still* the length of the channel. It is
  preserved by a post because two such sessions would be at the same slot, and
  a slot belongs to one bot, which has one session. Outside `Strict` the fact is
  false: a follow-up can slip in between a session's last poll and its post.
* **`Refinement`** - from `TurnInv`, a post is a `Speak` of `TurnTaking` and
  everything else a stutter.
* **`MarksBalance`** - a session carries its mark from `Begin` to the step by which
  it leaves, on every path, and a bot has at most one session in a broadcast, so
  the mark counts the running session exactly.
* **`NoSlotTwice`** - `OnceInv` says that a running session waits for a slot of its
  own bot, and that a slot in the channel is its author's and that session is
  past it. It needs one session per bot (`OneSessionEach`: a broadcast, or no
  `app_mention` events). Where an explicit multi-mention starts two sessions of one
  bot, the fact is false: both may find the same slot ready before either posts.
* **`ExclusiveClaims`** - `ClaimsExclusive` speaks of reactions; the
  strengthening `HoldersOwnKey` says that whoever acquired the claim and has
  reacted, may react or is about to delete the claim *is* the key's value. Then
  an acquisition, which needs a free key, finds no holder. Both speak of
  behaviours that have been `Reliable` so far (no expiry, no lost Slack answer,
  no repeated DEL); `SeenGrows` carries that back to every earlier state.
* **`GateNeverOverfull`** - `GateBounded` needs that the caller between look-up
  and record holds `b.mu` and has found a free place, and that pruning never
  lengthens the list.
* **`OwnerAgreement`, `OnlyOneVoice`** - from `VoiceInv`, which adds to the types
  that, while nobody edits or deletes, texts are shown as written, Redis and the
  pods know no other owner than the first reply's choice, and whoever is about
  to answer a message that names nobody is that owner. The first reply exists
  because any set of natural numbers that is not empty has a least element,
  taken from the well-foundedness theorems. A stale fetch shows either nothing
  or the same first reply, which is why pods agree without an exchange.
* **`AcksAreFinal`** - an acknowledgement is a bot's, names nobody and holds no
  cue, so it becomes an event in no pod and no event loop handles one
  (`AckInv`).
* **`MailTypesHold`, `TaskKeepsThread`, `CanceledForGood`, `NoDraftVanishes`** -
  from `MailInv`: the types, `Final` (a draft that is pending or canceled has
  been written and is never both, so a late goroutine can not bring a canceled
  draft back) and `InThread` (under enforcement and while a session is active, the
  draft on its way to Gmail was requested in that session's thread; the event loop
  is busy with it, so no other session can begin meanwhile).
* **`Guardrail`** - `GuardInv` follows the question through the goroutine: an
  action about a waitlist prompt has that operation, `Ask` passed the check of
  the author, and no answer is formed before. It holds for every extraction, as
  `Extract` has any operation and any fields.
* **`DistinctMails`** - rows are added only for addresses not listed yet, and from
  one key at a time.
* **`MutualExclusion`** - every way out of `ReplyPath` goes through `Clear`, which
  frees exactly the locks of the callers it resets.
* **`HoldBound`** - the strengthening `Accounted` says that while a call runs, the
  time held and the time left do not exceed what the calls before it and its
  own budget allow; the fallback adds its own budget once per call, and there
  are two calls per lock.

The theorems that follow count something, or follow data through several calls.

* **`NoWindowOverfull`** - `WindowInv`: in every part of the
  current window that ends now, the gate remembers as many posts as the channel
  shows, less those whose answer was lost and the one that is posted and not yet
  recorded. The limit alone is not inductive: what the gate forgot when it pruned
  must be too old to count.
* **`BudgetKept`** - `BudgetInv`: there is one ticket. It lies in Redis while the key
  is free, a claim hands it to a pod that has reacted or is about to, and that pod may
  carry it back; only a fault makes another. The winner needs none without a lock.
* **`RunsEnd`** - `RunInv`: a message that was answered was below the run cap, it was
  answered once, and an event that still waits is about a message without an answer.
  So every answered message of a run has a number of its own below the cap. The
  theorem, like the run, assumes that there are no `app_mention` events; with them
  the fact is false (section 6).
* **`NoBranching`** - `ChainInv`: for each bot that a bot's message names, the answers
  given, the events it has not handled and the one it handles are no more than the
  events the message became, one or two. A message of a bot names one bot at most.
* **`OnePerAnswer`** - `Played` and `Held`: a draft that can still be sent (written,
  pending or on its way) was sent only as often as answers of Gmail were lost; it
  leaves play with the first answer that arrives, and never comes back.
* **`MailsOutbox`** - the refinement of `Outbox`. `OutboxInv` adds to `MailInv` and
  `Held` that nothing is canceled while Gmail is asked to send it, because the event
  loop is inside that call. Each step is then followed draft by draft (`FateMoves`):
  what the event loop takes was pending, what becomes pending was being written, and
  only what is pending is canceled.
* **`NothingMissed`** - `WalkInv`: while the answer has room, every key that stays,
  of every prefix the walk has come to, is gathered, in the page at hand, or
  still promised by SCAN; when the walk ends there are neither pages nor promises.
  The key being read still has the type it was read by, unless it moves: this is
  where TYPE and the read are two calls.
* **`LatestOfAll`** - `TimesInv` (the rows of keys that stay carry those keys' times)
  and `PostInv` (a post with a time is made of the first row of a complete answer).
* **`ClusterTold`** - `KubeInv` says for each of the calls after which something is
  known about the nodes, the load and the pods that what was there all the time is
  counted, and that a list which leaves a node or pod out has its full length.
* **`RossOpsProofs!TypeCorrect`** - besides the types, that lists are within their limits
  and that the call under way fits the request.
* **`LabelsWereHidden`, `SentencesEnd`, `MentionsObey`** - `WordsInv` follows the text:
  beyond the quality gate no line of it opens with a label and it has no open end, and
  what is posted was made of it by `Final`. The rest is about operators, for texts of
  any length. For labels, `Shows(text, thin)` says that one opens a line but for
  tokens that are *thin*; with marks and mentions as thin tokens, every step up to the
  post (`FormattedSaid`, `CapSaid`, `EnforceSaid`) shows only labels that were shown before.
  For ends, the proofs follow the last token: what can come to stand at the end is
  what stood before a mention or a mark that was taken away, or at the end of the last
  line that is kept, and the text of a hand-off ends otherwise. The number of lines
  never grows, so the second formatting cuts none that the first has kept. An induction
  over a text is the choice of the smallest place (`Counting!Smallest`) where a
  fact fails.
* **`StallsFallBack`** - `FundInv`: what is left of the deadline at each attempt and
  each backoff. It assumes `SlicesCover`, which the code's constants satisfy without
  any margin: the longest backoff (8 s) is at most two minimal slices (4 s each). With
  9 s, TLC finds a deadline that passes during the second backoff, and the
  fallback is skipped. The room in the deadline is a condition of the property itself.
* **`LessonsStay`** - `UpToDate`: whoever is about to save a list has in it every
  lesson that is stored, not expired and not cut off, unless another pod saved
  that lesson meanwhile. Within a pod nobody else can: the list is loaded and saved
  inside `b.mu` (`HoldersInside`). That the cut keeps a lesson, or leaves a full list of
  better ones, is a fact about the cardinality of the better ones.
* **`ReplyPathProofs!TypeCorrect`** - `TypesInv`; that the final text is a text, whatever the
  draft, rests on the same lemmas.

Only model-checked is liveness under fairness, which is out of the prover's reach:
`EveryoneReplies`, `SessionsEnd`, `SomeoneReacts`, `CeoIsAnswered`,
`EveryQuestionAnswered`, `EveryoneServed`. The types of `GeneralReaction` and
`OutboundGate` are proved and not a property of a run; nor is `CancelIsFinal`, which
`Email` checks as a part of `KeepsOutbox`.

## 6. Where the code and its documentation part

Each is a run that checks one statement of the documentation and finds a
behaviour of the code that breaks it; `PROJECT.json` has the quotations. They use
the smallest instance in which the case arises.

| Run | What happens |
|---|---|
| `SquadPrior` | a later slot is generated without the earlier squad messages: the boundary clip looks for the human in a list of squad messages |
| `EmailUnseen` | a confirmation written for one summary sends the draft that replaced it |
| `ThreadBootstrap` | a pod whose fetch does not show the first reply yet drops that reply: the bootstrap branch (`threads.go:219-237`) never runs to its end |
| `ReplyMentions` | the second formatting (`bot.go:883`, `threads.go:375`, `multiagent.go:754`) makes a mention of an address that the mention policy exposed, and the length cap may cut the hand-off mention |

Further observations from reading and modelling, without a run:

* in a mixed summons the named bot answers the broadcast and its own mention
  (`bot.go:442`; README lines 28 and 30);
* a mention of a bot by a bot that also arrives as `app_mention` is answered by
  `onAppMention`, which does not test the run cap: with `AppMention` set, TLC finds
  a run in which `RunMax` messages are answered (`SquadFair` and `RunsEnd` leave it off;
  `config.go:88` calls the cap the maximum of a run);
* a slot may be posted on another prefix than the one it waited for
  (`multiagent.go:467`; README line 29);
* a winner that cannot reach Redis reacts without a claim while a failover
  acquires it (`bot.go:753`; README line 43);
* `log_only` of the task router swallows the request that seeds the thread
  (`advanced_tooling_router.go:66`; `.env.example` line 35);
* `normalizeAwkwardFirstPersonGrammar` (`slack_format.go:168-200`) turns "let me
  know" into "let I know", while `outbound_repair.go:14` flags sentence openings
  only;
* internal labels are looked for where a line opens, before formatting: "## Step 1:
  check the pods." and "@tim Current state: ..." pass the gate and are posted as
  "Step 1: ..." and "Current state: ..." (`slack_format.go:51`, `406`; README line 127
  lists artifact leakage among the defects). `OnlyHiddenLabels` says that nothing else
  leaks;
* the cut after four lines does not look at how the fourth ends, and a text that ends
  in a link or a mention may lose it after the gate: a five-line reply whose fourth
  line ends in "because" is posted with that end (`slack_format.go:225`; README line
  122, "Never-sliced"). `NeverSliced` says that nothing else slices a sentence;
* an empty reply becomes "..." before the quality gate and is posted as it is
  (README line 129);
* a deadline that passes during a backoff skips the fallback (`llm.go:87`, against
  the comment at `transient.go:43`);
* the last attempt, and any attempt with a tiny budget, may take all that is left
  of the deadline (README line 21).

## 7. What is not modelled

* **Turn order and selection** - the shuffle, the winner hash, recency weights and
  mention parsing are pure functions; their results are constants of
  `SquadSession` and `GeneralReaction`.
* **Documents tool, e-mail parsing, Gmail, structured extraction, Alex hints** -
  text in, text out around one external call; the calls' outcomes are choices in
  `JoanneEmail` and `RossOps`.
* **Configuration, start-up, deployment scripts** - no protocol; the settings that
  change behaviour are constants and setups.
* **Presentation, rethink and hostility cues** - layout and prompt text.
* **Ops proxy** - authentication, the 503 without Redis, masking and the cutting
  of logs; Ross's tool run twice for a doubled event.
* **Rates and sizes** - the 50 messages of a history poll, and the polls without a
  pause in the stalled, degraded case (`multiagent.go:627`).

Redis, Slack, Kubernetes and the LLM are external and modelled from how the code
calls them.
