---------------------------- MODULE JoanneEmail ----------------------------
(***************************************************************************)
(* Joanne's mail tool for one requester in one channel: the task-thread    *)
(* router, the drafting goroutines, the pending draft of each thread, and  *)
(* the confirmation that sends it through Gmail.                           *)
(*                                                                         *)
(* The event loop handles one event at a time and blocks in the Gmail      *)
(* call; drafting goroutines run beside it.  A message that mentions       *)
(* Joanne can reach her as a message and as an app_mention event, and both *)
(* handlers run the whole tool.                                            *)
(*                                                                         *)
(* Messages are numbered as they are written.  A thread is named by the    *)
(* top-level message it hangs off; 0 is the top level, and "none" for      *)
(* sessions and drafts.                                                    *)
(***************************************************************************)
EXTENDS Integers, Sequences, FiniteSets

CONSTANTS
  Setups,       \* the setups to start from
  MaxMessages   \* bound: messages the requester writes, in any setup

FaultKind == {"session_expires", \* the task session outlives its TTL
              "draft_expires",   \* a pending draft outlives its 20 minutes
              "misread",         \* a word on a draft is taken for a request
              "prompt_lost",     \* Slack refuses the confirmation summary
              "mail_refused",    \* Gmail fails and nothing is sent
              "mail_lost",       \* the mail is sent, Gmail's answer is lost
              "crash"}           \* the pod dies

\* A setup: ADVANCED_TOOLING_THREAD_ENFORCEMENT,
\* ADVANCED_TOOLING_SEED_THREAD_ON_TOPLEVEL, whether mentions also arrive as
\* app_mention events, and the bounds that go with it: how many messages are
\* written and how many faults of which kinds happen.
Setup == [mode : {"off", "log_only", "enforce"}, seed : BOOLEAN,
          appMention : BOOLEAN, messages : 0 .. MaxMessages,
          kinds : SUBSET FaultKind, maxFaults : Nat]

ASSUME EmailAssumption == MaxMessages \in Nat /\ Setups \subseteq Setup

VARIABLES
  said,     \* the requester's messages, in order
  inbox,    \* events not handled yet, oldest first, by message number
  session,  \* the task thread of the active session, 0 if none
  drafts,   \* one record per drafting goroutine, in starting order
  pending,  \* thread -> its pending draft, 0 if none
  busy,     \* the draft the event loop is sending, and on whose word
  sent,     \* mails that left, oldest first
  canceled, \* drafts canceled by the requester
  consumed, \* messages the router swallowed (kickoff or redirect posted)
  lost,     \* Gmail answers lost
  faults,   \* faults so far
  setup     \* the pod's configuration

vars == <<said, inbox, session, drafts, pending, busy, sent, canceled,
          consumed, lost, faults, setup>>

Mode == setup.mode
Seed == setup.seed
AppMention == setup.appMention

Place == 0 .. MaxMessages
Idle == [draft |-> 0, by |-> 0]

Fault(kind) ==
  /\ kind \in setup.kinds
  /\ faults < setup.maxFaults
  /\ faults' = faults + 1

-----------------------------------------------------------------------------
(***************************************************************************)
(* decideAdvancedTaskRouting: what becomes of message m written at t.      *)
(***************************************************************************)
Seeds(t) == Mode # "off" /\ t = 0 /\ session = 0 /\ Seed

\* Mutant: a message in another thread than the session's is let through.
OffThreadTopOnly(t) == Mode = "enforce" /\ session # 0 /\ t = 0

OffThread(t) == Mode = "enforce" /\ session # 0 /\ t # session

\* The event is consumed: a top-level message opens the task thread, any other
\* one is redirected to it.
Consume(m, t) ==
  /\ Seeds(t) \/ OffThread(t)
  /\ session' = IF Seeds(t) THEN m ELSE session
  /\ consumed' = consumed \cup {m}

\* The event is executed: the first message in a thread adopts that thread.
Execute(t) ==
  /\ ~Seeds(t) /\ ~OffThread(t)
  /\ session' = IF Mode # "off" /\ session = 0 THEN t ELSE session
  /\ UNCHANGED consumed

-----------------------------------------------------------------------------
(***************************************************************************)
(* The requester.                                                          *)
(***************************************************************************)
\* A request, a confirmation or a cancellation, at the top level or in a
\* thread.  "saw" records the summaries on display in that place.
Say(kind, t) ==
  /\ Len(said) < setup.messages
  /\ t = 0 \/ (t \in DOMAIN said /\ said[t].at = 0)
  /\ said' = Append(said, [kind |-> kind, at |-> t,
       saw |-> {d \in DOMAIN drafts : drafts[d].at = t /\ drafts[d].st = "shown"}])
  /\ \/ inbox' = Append(inbox, Len(said) + 1)
     \/ AppMention /\ inbox' = inbox \o <<Len(said) + 1, Len(said) + 1>>
  /\ UNCHANGED <<setup, session, drafts, pending, busy, sent, canceled, consumed,
                 lost, faults>>

(***************************************************************************)
(* The event loop.                                                         *)
(***************************************************************************)
Take(kind) ==
  /\ busy = Idle
  /\ inbox # <<>>
  /\ said[Head(inbox)].kind = kind
  /\ inbox' = Tail(inbox)

\* A drafting goroutine starts on message m.
Begin(m, t) == drafts' = Append(drafts, [of |-> m, at |-> t, st |-> "writing"])

\* A request starts a drafting goroutine unless the router consumes it.
HandleRequest ==
  /\ Take("request")
  /\ LET m == Head(inbox)  t == said[m].at IN
     \/ Consume(m, t) /\ UNCHANGED drafts
     \/ Execute(t) /\ Begin(m, t)
  /\ UNCHANGED <<setup, said, pending, busy, sent, canceled, lost, faults>>

\* A word on a draft where nothing is pending goes on to the extraction like any
\* text, and the LLM may take it for a request.  The router, asked again, lets
\* it through again.
NothingPending(m, t) ==
  /\ Execute(t) /\ pending[t] = 0
  /\ \/ UNCHANGED <<drafts, faults>>
     \/ Fault("misread") /\ Begin(m, t)

\* Mutant: the pending draft is reported canceled but not deleted.
HandleCancelOnlySays ==
  /\ Take("cancel")
  /\ LET m == Head(inbox)  t == said[m].at IN
     \/ Consume(m, t) /\ UNCHANGED <<drafts, canceled, faults>>
     \/ /\ Execute(t) /\ pending[t] # 0
        /\ canceled' = canceled \cup {pending[t]}
        /\ UNCHANGED <<drafts, faults>>
     \/ NothingPending(m, t) /\ UNCHANGED canceled
  /\ UNCHANGED <<setup, said, pending, busy, sent, lost>>

\* A cancellation deletes the thread's pending draft.
HandleCancel ==
  /\ Take("cancel")
  /\ LET m == Head(inbox)  t == said[m].at IN
     \/ Consume(m, t) /\ UNCHANGED <<drafts, pending, canceled, faults>>
     \/ /\ Execute(t) /\ pending[t] # 0
        /\ canceled' = canceled \cup {pending[t]}
        /\ pending' = [pending EXCEPT ![t] = 0]
        /\ UNCHANGED <<drafts, faults>>
     \/ NothingPending(m, t) /\ UNCHANGED <<pending, canceled>>
  /\ UNCHANGED <<setup, said, busy, sent, lost>>

\* A confirmation starts sending the thread's pending draft.
HandleConfirm ==
  /\ Take("confirm")
  /\ LET m == Head(inbox)  t == said[m].at IN
     \/ Consume(m, t) /\ UNCHANGED <<drafts, busy, faults>>
     \/ /\ Execute(t) /\ pending[t] # 0
        /\ busy' = [draft |-> pending[t], by |-> m]
        /\ UNCHANGED <<drafts, faults>>
     \/ NothingPending(m, t) /\ UNCHANGED busy
  /\ UNCHANGED <<setup, said, pending, sent, canceled, lost>>

\* Mutant: the channel's draft is cleared instead of the thread's.
ClearTop == pending' = [pending EXCEPT ![0] = 0]

\* Mutant: the draft stays pending after it was sent.
ClearNothing == UNCHANGED pending

\* clearJoannePendingEmail deletes whatever is pending in the thread now.
ClearPending == pending' = [pending EXCEPT ![said[busy.by].at] = 0]

SendSucceeds ==
  /\ busy # Idle
  /\ sent' = Append(sent, busy)
  /\ ClearPending
  /\ busy' = Idle
  /\ UNCHANGED <<setup, said, inbox, session, drafts, canceled, consumed, lost, faults>>

\* A failed send keeps the draft pending: "confirm send" retries it.
SendFails ==
  /\ busy # Idle
  /\ \/ Fault("mail_refused") /\ UNCHANGED <<sent, lost>>
     \/ Fault("mail_lost") /\ sent' = Append(sent, busy) /\ lost' = lost + 1
  /\ busy' = Idle
  /\ UNCHANGED <<setup, said, inbox, session, drafts, pending, canceled, consumed>>

(***************************************************************************)
(* A drafting goroutine: resolve and write (LLM, up to 45 s), store, then  *)
(* post the summary that asks for confirmation.                            *)
(***************************************************************************)
\* Something is missing or drafting fails: the goroutine asks for details and
\* ends.
DraftEnds(d) ==
  /\ drafts[d].st = "writing"
  /\ drafts' = [drafts EXCEPT ![d].st = "ended"]
  /\ UNCHANGED <<setup, said, inbox, session, pending, busy, sent, canceled, consumed,
                 lost, faults>>

\* Mutant: the draft is stored under the channel instead of its thread.
DraftStoredTop(d) ==
  /\ drafts[d].st = "writing"
  /\ drafts' = [drafts EXCEPT ![d].st = "stored"]
  /\ pending' = [pending EXCEPT ![0] = d]
  /\ UNCHANGED <<setup, said, inbox, session, busy, sent, canceled, consumed, lost,
                 faults>>

DraftStored(d) ==
  /\ drafts[d].st = "writing"
  /\ drafts' = [drafts EXCEPT ![d].st = "stored"]
  /\ pending' = [pending EXCEPT ![drafts[d].at] = d]
  /\ UNCHANGED <<setup, said, inbox, session, busy, sent, canceled, consumed, lost,
                 faults>>

Prompt(d) ==
  /\ drafts[d].st = "stored"
  /\ \/ drafts' = [drafts EXCEPT ![d].st = "shown"] /\ UNCHANGED faults
     \/ Fault("prompt_lost") /\ drafts' = [drafts EXCEPT ![d].st = "ended"]
  /\ UNCHANGED <<setup, said, inbox, session, pending, busy, sent, canceled, consumed,
                 lost>>

(***************************************************************************)
(* Time and failure.                                                       *)
(***************************************************************************)
\* The next look-up deletes an expired session or draft.
SessionExpires ==
  /\ session # 0
  /\ Fault("session_expires")
  /\ session' = 0
  /\ UNCHANGED <<setup, said, inbox, drafts, pending, busy, sent, canceled, consumed,
                 lost>>

DraftExpires(t) ==
  /\ pending[t] # 0
  /\ Fault("draft_expires")
  /\ pending' = [pending EXCEPT ![t] = 0]
  /\ UNCHANGED <<setup, said, inbox, session, drafts, busy, sent, canceled, consumed,
                 lost>>

\* Sessions, drafts and goroutines live in memory.  A send in progress may or
\* may not get through.
Crash ==
  /\ Fault("crash")
  /\ session' = 0
  /\ pending' = [t \in Place |-> 0]
  /\ drafts' = [d \in DOMAIN drafts |->
       IF drafts[d].st = "shown" THEN drafts[d] ELSE [drafts[d] EXCEPT !.st = "ended"]]
  /\ busy' = Idle
  /\ sent' = sent \/ (busy # Idle /\ sent' = Append(sent, busy))
  /\ UNCHANGED <<setup, said, inbox, canceled, consumed, lost>>

-----------------------------------------------------------------------------
Init ==
  /\ said = <<>>
  /\ inbox = <<>>
  /\ session = 0
  /\ drafts = <<>>
  /\ pending = [t \in Place |-> 0]
  /\ busy = Idle
  /\ sent = <<>>
  /\ canceled = {}
  /\ consumed = {}
  /\ lost = 0
  /\ faults = 0
  /\ setup \in Setups

EventLoop ==
  HandleRequest \/ HandleCancel \/ HandleConfirm \/ SendSucceeds \/ SendFails

Drafting(d) == DraftEnds(d) \/ DraftStored(d) \/ Prompt(d)

Next ==
  \/ \E kind \in {"request", "confirm", "cancel"}, t \in Place : Say(kind, t)
  \/ EventLoop
  \/ \E d \in DOMAIN drafts : Drafting(d)
  \/ SessionExpires
  \/ \E t \in Place : DraftExpires(t)
  \/ Crash

Spec == Init /\ [][Next]_vars
-----------------------------------------------------------------------------
(***************************************************************************)
(* Properties.                                                             *)
(***************************************************************************)
\* The variables stay in their types; pending drafts exist and sit in the
\* thread they were requested in.
TypeOK ==
  /\ said \in Seq([kind : {"request", "confirm", "cancel"}, at : Place,
                   saw : SUBSET Nat])
  /\ inbox \in Seq(DOMAIN said)
  /\ session \in Place
  /\ drafts \in Seq([of : DOMAIN said, at : Place,
                     st : {"writing", "stored", "shown", "ended"}])
  /\ pending \in [Place -> 0 .. Len(drafts)]
  /\ \A t \in Place : pending[t] # 0 => drafts[pending[t]].at = t
  /\ busy = Idle \/ (busy.draft \in DOMAIN drafts /\ busy.by \in DOMAIN said)
  /\ \A i \in DOMAIN sent : sent[i].draft \in DOMAIN drafts
  /\ canceled \subseteq DOMAIN drafts
  /\ consumed \subseteq DOMAIN said
  /\ lost \in Nat /\ faults \in Nat
  /\ setup \in Setups

Sends(d) == {i \in DOMAIN sent : sent[i].draft = d}

\* A retry never duplicates a mail by itself: a draft goes out a second time
\* only if Gmail's answer to an earlier send was lost, whatever repeated
\* confirmations, doubled events, new drafts and crashes happen.
SentOncePerAnswer == \A d \in DOMAIN drafts : Cardinality(Sends(d)) <= 1 + lost

\* "Stopped. I canceled that queued email." is final: a canceled draft is
\* never sent afterwards, however late its goroutine or a doubled event is.
CancelIsFinal == [][busy' # busy => busy'.draft \notin canceled]_vars

\* "continue all details/confirmations inside the seeded task thread" (README):
\* with enforcement and while a task session is active, no draft is started and
\* no mail leaves anywhere but in its thread, also when the session changed
\* between the confirmation and the mail.  Once it has expired, any thread may
\* take the task over with its next message, and send a draft it still holds.
InTaskThread ==
  [][Mode = "enforce" /\ session # 0 =>
       /\ \A d \in DOMAIN drafts' \ DOMAIN drafts : drafts'[d].at = session
       /\ \A i \in DOMAIN sent' \ DOMAIN sent : drafts[sent'[i].draft].at = session]_vars

\* "Joanne posts a short summary and requires explicit confirmation before
\* sending" (README): the confirmation that sends a mail was written when that
\* mail's summary was on display.
ConfirmedWhatWasShown ==
  \A i \in DOMAIN sent : sent[i].draft \in said[sent[i].by].saw

\* A pending draft goes away by being sent, canceled, expired, lost in a crash,
\* or because an earlier draft of the same thread went out while it was stored:
\* sending never touches what is pending in another thread, and nothing else
\* loses a draft.
DraftsStay ==
  [][\A t \in Place : pending[t] # 0 /\ pending'[t] = 0 =>
       \/ busy # Idle /\ busy' = Idle /\ said[busy.by].at = t
       \/ pending[t] \in canceled'
       \/ faults' # faults]_vars

\* What has become of a draft: canceled on the requester's word, still being
\* written, waiting in its thread or in the event loop's hands, or none of these
\* any more.
Fate(d) ==
  IF d \in canceled THEN "canceled"
  ELSE IF drafts[d].st = "writing" THEN "writing"
  ELSE IF d \in {busy.draft, pending[drafts[d].at]} THEN "waiting"
  ELSE "done"

\* The tool implements the abstract outbox.
Box == INSTANCE Outbox
         WITH fate <- [d \in DOMAIN drafts |-> Fate(d)],
              out <- [i \in DOMAIN sent |-> sent[i].draft]

\* Whatever is confirmed, repeated, superseded, expired or crashed, each draft
\* goes its way once: nothing is sent that was not waiting, nothing canceled or
\* done comes back, and an answered send ends the draft it sent.
KeepsOutbox == Box!Spec
=============================================================================
