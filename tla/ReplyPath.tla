------------------------------ MODULE ReplyPath ------------------------------
(***************************************************************************)
(* How a pod replies: postLLMReplyWithResult, postLLMReplyInThread and     *)
(* postMultiagentReply share this path.  Under b.mu the LLM drafts, the    *)
(* quality gate has a draft rewritten once, the text is formatted and      *)
(* posted, and a lesson may be captured.  Several goroutines of a pod      *)
(* contend for b.mu; during a rollout two pods of one employee share the   *)
(* lessons.                                                                *)
(***************************************************************************)
EXTENDS ReplyText, LLMClient, RuntimeLessons

CONSTANTS
  Pod,
  Style,             \* ways of the LLM to put things
  Drafts, Rewrites,  \* style -> the texts it may draft, and rewrite drafts to
  Setups             \* the setups to start from

Source == {"plain", "availability", "kubernetes"}

FaultKind == {"gate",     \* the outbound gate is closed
              "post",     \* Slack refuses the post
              "redis",    \* a Redis command fails, or its answer is lost
              "crash"}    \* a pod dies

\* Who runs where and for how many messages, the client's settings, the LLM's
\* style, whether the post hands off, the lessons' settings, and the faults.
Setup == [pod : [Caller -> Pod], jobs : [Caller -> Nat], sources : SUBSET Source,
          client : Client, style : Style,
          handoffs : SUBSET BOOLEAN, known : [Lesson -> {0, 1}], apply : BOOLEAN,
          maxActive : Nat \ {0}, ttl : Nat \ {0}, horizon : Nat,
          kinds : SUBSET FaultKind, maxFaults : Nat]

ASSUME ReplyAssumption ==
  /\ Nobody \notin Caller \cup Pod
  /\ \A s \in Style : Drafts[s] \cup Rewrites[s] \subseteq Reply
  /\ Setups \subseteq Setup

VARIABLES
  pc,      \* caller -> where it is
  jobs,    \* caller -> messages still to come
  source,  \* caller -> what the message is about
  text,    \* caller -> the draft, later the text that passed the quality gate
  post,    \* caller -> what it posted
  loaded,  \* caller -> the lessons it loaded, with the new one
  mu,      \* pod -> the caller that holds b.mu
  writer,  \* lesson -> the pod that saved it last, looked at by LessonsKept only
  faults,
  setup

vars == <<clientVars, lessonVars, pc, jobs, source, text, post, loaded, mu, writer,
          faults, setup>>

Fault(kind) ==
  /\ kind \in setup.kinds
  /\ faults < setup.maxFaults
  /\ faults' = faults + 1

NoPost == [text |-> <<>>, handoff |-> FALSE]

Goto(c, where) == pc' = [pc EXCEPT ![c] = where]

Clear(C) ==
  /\ pc' = [c \in Caller |-> IF c \in C THEN "idle" ELSE pc[c]]
  /\ mu' = [p \in Pod |-> IF mu[p] \in C THEN Nobody ELSE mu[p]]
  /\ llm' = [c \in Caller |-> IF c \in C THEN NoCall ELSE llm[c]]
  /\ held' = [c \in Caller |-> IF c \in C THEN 0 ELSE held[c]]
  /\ source' = [c \in Caller |-> IF c \in C THEN "plain" ELSE source[c]]
  /\ text' = [c \in Caller |-> IF c \in C THEN <<>> ELSE text[c]]
  /\ post' = [c \in Caller |-> IF c \in C THEN NoPost ELSE post[c]]
  /\ loaded' = [c \in Caller |-> IF c \in C THEN NoLessons ELSE loaded[c]]

\* Every way out unlocks b.mu.
Leave(c) == Clear({c})
-----------------------------------------------------------------------------
(***************************************************************************)
(* Drafting.                                                               *)
(***************************************************************************)
Take(c) ==
  /\ pc[c] = "idle" /\ jobs[c] > 0
  /\ jobs' = [jobs EXCEPT ![c] = @ - 1]
  /\ source' \in {[source EXCEPT ![c] = s] : s \in setup.sources}
  /\ Goto(c, "locking")
  /\ UNCHANGED <<clientVars, lessonVars, text, post, loaded, mu, writer, faults, setup>>

\* The gate is looked at and the payload built; its calls to Slack and Redis
\* only read, and a payload without them serves as well.
Lock(c) ==
  /\ pc[c] = "locking" /\ mu[setup.pod[c]] = Nobody
  /\ mu' = [mu EXCEPT ![setup.pod[c]] = c]
  /\ Call(c, setup.client) /\ UNCHANGED held
  /\ Goto(c, "drafting")
  /\ UNCHANGED <<lessonVars, jobs, source, text, post, loaded, writer, faults, setup>>

GateClosed(c) ==
  /\ pc[c] = "locking" /\ mu[setup.pod[c]] = Nobody
  /\ Fault("gate")
  /\ Leave(c)
  /\ UNCHANGED <<lessonVars, jobs, writer, setup>>

WaitForModel(c) ==
  /\ ClientStep(c, setup.client)
  /\ UNCHANGED <<lessonVars, pc, jobs, source, text, post, loaded, mu, writer, faults, setup>>

Returned(c, where) == pc[c] = where /\ llm[c].at = "done"

\* An empty reply becomes a placeholder before the quality gate sees it.
Drafted(c) ==
  /\ Returned(c, "drafting") /\ llm[c].err = "none"
  /\ \E draft \in Drafts[setup.style] :
       LET reply == IF draft = <<>> THEN Dots ELSE draft IN
       /\ text' = [text EXCEPT ![c] = reply]
       /\ IF NeedsRepair(reply) THEN Goto(c, "rewriting") /\ Call(c, setup.client)
          ELSE Goto(c, "posting") /\ UNCHANGED llm
  /\ UNCHANGED <<held, lessonVars, jobs, source, post, loaded, mu, writer, faults, setup>>

\* repairOutboundReply: one rewrite, and what is wrong with it is mended.
Rewritten(draft, fixed) ==
  IF fixed = <<>> THEN Complete(draft)
  ELSE IF NeedsRepair(fixed) THEN Complete(fixed) ELSE fixed

Rewrite(c) ==
  /\ Returned(c, "rewriting")
  /\ text' \in {[text EXCEPT ![c] = t] :
       t \in IF llm[c].err = "none"
             THEN {Rewritten(text[c], fixed) : fixed \in Rewrites[setup.style]}
             ELSE {Complete(text[c])}}
  /\ Goto(c, "posting")
  /\ UNCHANGED <<clientVars, lessonVars, jobs, source, post, loaded, mu, writer, faults, setup>>

\* Mutant: the way out after an error forgets the lock.
NoticeLocked(c) ==
  /\ Returned(c, "drafting") /\ llm[c].err # "none"
  /\ \/ UNCHANGED faults
     \/ Fault("post")
  /\ Goto(c, "idle")
  /\ UNCHANGED <<clientVars, lessonVars, jobs, source, text, post, loaded, mu, writer, setup>>

\* An error is reported in the channel, or the report fails; no lesson follows.
Notice(c) ==
  /\ Returned(c, "drafting") /\ llm[c].err # "none"
  /\ \/ UNCHANGED faults
     \/ Fault("post")
  /\ Leave(c)
  /\ UNCHANGED <<lessonVars, jobs, writer, setup>>
-----------------------------------------------------------------------------
(***************************************************************************)
(* Posting, and the lesson.                                                *)
(***************************************************************************)
Post(c) ==
  /\ pc[c] = "posting"
  /\ \E handoff \in setup.handoffs :
       \E t \in Final(text[c], handoff) :
         post' = [post EXCEPT ![c] = [text |-> t, handoff |-> handoff]]
  /\ Goto(c, "recording")
  /\ UNCHANGED <<clientVars, lessonVars, jobs, source, text, loaded, mu, writer, faults, setup>>

PostFails(c) ==
  /\ pc[c] = "posting"
  /\ Fault("post")
  /\ Leave(c)
  /\ UNCHANGED <<lessonVars, jobs, writer, setup>>

\* deriveLesson: from the posted text, else from the message.
Lessons(about, reply) ==
  IF reply # <<>> /\ reply[1].is = "ack" THEN {1}
  ELSE IF about = "availability" THEN {2}
  ELSE IF about = "kubernetes" /\ Has(reply, "blocked") THEN {3} ELSE {}

LessonOf(c) == Lessons(source[c], post[c].text)

\* Capture appends the event, and goes on if there is a lesson to apply.
AppendEvent(c) ==
  /\ pc[c] = "recording"
  /\ IF setup.apply /\ LessonOf(c) # {}
     THEN Goto(c, "loading") /\ UNCHANGED <<clientVars, source, text, post, loaded, mu>>
     ELSE Leave(c)
  /\ UNCHANGED <<lessonVars, jobs, writer, faults, setup>>

\* The list to save; the lesson may be cut off at once.
Learned(c) == {Upsert(Fresh(stored, setup.ttl), l, setup.maxActive) : l \in LessonOf(c)}

\* Mutant: b.mu is released before the lessons are saved.
LoadLessonsUnlocked(c) ==
  /\ pc[c] = "loading"
  /\ loaded' \in {[loaded EXCEPT ![c] = list] : list \in Learned(c)}
  /\ Goto(c, "saving")
  /\ mu' = [mu EXCEPT ![setup.pod[c]] = Nobody]
  /\ UNCHANGED <<clientVars, lessonVars, jobs, source, text, post, writer, faults, setup>>

LoadLessons(c) ==
  /\ pc[c] = "loading"
  /\ loaded' \in {[loaded EXCEPT ![c] = list] : list \in Learned(c)}
  /\ Goto(c, "saving")
  /\ UNCHANGED <<clientVars, lessonVars, jobs, source, text, post, mu, writer, faults, setup>>

\* The whole list is saved; a failed save may have worked.
SaveLessons(c) ==
  /\ pc[c] = "saving"
  /\ \/ /\ SaveList(loaded[c], setup.ttl)
        /\ writer' = [l \in Lesson |-> IF loaded[c][l] # 0 THEN setup.pod[c] ELSE writer[l]]
        /\ UNCHANGED faults \/ Fault("redis")
     \/ Fault("redis") /\ UNCHANGED <<stored, expiry, writer>>
  /\ Leave(c)
  /\ UNCHANGED <<now, jobs, setup>>

\* The event can not be appended, or the list not be loaded.
CaptureFails(c) ==
  /\ pc[c] \in {"recording", "loading"}
  /\ Fault("redis")
  /\ Leave(c)
  /\ UNCHANGED <<lessonVars, jobs, writer, setup>>

Crash(p) ==
  /\ \E c \in Caller : setup.pod[c] = p /\ pc[c] # "idle"
  /\ Fault("crash")
  /\ Clear({c \in Caller : setup.pod[c] = p})
  /\ UNCHANGED <<lessonVars, jobs, writer, setup>>

Time ==
  /\ Tick(setup.horizon)
  /\ UNCHANGED <<clientVars, pc, jobs, source, text, post, loaded, mu, writer, faults, setup>>
-----------------------------------------------------------------------------
Init ==
  /\ llm = [c \in Caller |-> NoCall] /\ held = [c \in Caller |-> 0]
  /\ now = 1
  /\ pc = [c \in Caller |-> "idle"] /\ source = [c \in Caller |-> "plain"]
  /\ text = [c \in Caller |-> <<>>] /\ post = [c \in Caller |-> NoPost]
  /\ loaded = [c \in Caller |-> NoLessons]
  /\ mu = [p \in Pod |-> Nobody]
  /\ writer = [l \in Lesson |-> Nobody]
  /\ faults = 0
  /\ setup \in Setups
  /\ jobs = setup.jobs
  /\ stored = setup.known
  /\ expiry = IF setup.known = NoLessons THEN 0 ELSE now + setup.ttl

CallerStep(c) ==
  \/ Lock(c) \/ GateClosed(c) \/ WaitForModel(c)
  \/ Drafted(c) \/ Rewrite(c) \/ Notice(c)
  \/ Post(c) \/ PostFails(c)
  \/ AppendEvent(c) \/ LoadLessons(c) \/ SaveLessons(c) \/ CaptureFails(c)

Next ==
  \/ \E c \in Caller : Take(c) \/ CallerStep(c)
  \/ \E p \in Pod : Crash(p)
  \/ Time

Spec == Init /\ [][Next]_vars

\* Every goroutine goes on: its LLM calls are bounded by deadlines, and a mutex
\* that becomes free goes to somebody who waits.  Slack's and Redis's calls under
\* b.mu run on the root context; that they return is assumed.
FairSpec == Spec /\ \A c \in Caller : WF_vars(CallerStep(c))
-----------------------------------------------------------------------------
(***************************************************************************)
(* Properties.                                                             *)
(***************************************************************************)
\* The variables stay in their types.
TypeOK ==
  /\ setup \in Setups
  /\ pc \in [Caller -> {"idle", "locking", "drafting", "rewriting", "posting", "recording",
                        "loading", "saving"}]
  /\ jobs \in [Caller -> Nat] /\ source \in [Caller -> Source]
  /\ text \in [Caller -> Text]
  /\ post \in [Caller -> [text : Text, handoff : BOOLEAN]]
  /\ loaded \in [Caller -> [Lesson -> 0 .. now]] /\ stored \in [Lesson -> 0 .. now]
  /\ now \in Nat /\ expiry \in Nat /\ faults \in Nat
  /\ held \in [Caller -> Nat]
  /\ llm \in [Caller -> [at : {"off", "attempt", "backoff", "fallback", "done"}, attempt : Nat,
                         left : Nat, wait : Nat, err : Outcome \cup {"none"}, fell : BOOLEAN]]
  /\ writer \in [Lesson -> Pod \cup {Nobody}] /\ mu \in [Pod -> Caller \cup {Nobody}]

\* b.mu belongs to the one caller of its pod that is beyond it, from the look at
\* the gate to the saved lesson.
MuExclusive ==
  \A p \in Pod : {c \in Caller : setup.pod[c] = p /\ pc[c] \notin {"idle", "locking"}}
                 = {mu[p]} \ {Nobody}

\* "so provider stalls cannot block Slack event handling indefinitely"
\* (README): with every retry, backoff, fallback and rewrite, b.mu is held for
\* two calls of Reply at most, each its deadline and the fallback's.
MuHeldAtMost == \A c \in Caller : held[c] <= 2 * Longest(setup.client)

\* "one slow upstream response does not consume the full budget" (README): a
\* provider that stalls or is overloaded leads to the fallback, as long as the
\* deadline has room for a minimal slice and the longest backoff per attempt.
FallbackFollows ==
  \A c \in Caller :
    LET client == setup.client
        attempts == 1 + client.retries
        longest == AtMost(client.backoff * 2 ^ client.retries, MaxBackoff)
    IN  /\ llm[c].at = "done" /\ Eligible(llm[c].err)
        /\ client.fallback > 0 /\ attempts <= 3
        /\ client.budget > attempts * (MinSlice + longest)
        => llm[c].fell

\* "prompt/rule artifact leakage" (README): a line that opens with an internal
\* label is posted only where the approved text hid the label behind a heading's
\* signs, a link's bracket or a mention, which may be taken away after the gate.
OnlyHiddenLabels == \A c \in Caller : Labelled(post[c].text) => HidesLabel(text[c])

\* "Never-sliced": a post ends in an open sentence only where lines were cut
\* off, or where the mention or link at its end was taken away after the gate;
\* a hand-off never does.
NeverSliced ==
  \A c \in Caller :
    Ends(post[c].text, "tail") =>
      /\ ~post[c].handoff
      /\ Ends(text[c], "ping") \/ Ends(text[c], "mark") \/ Lines(text[c]) > MaxLines

\* Who is mentioned: never oneself, and a text that fits and in which no
\* mention stands before a name that opens the sentence obeys the policy.
MentionsAsDecided ==
  \A c \in Caller :
    post[c] # NoPost =>
      /\ Self \notin PingedBy(post[c].text)
      /\ ~Exposes(text[c]) /\ Fits(text[c]) => Obeys(post[c].text, post[c].handoff)

\* The lessons that prompts show stay until they expire or better ones take
\* their place.  A save wipes out another lesson only if a second pod saved it
\* after this pod had loaded the list; within a pod b.mu prevents that.
LessonsKept ==
  [][\A l \in Shown(setup.maxActive, setup.ttl) \ Shown(setup.maxActive, setup.ttl)' :
       \/ now' # now
       \/ Cardinality(Better(stored', l)) = setup.maxActive
       \/ \E c \in Caller : /\ pc[c] = "saving" /\ pc'[c] = "idle"
                            /\ loaded[c][l] # stored[l] /\ writer[l] # setup.pod[c]]_vars

\* Nobody waits for b.mu for ever: every message is answered or dropped.
EveryoneServed == \A c \in Caller : pc[c] = "locking" ~> pc[c] = "idle"

\* "requireHandoff=true => exactly one other-agent mention in final text.
\* requireHandoff=false => no squad mentions in final text." (slack_format.go)
MentionPolicy ==
  \A c \in Caller : post[c] # NoPost => Obeys(post[c].text, post[c].handoff)
=============================================================================
