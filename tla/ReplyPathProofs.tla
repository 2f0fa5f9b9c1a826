--------------------------- MODULE ReplyPathProofs ---------------------------
(***************************************************************************)
(* The reply path for every number of pods and goroutines, every deadline, *)
(* number of retries and backoff, and whatever is drafted: b.mu excludes   *)
(* the goroutines of a pod from each other and is held for two calls of    *)
(* the LLM client at most, what is posted keeps to the rules of labels,    *)
(* sentences and mentions, a stall leads to the fallback, and lessons are  *)
(* lost to time, better lessons and other pods only.                       *)
(***************************************************************************)
EXTENDS ReplyPath, Counting, SequenceTheorems

USE ReplyAssumption, ClientAssumption

Places == {"idle", "locking", "drafting", "rewriting", "posting", "recording", "loading",
           "saving"}
CallTypes == [at : {"off", "attempt", "backoff", "fallback", "done"}, attempt : Nat,
              left : Nat, wait : Nat, err : Outcome \cup {"none"}, fell : BOOLEAN]

\* The part of the types that the arguments need.
Types ==
  /\ setup \in Setups
  /\ pc \in [Caller -> Places]
  /\ mu \in [Pod -> Caller \cup {Nobody}]
  /\ held \in [Caller -> Nat]
  /\ llm \in [Caller -> CallTypes]
-----------------------------------------------------------------------------
(***************************************************************************)
(* The mutex.                                                              *)
(***************************************************************************)
Inside(c) == pc[c] \notin {"idle", "locking"}

\* Who is beyond b.mu holds it, and who holds it is a goroutine of the pod.
HoldersInside ==
  /\ \A c \in Caller : Inside(c) <=> mu[setup.pod[c]] = c
  /\ \A p \in Pod : mu[p] # Nobody => setup.pod[mu[p]] = p

MuInv == Types /\ HoldersInside

\* A setup is what its type says.
LEMMA SetupType ==
  ASSUME setup \in Setups
  PROVE  /\ setup.pod \in [Caller -> Pod]
         /\ setup.client \in Client
  BY DEF Setup

\* A call that starts is typed.
LEMMA CallType ==
  ASSUME Types, NEW c \in Caller, Call(c, setup.client)
  PROVE  llm' \in [Caller -> CallTypes]
<1> DEFINE start == [NoCall EXCEPT !.at = "attempt", !.attempt = 1,
                                   !.left = setup.client.budget,
                                   !.wait = AtMost(setup.client.backoff, MaxBackoff)]
<1>1. start \in CallTypes
  BY SetupType DEF Types, CallTypes, NoCall, Client, AtMost
<1>2. llm' = [llm EXCEPT ![c] = start]
  BY DEF Call
<1> QED
  BY <1>1, <1>2 DEF Types

\* A step of the client spends no more than is left of the deadline, but for a
\* last call of the fallback.
LEMMA ClientTypes ==
  ASSUME Types, NEW c \in Caller, ClientStep(c, setup.client)
  PROVE  \E next \in CallTypes, d \in Nat :
           /\ llm' = [llm EXCEPT ![c] = next]
           /\ held' = [held EXCEPT ![c] = @ + d]
           /\ llm[c].at \in {"attempt", "backoff", "fallback"}
           /\ next.at # "off"
           /\ \/ d + next.left <= llm[c].left
              \/ next.at = "done" /\ d <= llm[c].left + setup.client.fallback
<1> DEFINE call == llm[c]
           client == setup.client
<1>1. /\ call \in CallTypes
      /\ client.budget \in Nat /\ client.retries \in Nat /\ client.backoff \in Nat
      /\ client.fallback \in Nat /\ client.calls \subseteq Outcome /\ client.slow \in BOOLEAN
  BY SetupType DEF Types, Client
<1>2. CASE Attempt(c, client)
  <2> DEFINE allowed == Slice(call.left, client.retries + 2 - call.attempt)
  <2>1. PICK d \in Durations(allowed, client), outcome \in client.calls :
          Spend(c, AfterAttempt([call EXCEPT !.left = @ - d], outcome, client), d)
    BY <1>2 DEF Attempt
  <2> DEFINE next == AfterAttempt([call EXCEPT !.left = @ - d], outcome, client)
  <2>2. call.left \in Nat /\ call.attempt \in Nat
    BY <1>1 DEF CallTypes
  <2>3. allowed \in Nat /\ allowed <= call.left
    <3>1. CASE client.retries + 2 - call.attempt <= 1
      BY <1>1, <2>2, <3>1 DEF Slice
    <3>2. CASE client.retries + 2 - call.attempt > 1
      <4> DEFINE n == client.retries + 2 - call.attempt
                 part == AtMost(call.left \div n, MaxSlice)
      <4>1. n \in Nat \ {0}
        BY <1>1, <2>2, <3>2
      <4>2. call.left \div n \in Nat
        BY <2>2, <4>1
      <4>3. part \in Nat
        BY <4>2 DEF AtMost
      <4> HIDE DEF part, n
      <4>4. allowed = LET slice == IF part < MinSlice THEN MinSlice ELSE part
                      IN  IF n <= 1 \/ call.left <= TinyBudget \/ slice >= call.left
                          THEN call.left ELSE slice
        BY DEF Slice, part, n
      <4> QED
        BY <2>2, <4>1, <4>3, <4>4
    <3> QED
      BY <1>1, <2>2, <3>1, <3>2
  <2>4. d \in Nat /\ d <= call.left
    BY <2>1, <2>2, <2>3 DEF Durations
  <2> DEFINE rest == [call EXCEPT !.left = @ - d]
  <2>5. /\ next \in CallTypes /\ next.at # "off"
        /\ next.left = call.left - d
    <3>1. rest \in CallTypes /\ rest.left = call.left - d
      BY <1>1, <2>2, <2>4 DEF CallTypes
    <3>2. outcome \in Outcome
      BY <1>1, <2>1
    <3>3. next = AfterAttempt(rest, outcome, client)
      OBVIOUS
    <3> HIDE DEF next, rest
    <3>4. CASE outcome = "ok"
      <4>1. next = [rest EXCEPT !.at = "done", !.err = "none"]
        BY <3>3, <3>4 DEF AfterAttempt
      <4> QED
        BY <3>1, <4>1 DEF CallTypes
    <3>5. CASE outcome # "ok"
      <4>1. \E at \in {"done", "backoff", "fallback"} :
              next = [rest EXCEPT !.err = outcome, !.at = at]
        BY <3>3, <3>5 DEF AfterAttempt
      <4>2. PICK at \in {"done", "backoff", "fallback"} :
              next = [rest EXCEPT !.err = outcome, !.at = at]
        BY <4>1
      <4> QED
        BY <3>1, <3>2, <4>2 DEF CallTypes
    <3> QED
      BY <3>4, <3>5
  <2>6. call.at = "attempt"
    BY <1>2 DEF Attempt
  <2>7. llm' = [llm EXCEPT ![c] = next] /\ held' = [held EXCEPT ![c] = @ + d]
    BY <2>1 DEF Spend
  <2> HIDE DEF next
  <2>8. d + next.left <= call.left
    BY <2>2, <2>4, <2>5
  <2> QED
    BY <2>4, <2>5, <2>6, <2>7, <2>8
<1>3. CASE Backoff(c, client)
  <2> DEFINE wait == IF client.slow THEN call.wait ELSE 0
  <2>1. call.left \in Nat /\ call.wait \in Nat /\ call.attempt \in Nat /\ wait \in Nat
    BY <1>1 DEF CallTypes
  <2>2. CASE /\ call.left >= wait
             /\ Spend(c, [call EXCEPT !.at = "attempt", !.attempt = @ + 1, !.left = @ - wait,
                                      !.wait = AtMost(2 * @, MaxBackoff)], wait)
    <3> DEFINE next == [call EXCEPT !.at = "attempt", !.attempt = @ + 1, !.left = @ - wait,
                                    !.wait = AtMost(2 * @, MaxBackoff)]
    <3>1. next \in CallTypes /\ next.at = "attempt" /\ next.left = call.left - wait
      <4> DEFINE left == call.left - wait
                 doubled == AtMost(2 * call.wait, MaxBackoff)
      <4>1. doubled \in Nat
        BY <2>1 DEF AtMost
      <4>2. left \in Nat
        BY <2>1, <2>2
      <4>3. next = [call EXCEPT !.at = "attempt", !.attempt = @ + 1, !.left = left,
                                !.wait = doubled]
        OBVIOUS
      <4>4. call \in CallTypes /\ call.attempt + 1 \in Nat
        BY <1>1, <2>1
      <4> HIDE DEF left, doubled, next, call
      <4>5. next \in CallTypes /\ next.at = "attempt" /\ next.left = left
        BY <4>1, <4>2, <4>3, <4>4 DEF CallTypes
      <4> QED
        BY <4>5 DEF left
    <3>2. llm' = [llm EXCEPT ![c] = next] /\ held' = [held EXCEPT ![c] = @ + wait]
      BY <2>2 DEF Spend
    <3> HIDE DEF next, wait
    <3>3. wait + next.left <= call.left
      BY <2>1, <2>2, <3>1
    <3> QED
      BY <1>3, <2>1, <3>1, <3>2, <3>3 DEF Backoff
  <2>3. CASE /\ client.slow /\ call.left <= wait
             /\ Spend(c, [call EXCEPT !.at = "done", !.err = "timeout", !.left = 0], call.left)
    <3> DEFINE next == [call EXCEPT !.at = "done", !.err = "timeout", !.left = 0]
    <3>1. next \in CallTypes /\ next.at = "done" /\ next.left = 0
      BY <1>1 DEF CallTypes, Outcome
    <3>2. llm' = [llm EXCEPT ![c] = next] /\ held' = [held EXCEPT ![c] = @ + call.left]
      BY <2>3 DEF Spend
    <3> HIDE DEF next
    <3>3. call.left + next.left <= call.left
      BY <2>1, <3>1
    <3> QED
      BY <1>3, <2>1, <3>1, <3>2, <3>3 DEF Backoff
  <2> QED
    BY <1>3, <2>2, <2>3 DEF Backoff
<1>4. CASE Fallback(c, client)
  <2> DEFINE allowed == FallbackBudget(call, client)
  <2>1. PICK d \in Durations(allowed, client), outcome \in client.calls :
          Spend(c, [call EXCEPT !.at = "done", !.fell = TRUE,
                                !.err = IF outcome = "ok" THEN "none" ELSE outcome], d)
    BY <1>4 DEF Fallback
  <2> DEFINE next == [call EXCEPT !.at = "done", !.fell = TRUE,
                                  !.err = IF outcome = "ok" THEN "none" ELSE outcome]
  <2>2. allowed \in Nat /\ allowed <= client.fallback /\ call.left \in Nat
    BY <1>1 DEF FallbackBudget, AtMost, CallTypes
  <2>3. d \in Nat /\ d <= client.fallback
    BY <1>1, <2>1, <2>2 DEF Durations
  <2>4. next \in CallTypes /\ next.at = "done"
    BY <1>1, <2>1 DEF CallTypes
  <2>5. llm' = [llm EXCEPT ![c] = next] /\ held' = [held EXCEPT ![c] = @ + d]
    BY <2>1 DEF Spend
  <2> HIDE DEF next
  <2>6. d <= call.left + client.fallback
    BY <1>1, <2>2, <2>3
  <2> QED
    BY <1>4, <2>3, <2>4, <2>5, <2>6 DEF Fallback
<1> QED
  BY <1>2, <1>3, <1>4 DEF ClientStep

\* The goroutines in C leave, wherever they are.
LEMMA ClearTypes ==
  ASSUME Types, NEW C \in SUBSET Caller, Clear(C), UNCHANGED setup
  PROVE  Types'
<1>1. NoCall \in CallTypes
  BY DEF NoCall, CallTypes
<1> QED
  BY <1>1 DEF Types, Clear, Places

\* A draft is sent on, or back to the LLM.
LEMMA DraftedCases ==
  ASSUME NEW c \in Caller, Drafted(c)
  PROVE  \/ Goto(c, "rewriting") /\ Call(c, setup.client)
         \/ Goto(c, "posting") /\ UNCHANGED llm
<1>1. PICK draft \in Drafts[setup.style] :
        LET reply == IF draft = <<>> THEN Dots ELSE draft IN
        IF NeedsRepair(reply) THEN Goto(c, "rewriting") /\ Call(c, setup.client)
        ELSE Goto(c, "posting") /\ UNCHANGED llm
  BY Zenon DEF Drafted
<1> DEFINE reply == IF draft = <<>> THEN Dots ELSE draft
<1>2. CASE NeedsRepair(reply)
  BY <1>1, <1>2, Zenon
<1>3. CASE ~NeedsRepair(reply)
  BY <1>1, <1>3, Zenon
<1> QED
  BY <1>2, <1>3, Zenon

\* The types are kept by every step.
LEMMA TypesStep == Types /\ [Next]_vars => Types'
<1> SUFFICES ASSUME Types, [Next]_vars PROVE Types'
  OBVIOUS
<1>1. CASE UNCHANGED vars
  BY <1>1 DEF Types, vars, clientVars
<1>2. ASSUME NEW c \in Caller, Take(c) PROVE Types'
  BY <1>2 DEF Types, Take, Goto, Places, clientVars
<1>3. ASSUME NEW c \in Caller, CallerStep(c) PROVE Types'
  <2>1. CASE Lock(c)
    <3>1. llm' \in [Caller -> CallTypes]
      BY <2>1, CallType DEF Lock
    <3> QED
      BY <2>1, <3>1, SetupType DEF Types, Lock, Goto, Places
  <2>2. CASE \/ GateClosed(c) \/ Notice(c) \/ PostFails(c) \/ SaveLessons(c) \/ CaptureFails(c)
    BY <2>2, ClearTypes
    DEF GateClosed, Notice, PostFails, SaveLessons, CaptureFails, Leave
  <2>3. CASE WaitForModel(c)
    <3>1. PICK next \in CallTypes, d \in Nat :
            /\ llm' = [llm EXCEPT ![c] = next]
            /\ held' = [held EXCEPT ![c] = @ + d]
      BY <2>3, ClientTypes DEF WaitForModel
    <3> QED
      BY <2>3, <3>1 DEF Types, WaitForModel
  <2>4. CASE Drafted(c)
    <3>1. \/ Goto(c, "rewriting") /\ Call(c, setup.client)
          \/ Goto(c, "posting") /\ UNCHANGED llm
      BY <2>4, DraftedCases
    <3>2. llm' \in [Caller -> CallTypes]
      BY <3>1, CallType DEF Types
    <3> QED
      BY <2>4, <3>1, <3>2 DEF Types, Drafted, Goto, Places
  <2>5. CASE Rewrite(c) \/ Post(c) \/ LoadLessons(c)
    BY <2>5 DEF Types, Rewrite, Post, LoadLessons, Goto, Places, clientVars
  <2>6. CASE AppendEvent(c)
    <3>1. CASE Goto(c, "loading") /\ UNCHANGED <<clientVars, source, text, post, loaded, mu>>
      BY <2>6, <3>1 DEF Types, AppendEvent, Goto, Places, clientVars
    <3>2. CASE Leave(c)
      BY <2>6, <3>2, ClearTypes DEF AppendEvent, Leave
    <3> QED
      BY <2>6, <3>1, <3>2 DEF AppendEvent
  <2> QED
    BY <1>3, <2>1, <2>2, <2>3, <2>4, <2>5, <2>6 DEF CallerStep
<1>4. ASSUME NEW p \in Pod, Crash(p) PROVE Types'
  BY <1>4, ClearTypes DEF Crash
<1>5. CASE Time
  BY <1>5 DEF Types, Time, clientVars
<1> QED
  BY <1>1, <1>2, <1>3, <1>4, <1>5 DEF Next

\* The initial state is typed.
LEMMA TypesInit == Init => Types
<1>1. NoCall \in CallTypes
  BY DEF NoCall, CallTypes
<1> QED
  BY <1>1 DEF Init, Types, Places
-----------------------------------------------------------------------------
\* Who leaves gives b.mu back.
LEMMA ClearHolders ==
  ASSUME MuInv, NEW C \in SUBSET Caller, Clear(C), UNCHANGED setup
  PROVE  HoldersInside'
<1>1. ASSUME NEW c \in Caller PROVE Inside(c)' <=> mu'[setup.pod[c]] = c
  BY SetupType DEF MuInv, Types, HoldersInside, Clear, Inside
<1>2. ASSUME NEW p \in Pod, mu'[p] # Nobody PROVE setup.pod[mu'[p]] = p
  BY <1>2 DEF MuInv, Types, HoldersInside, Clear
<1> QED
  BY <1>1, <1>2 DEF HoldersInside

\* A goroutine that stays on its side of the lock disturbs nobody.
LEMMA SameSide ==
  ASSUME MuInv, NEW c \in Caller, NEW where \in Places, Goto(c, where), UNCHANGED <<mu, setup>>,
         (where \in {"idle", "locking"}) <=> ~Inside(c)
  PROVE  HoldersInside'
  BY SetupType DEF MuInv, Types, HoldersInside, Goto, Inside

\* b.mu changes hands in the order of Lock and Leave.
LEMMA HoldersStep == MuInv /\ [Next]_vars => HoldersInside'
<1> SUFFICES ASSUME MuInv, [Next]_vars PROVE HoldersInside'
  OBVIOUS
<1> USE DEF Places
<1>1. CASE UNCHANGED vars
  BY <1>1 DEF MuInv, HoldersInside, Inside, vars
<1>2. ASSUME NEW c \in Caller, Take(c) PROVE HoldersInside'
  BY <1>2, SameSide DEF Take, Inside
<1>3. ASSUME NEW c \in Caller, CallerStep(c) PROVE HoldersInside'
  <2>1. CASE Lock(c)
    <3>1. /\ pc' = [pc EXCEPT ![c] = "drafting"] /\ mu' = [mu EXCEPT ![setup.pod[c]] = c]
          /\ mu[setup.pod[c]] = Nobody /\ pc[c] = "locking" /\ setup' = setup
      BY <2>1 DEF Lock, Goto
    <3>2. ASSUME NEW d \in Caller PROVE Inside(d)' <=> mu'[setup.pod[d]] = d
      <4>1. CASE setup.pod[d] = setup.pod[c] /\ d # c
        BY <3>1, <4>1, SetupType DEF MuInv, Types, HoldersInside, Inside
      <4>2. CASE setup.pod[d] # setup.pod[c]
        BY <3>1, <4>2, SetupType DEF MuInv, Types, HoldersInside, Inside
      <4>3. CASE d = c
        BY <3>1, <4>3, SetupType DEF MuInv, Types, HoldersInside, Inside
      <4> QED
        BY <4>1, <4>2, <4>3
    <3>3. ASSUME NEW p \in Pod, mu'[p] # Nobody PROVE setup.pod[mu'[p]] = p
      BY <3>1, <3>3, SetupType DEF MuInv, Types, HoldersInside
    <3> QED
      BY <3>1, <3>2, <3>3 DEF HoldersInside
  <2>2. CASE \/ GateClosed(c) \/ Notice(c) \/ PostFails(c) \/ SaveLessons(c) \/ CaptureFails(c)
    BY <2>2, ClearHolders
    DEF GateClosed, Notice, PostFails, SaveLessons, CaptureFails, Leave
  <2>3. CASE WaitForModel(c)
    BY <2>3 DEF MuInv, HoldersInside, Inside, WaitForModel
  <2>4. CASE Drafted(c)
    <3>1. pc[c] = "drafting" /\ UNCHANGED <<mu, setup>>
      BY <2>4 DEF Drafted, Returned
    <3>2. Goto(c, "rewriting") \/ Goto(c, "posting")
      BY <2>4, DraftedCases
    <3> QED
      BY <3>1, <3>2, SameSide DEF Inside
  <2>5. CASE Rewrite(c) \/ Post(c) \/ LoadLessons(c)
    BY <2>5, SameSide DEF Rewrite, Returned, Post, LoadLessons, Inside
  <2>6. CASE AppendEvent(c)
    <3>1. CASE Goto(c, "loading") /\ UNCHANGED mu
      BY <2>6, <3>1, SameSide DEF AppendEvent, Inside
    <3>2. CASE Leave(c)
      BY <2>6, <3>2, ClearHolders DEF AppendEvent, Leave
    <3> QED
      BY <2>6, <3>1, <3>2 DEF AppendEvent
  <2> QED
    BY <1>3, <2>1, <2>2, <2>3, <2>4, <2>5, <2>6 DEF CallerStep
<1>4. ASSUME NEW p \in Pod, Crash(p) PROVE HoldersInside'
  BY <1>4, ClearHolders DEF Crash
<1>5. CASE Time
  BY <1>5 DEF MuInv, HoldersInside, Inside, Time
<1> QED
  BY <1>1, <1>2, <1>3, <1>4, <1>5 DEF Next

\* b.mu: one goroutine of a pod at a time from the look at the gate to the saved
\* lesson, on every way out, after crashes, and in every pod.
THEOREM MutualExclusion == Spec => []MuExclusive
<1>1. Init => MuInv
  BY TypesInit, SetupType DEF Init, MuInv, HoldersInside, Inside
<1>2. MuInv /\ [Next]_vars => MuInv'
  BY TypesStep, HoldersStep DEF MuInv
<1>3. MuInv => MuExclusive
  <2> SUFFICES ASSUME MuInv, NEW p \in Pod
               PROVE  {c \in Caller : setup.pod[c] = p /\ pc[c] \notin {"idle", "locking"}}
                      = {mu[p]} \ {Nobody}
    BY DEF MuExclusive
  <2>1. ASSUME NEW c \in Caller, setup.pod[c] = p, Inside(c)
        PROVE  c = mu[p] /\ c # Nobody
    BY <2>1 DEF MuInv, HoldersInside
  <2>2. ASSUME mu[p] # Nobody
        PROVE  mu[p] \in Caller /\ setup.pod[mu[p]] = p /\ Inside(mu[p])
    BY <2>2 DEF MuInv, Types, HoldersInside
  <2> QED
    BY <2>1, <2>2 DEF Inside
<1> QED
  BY <1>1, <1>2, <1>3, PTL DEF Spec
-----------------------------------------------------------------------------
(***************************************************************************)
(* How long b.mu is held.                                                  *)
(***************************************************************************)
\* A call that began after "base" seconds: while it runs, what it may still
\* spend of its deadline counts; once done, its fallback may have come on top.
Within(c, base) ==
  /\ llm[c].at # "off"
  /\ IF llm[c].at = "done" THEN held[c] <= base + Longest(setup.client)
     ELSE held[c] + llm[c].left <= base + setup.client.budget

Accounted(c) ==
  /\ pc[c] \in {"idle", "locking"} => held[c] = 0
  /\ pc[c] = "drafting" => Within(c, 0)
  /\ pc[c] = "rewriting" => Within(c, Longest(setup.client))
  /\ pc[c] \notin {"drafting", "rewriting"} =>
       llm[c].at \in {"off", "done"} /\ held[c] <= 2 * Longest(setup.client)

HoldInv == Types /\ \A c \in Caller : Accounted(c)

\* The longest call is a number.
LEMMA LongestType ==
  ASSUME Types
  PROVE  /\ setup.client.budget \in Nat /\ setup.client.fallback \in Nat
         /\ Longest(setup.client) = setup.client.budget + setup.client.fallback
         /\ Longest(setup.client) \in Nat
  BY SetupType DEF Types, Client, Longest

\* A call that begins may spend its whole deadline.
LEMMA CallWithin ==
  ASSUME Types, NEW c \in Caller, NEW base \in Nat, Call(c, setup.client), held[c] <= base,
         UNCHANGED <<held, setup>>
  PROVE  Within(c, base)'
<1>1. llm'[c].at = "attempt" /\ llm'[c].left = setup.client.budget
  BY DEF Types, Call, NoCall
<1> QED
  BY <1>1, LongestType DEF Within, Types

\* The client keeps within its account.
LEMMA ClientWithin ==
  ASSUME Types, NEW c \in Caller, NEW base \in Nat, ClientStep(c, setup.client),
         Within(c, base), UNCHANGED setup
  PROVE  Within(c, base)'
<1>1. PICK next \in CallTypes, d \in Nat :
        /\ llm' = [llm EXCEPT ![c] = next]
        /\ held' = [held EXCEPT ![c] = @ + d]
        /\ llm[c].at \in {"attempt", "backoff", "fallback"}
        /\ next.at # "off"
        /\ \/ d + next.left <= llm[c].left
           \/ next.at = "done" /\ d <= llm[c].left + setup.client.fallback
  BY ClientTypes
<1>2. /\ llm'[c] = next /\ held'[c] = held[c] + d
      /\ held[c] \in Nat /\ next.left \in Nat /\ llm[c].left \in Nat
  BY <1>1 DEF Types, CallTypes
<1>3. held[c] + llm[c].left <= base + setup.client.budget
  BY <1>1 DEF Within
<1>4. CASE d + next.left <= llm[c].left
  BY <1>1, <1>2, <1>3, <1>4, LongestType DEF Within
<1>5. CASE next.at = "done" /\ d <= llm[c].left + setup.client.fallback
  BY <1>1, <1>2, <1>3, <1>5, LongestType DEF Within
<1> QED
  BY <1>1, <1>4, <1>5

\* Who leaves has no account any more.
LEMMA ClearAccounted ==
  ASSUME HoldInv, NEW C \in SUBSET Caller, Clear(C), UNCHANGED setup
  PROVE  \A c \in Caller : Accounted(c)'
<1> SUFFICES ASSUME NEW c \in Caller PROVE Accounted(c)'
  OBVIOUS
<1>1. CASE c \in C
  <2>1. pc'[c] = "idle" /\ held'[c] = 0 /\ llm'[c] = NoCall
    BY <1>1 DEF Clear
  <2> QED
    BY <2>1, LongestType DEF HoldInv, Accounted, NoCall
<1>2. CASE c \notin C
  BY <1>2 DEF HoldInv, Accounted, Within, Clear
<1> QED
  BY <1>1, <1>2

\* The others' accounts do not change when one goroutine goes on.
LEMMA OthersAccounted ==
  ASSUME HoldInv, NEW c \in Caller, NEW d \in Caller \ {c}, UNCHANGED setup,
         pc'[d] = pc[d], llm'[d] = llm[d], held'[d] = held[d]
  PROVE  Accounted(d)'
  BY DEF HoldInv, Accounted, Within

Learns(c) == AppendEvent(c) /\ Goto(c, "loading") /\ UNCHANGED clientVars

\* Every step keeps the accounts.
LEMMA AccountedStep == HoldInv /\ [Next]_vars => \A c \in Caller : Accounted(c)'
<1> SUFFICES ASSUME HoldInv, [Next]_vars PROVE \A c \in Caller : Accounted(c)'
  OBVIOUS
<1>0. Types
  BY DEF HoldInv
<1>1. CASE UNCHANGED vars
  BY <1>1 DEF HoldInv, Accounted, Within, vars, clientVars
<1>2. ASSUME NEW c \in Caller, Take(c) PROVE \A d \in Caller : Accounted(d)'
  <2>1. Accounted(c)'
    BY <1>2, LongestType DEF HoldInv, Types, Accounted, Take, Goto, clientVars
  <2>2. ASSUME NEW d \in Caller \ {c} PROVE Accounted(d)'
    BY <1>2, OthersAccounted DEF HoldInv, Types, Take, Goto, clientVars
  <2> QED
    BY <2>1, <2>2
<1>3. ASSUME NEW c \in Caller, CallerStep(c) PROVE \A d \in Caller : Accounted(d)'
  <2>1. CASE \/ GateClosed(c) \/ Notice(c) \/ PostFails(c) \/ SaveLessons(c) \/ CaptureFails(c)
    BY <2>1, ClearAccounted
    DEF GateClosed, Notice, PostFails, SaveLessons, CaptureFails, Leave
  <2>2. CASE AppendEvent(c) /\ Leave(c)
    BY <2>2, ClearAccounted DEF AppendEvent, Leave
  <2>3. ASSUME \/ Lock(c) \/ WaitForModel(c) \/ Drafted(c) \/ Rewrite(c) \/ Post(c)
               \/ LoadLessons(c) \/ Learns(c)
        PROVE  \A d \in Caller : Accounted(d)'
    <3>1. ASSUME NEW d \in Caller \ {c} PROVE Accounted(d)'
      <4>1. CASE Lock(c)
        BY <4>1, OthersAccounted DEF HoldInv, Types, Lock, Goto, Call
      <4>2. CASE WaitForModel(c)
        <5>1. PICK next \in CallTypes, n \in Nat :
                /\ llm' = [llm EXCEPT ![c] = next]
                /\ held' = [held EXCEPT ![c] = @ + n]
          BY <1>0, <4>2, ClientTypes DEF WaitForModel
        <5> QED
          BY <4>2, <5>1, OthersAccounted DEF HoldInv, Types, WaitForModel
      <4>3. CASE Drafted(c)
        <5>1. UNCHANGED <<held, setup>>
          BY <4>3 DEF Drafted
        <5> QED
          BY <4>3, <5>1, DraftedCases, OthersAccounted DEF HoldInv, Types, Goto, Call
      <4>4. CASE Rewrite(c) \/ Post(c) \/ LoadLessons(c)
        BY <4>4, OthersAccounted
        DEF HoldInv, Types, Rewrite, Post, LoadLessons, Goto, clientVars
      <4>5. CASE Learns(c)
        BY <4>5, OthersAccounted DEF HoldInv, Types, Learns, AppendEvent, Goto, clientVars
      <4> QED
        BY <2>3, <4>1, <4>2, <4>3, <4>4, <4>5
    <3>2. Accounted(c)'
      <4>1. CASE Lock(c)
        <5>1. held[c] = 0 /\ UNCHANGED <<held, setup>>
          BY <4>1 DEF Lock, HoldInv, Accounted
        <5>2. Within(c, 0)'
          BY <1>0, <4>1, <5>1, CallWithin DEF Lock
        <5>3. pc'[c] = "drafting"
          BY <1>0, <4>1 DEF Lock, Goto, Types
        <5> QED
          BY <5>2, <5>3 DEF Accounted
      <4>2. CASE WaitForModel(c)
        <5>1. PICK next \in CallTypes, n \in Nat : llm[c].at \in {"attempt", "backoff", "fallback"}
          BY <1>0, <4>2, ClientTypes DEF WaitForModel
        <5>2. pc[c] \in {"drafting", "rewriting"} /\ UNCHANGED <<pc, setup>>
          BY <4>2, <5>1 DEF WaitForModel, HoldInv, Accounted
        <5>3. CASE pc[c] = "drafting"
          <6>1. Within(c, 0)'
            BY <1>0, <4>2, <5>2, <5>3, ClientWithin DEF WaitForModel, HoldInv, Accounted
          <6> QED
            BY <5>2, <5>3, <6>1 DEF Accounted
        <5>4. CASE pc[c] = "rewriting"
          <6>1. Within(c, Longest(setup.client))'
            BY <1>0, <4>2, <5>2, <5>4, ClientWithin, LongestType
            DEF WaitForModel, HoldInv, Accounted, Within
          <6> QED
            BY <5>2, <5>4, <6>1 DEF Accounted
        <5> QED
          BY <5>2, <5>3, <5>4
      <4>3. CASE Drafted(c)
        <5>1. /\ UNCHANGED <<held, setup>> /\ llm[c].at = "done"
              /\ held[c] <= Longest(setup.client)
          BY <4>3, LongestType DEF Drafted, Returned, HoldInv, Accounted, Within
        <5>2. CASE Goto(c, "rewriting") /\ Call(c, setup.client)
          <6>1. Within(c, Longest(setup.client))'
            BY <1>0, <5>1, <5>2, CallWithin, LongestType DEF Within, Longest
          <6>2. pc'[c] = "rewriting"
            BY <1>0, <5>2 DEF Goto, Types
          <6> QED
            BY <6>1, <6>2, <5>1 DEF Accounted, Within
        <5>3. CASE Goto(c, "posting") /\ UNCHANGED llm
          <6>1. pc'[c] = "posting"
            BY <1>0, <5>3 DEF Goto, Types
          <6> QED
            BY <1>0, <5>1, <5>3, <6>1, LongestType DEF Accounted, Types
        <5> QED
          BY <4>3, <5>2, <5>3, DraftedCases
      <4>4. CASE Rewrite(c)
        <5>1. llm[c].at = "done" /\ held[c] <= 2 * Longest(setup.client)
          BY <1>0, <4>4, LongestType DEF Rewrite, Returned, HoldInv, Accounted, Within
        <5>2. pc'[c] = "posting" /\ UNCHANGED <<clientVars, setup>>
          BY <1>0, <4>4 DEF Rewrite, Goto, Types
        <5> QED
          BY <5>1, <5>2 DEF Accounted, clientVars
      <4>5. CASE Post(c) \/ LoadLessons(c) \/ Learns(c)
        <5>1. /\ pc[c] \in {"posting", "recording", "loading"}
              /\ pc'[c] \in {"recording", "loading", "saving"}
              /\ UNCHANGED <<clientVars, setup>>
          BY <1>0, <4>5 DEF Post, LoadLessons, Learns, AppendEvent, Goto, Types
        <5> QED
          BY <5>1 DEF HoldInv, Accounted, clientVars
      <4> QED
        BY <2>3, <4>1, <4>2, <4>3, <4>4, <4>5, Zenon
    <3> QED
      BY <3>1, <3>2
  <2>4. CASE AppendEvent(c)
    <3>1. CASE Goto(c, "loading") /\ UNCHANGED clientVars
      <4>1. Learns(c)
        BY <2>4, <3>1 DEF Learns
      <4> QED
        BY <2>3, <4>1
    <3>2. CASE Leave(c)
      BY <2>2, <2>4, <3>2
    <3> QED
      BY <2>4, <3>1, <3>2 DEF AppendEvent
  <2> QED
    BY <1>3, <2>1, <2>3, <2>4, Zenon DEF CallerStep
<1>4. ASSUME NEW p \in Pod, Crash(p) PROVE \A c \in Caller : Accounted(c)'
  BY <1>4, ClearAccounted DEF Crash
<1>5. CASE Time
  BY <1>5 DEF HoldInv, Accounted, Within, Time, clientVars
<1> QED
  BY <1>1, <1>2, <1>3, <1>4, <1>5 DEF Next

\* "so provider stalls cannot block Slack event handling indefinitely": whatever
\* the deadline, the retries, the backoff and the fallback, b.mu is held for two
\* calls at most.
THEOREM HoldBound == Spec => []MuHeldAtMost
<1>1. Init => HoldInv
  <2> SUFFICES ASSUME Init PROVE HoldInv
    OBVIOUS
  <2>1. Types
    BY TypesInit
  <2> QED
    BY <2>1, LongestType DEF Init, HoldInv, Accounted, NoCall
<1>2. HoldInv /\ [Next]_vars => HoldInv'
  BY TypesStep, AccountedStep DEF HoldInv
<1>3. HoldInv => MuHeldAtMost
  <2> SUFFICES ASSUME HoldInv, NEW c \in Caller
               PROVE  held[c] <= 2 * Longest(setup.client)
    BY DEF MuHeldAtMost
  <2>1. Types /\ Accounted(c) /\ held[c] \in Nat /\ llm[c].left \in Nat
    BY DEF HoldInv, Types, CallTypes
  <2> QED
    BY <2>1, LongestType DEF Accounted, Within
<1> QED
  BY <1>1, <1>2, <1>3, PTL DEF Spec

-----------------------------------------------------------------------------
(***************************************************************************)
(* Texts.                                                                  *)
(***************************************************************************)
USE TextAssumption

\* What tokens there are.
LEMMA Tokens ==
  /\ \A is \in Plain : The(is) \in Token
  /\ \A b \in Bot : Ping(b) \in Token /\ Name(b) \in Token
  /\ \A t \in Token : /\ t.is \in {"ping", "name"} \cup Plain
                      /\ t.is = "ping" => t.of \in Bot /\ t = Ping(t.of)
                      /\ t.is = "name" => t.of \in Bot /\ t = Name(t.of)
                      /\ t.is \in Plain => t = The(t.is)
  BY DEF Token, Plain, The, Ping, Name

\* The tokens that are taken out: marks and mentions.
LEMMA TakenOut ==
  /\ {Ping(Self)} \in SUBSET Token /\ {The("mark")} \in SUBSET Token /\ {} \in SUBSET Token
  /\ \A B \in SUBSET Bot : {Ping(b) : b \in B} \in SUBSET Token
  /\ Others \in SUBSET Bot /\ Bot \in SUBSET Bot
  /\ {Ping(b) : b \in Others} \in SUBSET Token /\ {Ping(b) : b \in Bot} \in SUBSET Token
<1>1. {Ping(Self)} \in SUBSET Token /\ {The("mark")} \in SUBSET Token /\ {} \in SUBSET Token
  BY Tokens DEF Plain
<1>2. ASSUME NEW B \in SUBSET Bot PROVE {Ping(b) : b \in B} \in SUBSET Token
  <2> SUFFICES ASSUME NEW b \in B PROVE Ping(b) \in Token
    OBVIOUS
  <2> QED
    BY Tokens
<1>3. Others \in SUBSET Bot /\ Bot \in SUBSET Bot
  BY DEF Others
<1> QED
  BY <1>1, <1>2, <1>3

\* A text that is not empty is a shorter one with a token at the end.
LEMMA LastToken ==
  ASSUME NEW words \in Text, words # <<>>
  PROVE  \E s \in Text, x \in Token :
           /\ words = Append(s, x) /\ Len(s) = Len(words) - 1 /\ x = words[Len(words)]
<1> DEFINE n == Len(words)
           s == [i \in 1 .. n - 1 |-> words[i]]
<1>1. n \in Nat \ {0} /\ words \in [1 .. n -> Token]
  BY DEF Text
<1>2. s \in Text /\ Len(s) = n - 1
  BY <1>1 DEF Text
<1>3. words = Append(s, words[n]) /\ words[n] \in Token
  BY <1>1, <1>2 DEF Text
<1> HIDE DEF s
<1> QED
  BY <1>1, <1>2, <1>3

\* One token more.
LEMMA OneToken ==
  \A t \in Text, x \in Token :
    /\ Append(t, x) \in Text /\ Append(t, x) # <<>>
    /\ Len(t) \in Nat /\ Len(Append(t, x)) = Len(t) + 1
    /\ Append(t, x)[Len(Append(t, x))] = x /\ Append(t, x)[Len(t) + 1] = x
    /\ \A i \in 1 .. Len(t) : Append(t, x)[i] = t[i]
<1> SUFFICES ASSUME NEW t \in Text, NEW x \in Token
             PROVE  /\ Append(t, x) \in Text /\ Append(t, x) # <<>>
                    /\ Len(t) \in Nat /\ Len(Append(t, x)) = Len(t) + 1
                    /\ Append(t, x)[Len(Append(t, x))] = x /\ Append(t, x)[Len(t) + 1] = x
                    /\ \A i \in 1 .. Len(t) : Append(t, x)[i] = t[i]
  OBVIOUS
<1>1. PICK n \in Nat : n = Len(t)
  BY DEF Text
<1>2. PICK u : u = Append(t, x)
  OBVIOUS
<1>3. /\ u \in Text /\ Len(u) = n + 1 /\ u[n + 1] = x
      /\ \A i \in 1 .. n : u[i] = t[i]
  BY <1>1, <1>2 DEF Text
<1>4. Len(<<>>) = 0 /\ n + 1 # 0
  OBVIOUS
<1>5. u # <<>>
  BY <1>3, <1>4, Zenon
<1> QED
  BY <1>1, <1>2, <1>3, <1>5

\* What holds of the empty text, and of a text with one more token if it holds
\* of the text, holds of all.
LEMMA AllTexts ==
  ASSUME NEW S \in SUBSET Text, <<>> \in S, \A s \in S, x \in Token : Append(s, x) \in S
  PROVE  S = Text
<1> SUFFICES ASSUME Text \ S # {} PROVE FALSE
  OBVIOUS
<1> DEFINE lengths == {Len(t) : t \in Text \ S}
<1>1. \A t \in Text : Len(t) \in Nat
  BY DEF Text
<1>2. lengths \in SUBSET Nat /\ lengths # {}
  BY <1>1
<1>3. PICK n \in lengths : \A k \in lengths : n <= k
  <2> HIDE DEF lengths
  <2> QED
    BY <1>2, Smallest
<1>4. PICK t \in Text \ S : Len(t) = n
  BY <1>3
<1>5. t # <<>>
  OBVIOUS
<1>6. PICK s \in Text, x \in Token : t = Append(s, x) /\ Len(s) = Len(t) - 1
  BY <1>5, LastToken
<1>7. s \in Text \ S
  BY <1>6
<1>8. n <= Len(s) /\ Len(s) \in Nat /\ n \in Nat
  BY <1>1, <1>2, <1>3, <1>7
<1>9. Len(s) = n - 1
  BY <1>4, <1>6
<1> QED
  BY <1>8, <1>9

\* A new line begins after such a text.
Blank(t) == t = <<>> \/ Ends(t, "line")

\* A token that is left out.
Skips(t, x, bad) == x \in bad \/ (x.is = "line" /\ Blank(t))

\* How Without goes through the first n tokens.
Takes(f, words, bad, n) ==
  f = [i \in 0 .. n |-> IF i = 0 THEN <<>> ELSE Put(words[i], bad)[f[i - 1]]]

\* There is such a function, built up place by place.
LEMMA TakesSome ==
  ASSUME NEW words, NEW bad, NEW n \in Nat
  PROVE  \E f : Takes(f, words, bad, n)
<1> SUFFICES ASSUME ~ \E f : Takes(f, words, bad, n) PROVE FALSE
  OBVIOUS
<1> DEFINE none == {k \in Nat : ~ \E f : Takes(f, words, bad, k)}
<1>1. PICK m \in none : \A k \in none : m <= k
  <2>1. none \in SUBSET Nat /\ none # {}
    BY Zenon
  <2> HIDE DEF none
  <2> QED
    BY <2>1, Smallest
<1>2. m # 0
  <2>1. Takes([i \in 0 .. 0 |-> <<>>], words, bad, 0)
    BY DEF Takes
  <2> QED
    BY <2>1
<1>3. m \in Nat /\ m - 1 \in Nat
  BY <1>2
<1>4. PICK f : Takes(f, words, bad, m - 1)
  BY <1>1, <1>3
<1> DEFINE g == [i \in 0 .. m |-> IF i = m THEN Put(words[m], bad)[f[m - 1]] ELSE f[i]]
<1>5. ASSUME NEW i \in 0 .. m
      PROVE  g[i] = IF i = 0 THEN <<>> ELSE Put(words[i], bad)[g[i - 1]]
  <2>1. CASE i = m
    <3>1. g[i - 1] = f[m - 1]
      BY <1>2, <1>3, <2>1
    <3> QED
      BY <1>2, <2>1, <3>1
  <2>2. CASE i # m
    <3>1. i \in 0 .. m - 1
      BY <1>3, <2>2
    <3>2. f[i] = IF i = 0 THEN <<>> ELSE Put(words[i], bad)[f[i - 1]]
      BY <1>4, <3>1 DEF Takes
    <3>3. i # 0 => i - 1 \in 0 .. m /\ i - 1 # m
      BY <1>3, <2>2
    <3>4. g[i] = f[i] /\ (i # 0 => g[i - 1] = f[i - 1])
      BY <2>2, <3>3
    <3> HIDE DEF g
    <3> QED
      BY <3>2, <3>4
  <2> QED
    BY <2>1, <2>2
<1>6. Takes(g, words, bad, m)
  BY <1>5 DEF Takes
<1> QED
  BY <1>6

Same(words, other, n) == \A i \in 1 .. n : words[i] = other[i]

\* It does the same to two texts as far as they are the same.
LEMMA TakesSame ==
  \A one, other, bad, f, g : \A n, m \in Nat :
    Takes(f, one, bad, n) /\ Takes(g, other, bad, m) /\ n <= m /\ Same(one, other, n)
    => f[n] = g[n]
<1> SUFFICES ASSUME NEW one, NEW other, NEW bad, NEW f, NEW g, NEW n \in Nat, NEW m \in Nat,
                    Takes(f, one, bad, n), Takes(g, other, bad, m), n <= m,
                    Same(one, other, n), f[n] # g[n]
             PROVE  FALSE
  BY Zenon
<1> DEFINE differ == {k \in Nat : k <= n /\ f[k] # g[k]}
<1>1. PICK k \in differ : \A j \in differ : k <= j
  <2>1. differ \in SUBSET Nat /\ differ # {}
    OBVIOUS
  <2> HIDE DEF differ
  <2> QED
    BY <2>1, Smallest
<1>2. /\ k \in 0 .. n /\ k \in 0 .. m
      /\ f[k] = IF k = 0 THEN <<>> ELSE Put(one[k], bad)[f[k - 1]]
      /\ g[k] = IF k = 0 THEN <<>> ELSE Put(other[k], bad)[g[k - 1]]
  <2>1. k \in 0 .. n /\ k \in 0 .. m
    OBVIOUS
  <2>2. f[k] = IF k = 0 THEN <<>> ELSE Put(one[k], bad)[f[k - 1]]
    BY <2>1 DEF Takes
  <2>3. g[k] = IF k = 0 THEN <<>> ELSE Put(other[k], bad)[g[k - 1]]
    BY <2>1 DEF Takes
  <2> QED
    BY <2>1, <2>2, <2>3
<1>3. k # 0
  BY <1>2
<1>4. k - 1 \in Nat /\ k - 1 <= n /\ k \in 1 .. n /\ ~(k <= k - 1)
  BY <1>2, <1>3
<1>5. f[k - 1] = g[k - 1] /\ one[k] = other[k]
  BY <1>1, <1>4 DEF Same
<1> QED
  BY <1>1, <1>2, <1>3, <1>5

\* Without, token by token.
LEMMA WithoutTakes ==
  ASSUME NEW words \in Text, NEW bad \in SUBSET Token
  PROVE  \E f : Takes(f, words, bad, Len(words)) /\ Without[bad][words] = f[Len(words)]
<1>1. Len(words) \in Nat
  BY DEF Text
<1>2. PICK f : Takes(f, words, bad, Len(words))
  BY <1>1, TakesSome
<1>3. TakeOut(words, bad) = (CHOOSE g : Takes(g, words, bad, Len(words)))[Len(words)]
  BY DEF TakeOut, Takes
<1>4. Without[bad][words] = TakeOut(words, bad)
  BY DEF Without
<1> QED
  BY <1>2, <1>3, <1>4, Zenon

\* Nothing is taken out of nothing.
LEMMA WithoutNone ==
  ASSUME NEW bad \in SUBSET Token
  PROVE  <<>> \in Text /\ Without[bad][<<>>] = <<>>
<1>1. <<>> \in Text /\ Len(<<>>) = 0
  BY DEF Text
<1>2. PICK f : Takes(f, <<>>, bad, 0) /\ Without[bad][<<>>] = f[0]
  <2>1. PICK f : Takes(f, <<>>, bad, Len(<<>>)) /\ Without[bad][<<>>] = f[Len(<<>>)]
    BY <1>1, WithoutTakes, Zenon
  <2> QED
    BY <1>1, <2>1, Zenon
<1>3. \A g, words : Takes(g, words, bad, 0) => g[0] = <<>>
  BY DEF Takes
<1> QED
  BY <1>1, <1>2, <1>3

\* Without goes from the front to the end.
LEMMA WithoutPut ==
  ASSUME NEW words \in Text, NEW x \in Token, NEW bad \in SUBSET Token
  PROVE  /\ Append(words, x) \in Text
         /\ Without[bad][Append(words, x)] = Put(x, bad)[Without[bad][words]]
<1>1. PICK n \in Nat : n = Len(words)
  BY DEF Text
<1>2. PICK longer : longer = Append(words, x)
  OBVIOUS
<1>3. /\ longer \in Text /\ Len(longer) = n + 1 /\ longer[n + 1] = x
      /\ \A i \in 1 .. n : words[i] = longer[i]
  BY <1>1, <1>2 DEF Text
<1>4. PICK f : Takes(f, words, bad, n) /\ Without[bad][words] = f[n]
  BY <1>1, WithoutTakes
<1>5. PICK g : Takes(g, longer, bad, n + 1) /\ Without[bad][longer] = g[n + 1]
  <2>1. PICK g : Takes(g, longer, bad, Len(longer)) /\ Without[bad][longer] = g[Len(longer)]
    BY <1>3, WithoutTakes
  <2> QED
    BY <1>3, <2>1
<1>6. f[n] = g[n]
  <2>1. PICK m \in Nat : m = n + 1 /\ n <= m
    OBVIOUS
  <2>2. Takes(g, longer, bad, m) /\ Takes(f, words, bad, n)
    BY <1>4, <1>5, <2>1
  <2>3. Same(words, longer, n)
    BY <1>3 DEF Same
  <2>4. \A k, j \in Nat :
          Takes(f, words, bad, k) /\ Takes(g, longer, bad, j) /\ k <= j /\ Same(words, longer, k)
          => f[k] = g[k]
    BY ONLY TakesSame
  <2> QED
    BY <2>1, <2>2, <2>3, <2>4, Zenon
<1>7. g[n + 1] = Put(x, bad)[g[n]]
  <2>1. PICK m \in Nat : m = n + 1 /\ m \in 0 .. m /\ m # 0 /\ m - 1 = n
    OBVIOUS
  <2>2. Takes(g, longer, bad, m) /\ longer[m] = x
    BY <1>3, <1>5, <2>1
  <2>3. g[m] = IF m = 0 THEN <<>> ELSE Put(longer[m], bad)[g[m - 1]]
    BY <2>1, <2>2 DEF Takes
  <2> QED
    BY <2>1, <2>2, <2>3
<1> QED
  BY <1>2, <1>3, <1>4, <1>5, <1>6, <1>7

\* One token more, or not.
LEMMA PutIs ==
  ASSUME NEW t \in Text, NEW x \in Token, NEW bad
  PROVE  /\ Put(x, bad)[t] = IF Skips(t, x, bad) THEN t ELSE Append(t, x)
         /\ Put(x, bad)[t] \in Text
  BY OneToken DEF Put, Skips, Blank

\* What is left is a text.
LEMMA WithoutText ==
  ASSUME NEW bad \in SUBSET Token, NEW t \in Text
  PROVE  Without[bad][t] \in Text
<1> DEFINE S == {s \in Text : Without[bad][s] \in Text}
<1>1. <<>> \in S /\ S \in SUBSET Text
  BY WithoutNone
<1>2. \A s \in S, x \in Token : Append(s, x) \in S
  BY WithoutPut, PutIs
<1> HIDE DEF S
<1>3. S = Text
  BY <1>1, <1>2, AllTexts
<1> QED
  BY <1>3 DEF S

\* The last token stays, or is left out.
LEMMA WithoutAppend ==
  ASSUME NEW words \in Text, NEW x \in Token, NEW bad \in SUBSET Token
  PROVE  /\ Append(words, x) \in Text /\ Without[bad][words] \in Text
         /\ Without[bad][Append(words, x)] =
              IF Skips(Without[bad][words], x, bad) THEN Without[bad][words]
              ELSE Append(Without[bad][words], x)
<1>1. PICK w \in Text : w = Without[bad][words]
  BY WithoutText
<1>2. Without[bad][Append(words, x)] = Put(x, bad)[w]
  BY <1>1, WithoutPut
<1>3. Put(x, bad)[w] = IF Skips(w, x, bad) THEN w ELSE Append(w, x)
  BY PutIs
<1> QED
  BY <1>1, <1>2, <1>3, WithoutPut

\* The tokens of a text.
Said(t) == {t[i] : i \in DOMAIN t}

\* A text says what its beginning says, and its last token.
LEMMA SaidAppend ==
  /\ Said(<<>>) = {}
  /\ \A t \in Text, x \in Token : Said(Append(t, x)) = Said(t) \cup {x}
<1>1. Said(<<>>) = {}
  BY DEF Said
<1>2. ASSUME NEW t \in Text, NEW x \in Token PROVE Said(Append(t, x)) = Said(t) \cup {x}
  <2>1. PICK n \in Nat : n = Len(t) /\ DOMAIN t = 1 .. n
    BY DEF Text
  <2>2. PICK longer : longer = Append(t, x)
    OBVIOUS
  <2>3. /\ DOMAIN longer = 1 .. n + 1 /\ longer[n + 1] = x
        /\ \A i \in 1 .. n : longer[i] = t[i]
    BY <2>1, <2>2 DEF Text
  <2>4. \A i : i \in 1 .. n + 1 <=> i \in 1 .. n \/ i = n + 1
    OBVIOUS
  <2>5. ASSUME NEW y PROVE y \in Said(longer) <=> y \in Said(t) \/ y = x
    BY ONLY <2>1, <2>3, <2>4 DEF Said
  <2> QED
    BY <2>2, <2>5
<1> QED
  BY <1>1, <1>2

\* What a text says are tokens, and it has what it says.
LEMMA SaidType ==
  ASSUME NEW t \in Text
  PROVE  Said(t) \subseteq Token /\ \A is : Has(t, is) <=> \E x \in Said(t) : x.is = is
<1>1. \A i \in DOMAIN t : t[i] \in Token
  BY DEF Text
<1> QED
  BY <1>1 DEF Said, Has

\* What is left was said, and nothing that is taken out.
LEMMA WithoutSaid ==
  ASSUME NEW bad \in SUBSET Token, NEW t \in Text
  PROVE  /\ Without[bad][t] \in Text /\ Len(Without[bad][t]) <= Len(t)
         /\ Said(Without[bad][t]) \subseteq Said(t) \ bad
<1> DEFINE Good(s) == /\ Without[bad][s] \in Text /\ Len(Without[bad][s]) <= Len(s)
                      /\ Said(Without[bad][s]) \subseteq Said(s) \ bad
           S == {s \in Text : Good(s)}
<1>1. Good(<<>>)
  <2>1. Without[bad][<<>>] = <<>> /\ <<>> \in Text
    BY WithoutNone
  <2>2. Said(<<>>) \subseteq Said(<<>>) \ bad
    BY SaidAppend
  <2>3. Len(<<>>) <= Len(<<>>)
    OBVIOUS
  <2> QED
    BY <2>1, <2>2, <2>3
<1>2. ASSUME NEW s \in Text, Good(s), NEW x \in Token PROVE Good(Append(s, x))
  <2>1. PICK w \in Text : w = Without[bad][s]
    BY <1>2
  <2>2. /\ Append(s, x) \in Text
        /\ Without[bad][Append(s, x)] = IF Skips(w, x, bad) THEN w ELSE Append(w, x)
    BY <2>1, WithoutAppend
  <2>3. /\ Len(w) \in Nat /\ Len(s) \in Nat /\ Len(Append(s, x)) = Len(s) + 1
        /\ Len(Append(w, x)) = Len(w) + 1 /\ Append(w, x) \in Text
    BY OneToken
  <2>4. Said(Append(s, x)) = Said(s) \cup {x} /\ Said(Append(w, x)) = Said(w) \cup {x}
    BY SaidAppend
  <2>5. CASE Skips(w, x, bad)
    BY <1>2, <2>1, <2>2, <2>3, <2>4, <2>5
  <2>6. CASE ~Skips(w, x, bad)
    <3>1. x \notin bad
      BY <2>6 DEF Skips
    <3> QED
      BY <1>2, <2>1, <2>2, <2>3, <2>4, <2>6, <3>1
  <2> QED
    BY <2>5, <2>6
<1>3. <<>> \in S /\ S \in SUBSET Text
  BY <1>1, WithoutNone
<1>4. \A s \in S, x \in Token : Append(s, x) \in S
  BY <1>2, WithoutAppend
<1> HIDE DEF S
<1>5. S = Text
  BY <1>3, <1>4, AllTexts
<1> QED
  BY <1>5 DEF S

\* The end of a text with one more token.
LEMMA EndsAppend ==
  \A t \in Text, x \in Token :
    /\ \A is : Ends(Append(t, x), is) <=> x.is = is
    /\ Blank(Append(t, x)) <=> x.is = "line"
  BY OneToken DEF Ends, Blank

\* No line of such a text is empty, but for the last.
Neat(t) == \A i \in Breaks(t) : i # 1 /\ t[i - 1].is # "line"

\* One token more keeps a text neat, unless it ends an empty line.
LEMMA NeatAppend ==
  /\ Neat(<<>>)
  /\ \A t \in Text, x \in Token : Neat(Append(t, x)) <=> Neat(t) /\ ~(x.is = "line" /\ Blank(t))
<1>1. Neat(<<>>)
  BY DEF Neat, Breaks
<1>2. ASSUME NEW t \in Text, NEW x \in Token
      PROVE  Neat(Append(t, x)) <=> Neat(t) /\ ~(x.is = "line" /\ Blank(t))
  <2>1. PICK n \in Nat : n = Len(t) /\ DOMAIN t = 1 .. n
    BY DEF Text
  <2>2. PICK u \in Text : /\ u = Append(t, x) /\ Len(u) = n + 1 /\ u[n + 1] = x
                          /\ \A i \in 1 .. n : u[i] = t[i]
    <3>1. /\ Append(t, x) \in Text /\ Len(Append(t, x)) = Len(t) + 1
          /\ Append(t, x)[Len(t) + 1] = x
          /\ \A i \in 1 .. Len(t) : Append(t, x)[i] = t[i]
      BY OneToken, Zenon
    <3> QED
      BY <2>1, <3>1, Zenon
  <2>3. DOMAIN u = 1 .. n + 1
    <3>1. DOMAIN u = 1 .. Len(u)
      BY DEF Text
    <3> QED
      BY ONLY <2>2, <3>1
  <2>4. \A i : i \in 1 .. n + 1 <=> i \in 1 .. n \/ i = n + 1
    OBVIOUS
  <2>5. \A i \in Breaks(t) : i \in 1 .. n
    BY <2>1 DEF Breaks
  <2>6. ASSUME NEW i \in 1 .. n
        PROVE  /\ u[i] = t[i] /\ (i # 1 => u[i - 1] = t[i - 1])
               /\ i \in Breaks(u) <=> i \in Breaks(t)
    <3>1. i # 1 => i - 1 \in 1 .. n
      OBVIOUS
    <3> QED
      BY <2>1, <2>2, <2>3, <2>4, <3>1 DEF Breaks
  <2>7. n + 1 \in Breaks(u) <=> x.is = "line"
    BY <2>2, <2>3, <2>4 DEF Breaks
  <2>8. Blank(t) <=> n = 0 \/ t[n].is = "line"
    <3>1. t = <<>> <=> n = 0
      BY <2>1 DEF Text
    <3> QED
      BY <2>1, <3>1 DEF Blank, Ends
  <2>9. Blank(t) <=> n + 1 = 1 \/ u[n + 1 - 1].is = "line"
    <3>1. /\ n + 1 = 1 <=> n = 0
          /\ n + 1 - 1 = n /\ (n # 0 => n \in 1 .. n)
      OBVIOUS
    <3> QED
      BY <2>2, <2>8, <3>1
  <2>10. \A i : i \in Breaks(u) <=> i \in Breaks(t) \/ (i = n + 1 /\ x.is = "line")
    BY <2>3, <2>4, <2>5, <2>6, <2>7 DEF Breaks
  <2>11. \A i \in Breaks(t) : (i # 1 => u[i - 1] = t[i - 1])
    BY <2>5, <2>6
  <2>12. Neat(u) <=> Neat(t) /\ ~(x.is = "line" /\ Blank(t))
    BY <2>9, <2>10, <2>11 DEF Neat
  <2> QED
    BY <2>2, <2>12
<1> QED
  BY <1>1, <1>2

\* What is left is neat.
LEMMA WithoutNeat ==
  ASSUME NEW bad \in SUBSET Token, NEW t \in Text
  PROVE  Neat(Without[bad][t])
<1> DEFINE S == {s \in Text : Neat(Without[bad][s])}
<1>1. <<>> \in S /\ S \in SUBSET Text
  BY WithoutNone, NeatAppend
<1>2. ASSUME NEW s \in S, NEW x \in Token PROVE Append(s, x) \in S
  <2>1. PICK w \in Text : w = Without[bad][s] /\ Neat(w)
    BY WithoutText
  <2>2. /\ Append(s, x) \in Text
        /\ Without[bad][Append(s, x)] = IF Skips(w, x, bad) THEN w ELSE Append(w, x)
    BY <2>1, WithoutAppend
  <2>3. ~Skips(w, x, bad) => Neat(Append(w, x))
    BY <2>1, NeatAppend DEF Skips
  <2> QED
    BY <2>1, <2>2, <2>3
<1> HIDE DEF S
<1>3. S = Text
  BY <1>1, <1>2, AllTexts
<1> QED
  BY <1>3 DEF S

\* A neat text in which there is nothing to take out stays.
LEMMA WithoutGone ==
  ASSUME NEW bad \in SUBSET Token, NEW t \in Text, Said(t) \cap bad = {}, Neat(t)
  PROVE  Without[bad][t] = t
<1> DEFINE Good(s) == Said(s) \cap bad = {} /\ Neat(s) => Without[bad][s] = s
           S == {s \in Text : Good(s)}
<1>1. Good(<<>>)
  BY WithoutNone
<1>2. ASSUME NEW s \in Text, Good(s), NEW x \in Token PROVE Good(Append(s, x))
  <2>1. /\ Append(s, x) \in Text
        /\ Without[bad][Append(s, x)] = IF Skips(Without[bad][s], x, bad) THEN Without[bad][s]
                                        ELSE Append(Without[bad][s], x)
    BY WithoutAppend
  <2>2. Said(Append(s, x)) = Said(s) \cup {x}
    BY SaidAppend
  <2>3. Neat(Append(s, x)) <=> Neat(s) /\ ~(x.is = "line" /\ Blank(s))
    BY NeatAppend
  <2> SUFFICES ASSUME Said(Append(s, x)) \cap bad = {}, Neat(Append(s, x))
               PROVE  Without[bad][Append(s, x)] = Append(s, x)
    OBVIOUS
  <2>4. Without[bad][s] = s
    BY <1>2, <2>2, <2>3
  <2>5. ~Skips(s, x, bad)
    BY <2>2, <2>3 DEF Skips
  <2> QED
    BY <2>1, <2>4, <2>5
<1>3. <<>> \in S /\ S \in SUBSET Text
  BY <1>1, WithoutNone
<1>4. \A s \in S, x \in Token : Append(s, x) \in S
  BY <1>2, WithoutAppend
<1> HIDE DEF S
<1>5. S = Text
  BY <1>3, <1>4, AllTexts
<1> QED
  BY <1>5 DEF S

\* Where a line began, one begins.
LEMMA WithoutBlank ==
  ASSUME NEW bad \in SUBSET Token, NEW t \in Text, Blank(t), \A x \in bad : x.is # "line"
  PROVE  Blank(Without[bad][t])
<1>1. CASE t = <<>>
  BY <1>1, WithoutNone DEF Blank
<1>2. CASE t # <<>>
  <2>1. PICK s \in Text, x \in Token : t = Append(s, x)
    BY <1>2, LastToken
  <2>2. x.is = "line"
    BY <2>1, EndsAppend
  <2>3. PICK w \in Text : w = Without[bad][s]
    BY WithoutText
  <2>4. Without[bad][t] = IF Skips(w, x, bad) THEN w ELSE Append(w, x)
    BY <2>1, <2>3, WithoutAppend
  <2>5. Skips(w, x, bad) => Blank(w)
    BY <2>2 DEF Skips
  <2> QED
    BY <2>2, <2>4, <2>5, EndsAppend
<1> QED
  BY <1>1, <1>2

\* Taking out one set of tokens after the other.
LEMMA WithoutBoth ==
  ASSUME NEW bad \in SUBSET Token, NEW worse \in SUBSET Token, NEW t \in Text,
         \A x \in worse : x.is # "line"
  PROVE  Without[worse][Without[bad][t]] = Without[bad \cup worse][t]
<1> DEFINE both == bad \cup worse
           Good(s) == Without[worse][Without[bad][s]] = Without[both][s]
           S == {s \in Text : Good(s)}
<1>0. both \in SUBSET Token /\ \A x : x \in both <=> x \in bad \/ x \in worse
  OBVIOUS
<1> HIDE DEF both
<1>1. Good(<<>>)
  BY <1>0, WithoutNone
<1>2. ASSUME NEW s \in Text, Good(s), NEW x \in Token PROVE Good(Append(s, x))
  <2>1. PICK w \in Text : w = Without[bad][s]
    BY WithoutText
  <2>2. PICK v \in Text : v = Without[worse][w] /\ v = Without[both][s]
    BY <1>2, <2>1, WithoutText
  <2>3. Without[bad][Append(s, x)] = IF Skips(w, x, bad) THEN w ELSE Append(w, x)
    BY <2>1, WithoutAppend
  <2>4. Without[worse][Append(w, x)] = IF Skips(v, x, worse) THEN v ELSE Append(v, x)
    <3>1. v = Without[worse][w]
      BY <2>2
    <3> QED
      BY <3>1, WithoutAppend
  <2>5. Without[both][Append(s, x)] = IF Skips(v, x, both) THEN v ELSE Append(v, x)
    <3>1. v = Without[both][s]
      BY <2>2
    <3> QED
      BY <1>0, <3>1, WithoutAppend
  <2>6. Blank(w) => Blank(v)
    BY <2>2, WithoutBlank
  <2>7. CASE Skips(w, x, bad)
    <3>1. Skips(v, x, both)
      BY <1>0, <2>6, <2>7 DEF Skips
    <3> QED
      BY <2>2, <2>3, <2>5, <2>7, <3>1
  <2>8. CASE ~Skips(w, x, bad)
    <3>1. Skips(v, x, both) <=> Skips(v, x, worse)
      BY <1>0, <2>8 DEF Skips
    <3> QED
      BY <2>3, <2>4, <2>5, <2>8, <3>1
  <2> QED
    BY <2>7, <2>8
<1>3. <<>> \in S /\ S \in SUBSET Text
  BY <1>1, WithoutNone
<1>4. \A s \in S, x \in Token : Append(s, x) \in S
  BY <1>2, WithoutAppend
<1> HIDE DEF S
<1>5. S = Text
  BY <1>3, <1>4, AllTexts
<1> QED
  BY <1>5 DEF S, both

\* A last token that is not taken out stays the last, unless it ends a line.
LEMMA WithoutLast ==
  ASSUME NEW bad \in SUBSET Token, NEW t \in Text, t # <<>>, t[Len(t)] \notin bad,
         t[Len(t)].is # "line"
  PROVE  /\ Without[bad][t] # <<>>
         /\ Without[bad][t][Len(Without[bad][t])] = t[Len(t)]
<1>1. PICK s \in Text, x \in Token : t = Append(s, x) /\ x = t[Len(t)]
  BY LastToken
<1>2. PICK w \in Text : w = Without[bad][s]
  BY WithoutText
<1>3. Without[bad][t] = Append(w, x)
  <2>1. Without[bad][Append(s, x)] = IF Skips(w, x, bad) THEN w ELSE Append(w, x)
    BY <1>2, WithoutAppend
  <2>2. ~Skips(w, x, bad)
    BY <1>1 DEF Skips
  <2> QED
    BY <1>1, <2>1, <2>2
<1>4. Append(w, x) # <<>> /\ Append(w, x)[Len(Append(w, x))] = x
  BY OneToken
<1> QED
  BY <1>1, <1>3, <1>4
-----------------------------------------------------------------------------
(***************************************************************************)
(* Formatting.                                                             *)
(***************************************************************************)
\* A text in terms of its places.
LEMMA TextPlaces ==
  \A t \in Text : /\ Len(t) \in Nat /\ DOMAIN t = 1 .. Len(t)
                  /\ \A i \in 1 .. Len(t) : t[i] \in Token
                  /\ t # <<>> => Len(t) \in 1 .. Len(t)
                  /\ t = <<>> => Len(t) = 0
<1> SUFFICES ASSUME NEW t \in Text
             PROVE  /\ Len(t) \in Nat /\ DOMAIN t = 1 .. Len(t)
                    /\ \A i \in 1 .. Len(t) : t[i] \in Token
                    /\ t # <<>> => Len(t) \in 1 .. Len(t)
                    /\ t = <<>> => Len(t) = 0
  OBVIOUS
<1>1. Len(t) \in Nat /\ DOMAIN t = 1 .. Len(t) /\ \A i \in 1 .. Len(t) : t[i] \in Token
  BY DEF Text
<1>2. t # <<>> => Len(t) \in 1 .. Len(t)
  BY <1>1 DEF Text
<1>3. t = <<>> => Len(t) = 0
  OBVIOUS
<1> QED
  BY <1>1, <1>2, <1>3

\* A function over places is a text.
LEMMA MadeText ==
  \A n \in Nat : \A f \in [1 .. n -> Token] : f \in Text /\ Len(f) = n
  BY DEF Text

\* Mentioning names changes neither the last token nor anything but addresses.
LEMMA MentionNamesSaid ==
  ASSUME NEW t \in Text
  PROVE  /\ MentionNames(t) \in Text /\ Len(MentionNames(t)) = Len(t)
         /\ t # <<>> => MentionNames(t)[Len(t)] = t[Len(t)]
         /\ Said(MentionNames(t)) \subseteq Said(t) \cup {Ping(b) : b \in Others}
         /\ \A i \in 1 .. Len(t) :
              \/ MentionNames(t)[i] = t[i]
              \/ MentionNames(t)[i].is = "ping" /\ t[i].is = "name"
<1>1. PICK n \in Nat : n = Len(t) /\ DOMAIN t = 1 .. n
  BY TextPlaces
<1>2. ASSUME NEW i \in 1 .. n, Addressed(t, i)
      PROVE  /\ Ping(t[i].of) \in Token /\ Ping(t[i].of) \in {Ping(b) : b \in Others}
             /\ Ping(t[i].of).is = "ping" /\ t[i].is = "name"
             /\ i # n
  <2>1. t[i] \in Token /\ t[i].is = "name" /\ t[i].of # Self /\ i < n
    BY <1>1, <1>2, TextPlaces DEF Addressed
  <2>2. t[i].of \in Bot
    BY <2>1, Tokens
  <2> QED
    BY <2>1, <2>2, Tokens DEF Others, Ping
<1>3. PICK m : m = MentionNames(t)
  OBVIOUS
<1>4. m = [i \in 1 .. n |-> IF Addressed(t, i) /\ StartsSentence(t, i)
                            THEN Ping(t[i].of) ELSE t[i]]
  BY <1>1, <1>3 DEF MentionNames
<1>5. ASSUME NEW i \in 1 .. n
      PROVE  /\ m[i] \in Token
             /\ m[i] \in Said(t) \cup {Ping(b) : b \in Others}
             /\ i = n => m[i] = t[i]
             /\ m[i] = t[i] \/ (m[i].is = "ping" /\ t[i].is = "name")
  <2>1. m[i] = IF Addressed(t, i) /\ StartsSentence(t, i) THEN Ping(t[i].of) ELSE t[i]
    BY <1>4
  <2>2. t[i] \in Token /\ t[i] \in Said(t)
    BY <1>1, TextPlaces DEF Said
  <2> QED
    BY <1>2, <2>1, <2>2
<1>6. m \in [1 .. n -> Token]
  BY <1>4, <1>5
<1>7. m \in Text /\ Len(m) = n /\ DOMAIN m = 1 .. n
  BY <1>6, MadeText
<1>8. Said(m) \subseteq Said(t) \cup {Ping(b) : b \in Others}
  <2> SUFFICES ASSUME NEW i \in DOMAIN m
               PROVE  m[i] \in Said(t) \cup {Ping(b) : b \in Others}
    BY DEF Said
  <2> QED
    BY <1>5, <1>7
<1>9. t # <<>> => m[n] = t[n]
  BY <1>1, <1>5, TextPlaces
<1>10. \A i \in 1 .. n : m[i] = t[i] \/ (m[i].is = "ping" /\ t[i].is = "name")
  BY <1>5
<1> QED
  BY <1>1, <1>3, <1>7, <1>8, <1>9, <1>10

\* The first person, token by token.
Spoken(x) == IF x = Name(Self) \/ x.is = "me" THEN The("word") ELSE x

\* The grammar step turns a token into a word at most, and never a mention.
LEMMA SpokenToken ==
  ASSUME NEW x \in Token
  PROVE  /\ Spoken(x) \in Token
         /\ Spoken(x).is = "ping" <=> x.is = "ping"
         /\ x.is = "ping" => Spoken(x) = x
         /\ Spoken(x).is \notin {"word"} => Spoken(x) = x
         /\ x.is \in {"comma", "stop", "label", "tail", "line"} => Spoken(x) = x
<1>1. The("word") \in Token /\ The("word").is = "word"
  BY Tokens DEF The, Plain
<1>2. Name(Self).is = "name"
  BY DEF Name
<1> QED
  BY <1>1, <1>2 DEF Spoken

\* So it keeps the places, and what is said but for words.
LEMMA FirstPersonSaid ==
  ASSUME NEW t \in Text
  PROVE  /\ FirstPerson[t] \in Text /\ Len(FirstPerson[t]) = Len(t)
         /\ \A i \in 1 .. Len(t) : FirstPerson[t][i] = Spoken(t[i])
         /\ Said(FirstPerson[t]) \subseteq Said(t) \cup {The("word")}
<1>1. PICK n \in Nat : n = Len(t) /\ DOMAIN t = 1 .. n
  BY TextPlaces
<1>2. PICK f : f = FirstPerson[t]
  OBVIOUS
<1>3. f = [i \in 1 .. n |-> Spoken(t[i])]
  BY <1>1, <1>2 DEF FirstPerson, Spoken
<1>4. ASSUME NEW i \in 1 .. n
      PROVE  f[i] = Spoken(t[i]) /\ f[i] \in Token /\ f[i] \in Said(t) \cup {The("word")}
  <2>1. t[i] \in Token /\ t[i] \in Said(t)
    BY <1>1, TextPlaces DEF Said
  <2>2. f[i] = Spoken(t[i])
    BY <1>3
  <2>3. Spoken(t[i]) \in Token
    BY <2>1, SpokenToken
  <2> QED
    BY <2>1, <2>2, <2>3 DEF Spoken
<1>5. f \in [1 .. n -> Token]
  BY <1>3, <1>4
<1>6. f \in Text /\ Len(f) = n /\ DOMAIN f = 1 .. n
  BY <1>5, MadeText
<1>7. Said(f) \subseteq Said(t) \cup {The("word")}
  <2> SUFFICES ASSUME NEW i \in DOMAIN f PROVE f[i] \in Said(t) \cup {The("word")}
    BY DEF Said
  <2> QED
    BY <1>4, <1>6
<1> QED
  BY <1>1, <1>2, <1>4, <1>6, <1>7

\* A beginning of a text.
LEMMA Beginning ==
  ASSUME NEW t \in Text, NEW n \in Nat, n <= Len(t)
  PROVE  /\ SubSeq(t, 1, n) \in Text /\ Len(SubSeq(t, 1, n)) = n
         /\ \A i \in 1 .. n : SubSeq(t, 1, n)[i] = t[i]
         /\ Said(SubSeq(t, 1, n)) \subseteq Said(t)
<1>1. PICK s : s = SubSeq(t, 1, n)
  OBVIOUS
<1>2. s \in Text /\ Len(s) = n /\ \A i \in 1 .. n : s[i] = t[i]
  BY <1>1 DEF Text
<1>3. DOMAIN s = 1 .. n /\ 1 .. n \subseteq DOMAIN t
  <2>1. \A i \in 1 .. n : i \in 1 .. Len(t)
    BY TextPlaces
  <2> QED
    BY <1>2, <2>1, TextPlaces
<1>4. Said(s) \subseteq Said(t)
  BY <1>2, <1>3 DEF Said
<1> QED
  BY <1>1, <1>2, <1>4

\* How a text begins.
Begins(u, t) == Len(u) <= Len(t) /\ \A i \in 1 .. Len(u) : u[i] = t[i]
-----------------------------------------------------------------------------
(***************************************************************************)
(* Lines and their openings.                                               *)
(***************************************************************************)
\* How many breaks there are.
Rows(t) == Cardinality(Breaks(t))

\* They can be counted, and fewer breaks count less.
LEMMA RowsType ==
  ASSUME NEW t \in Text
  PROVE  /\ Breaks(t) \subseteq 1 .. Len(t) /\ IsFiniteSet(Breaks(t)) /\ Rows(t) \in Nat
         /\ \A B : B \subseteq Breaks(t) => Cardinality(B) \in Nat /\ Cardinality(B) <= Rows(t)
<1>1. Breaks(t) \subseteq 1 .. Len(t) /\ Len(t) \in Nat
  BY TextPlaces DEF Breaks
<1>2. IsFiniteSet(1 .. Len(t))
  BY <1>1, FS_Interval
<1>3. IsFiniteSet(Breaks(t)) /\ Rows(t) \in Nat
  BY <1>1, <1>2, Part DEF Rows
<1> QED
  BY <1>1, <1>3, Part DEF Rows

\* A break counts one.
LEMMA RowsAppend ==
  /\ Rows(<<>>) = 0
  /\ \A t \in Text, x \in Token :
       Rows(Append(t, x)) = IF x.is = "line" THEN Rows(t) + 1 ELSE Rows(t)
<1>1. Rows(<<>>) = 0
  <2>1. Breaks(<<>>) = {}
    BY DEF Breaks
  <2> QED
    BY <2>1, FS_EmptySet DEF Rows
<1>2. ASSUME NEW t \in Text, NEW x \in Token
      PROVE  Rows(Append(t, x)) = IF x.is = "line" THEN Rows(t) + 1 ELSE Rows(t)
  <2>1. PICK n \in Nat : n = Len(t) /\ DOMAIN t = 1 .. n
    BY TextPlaces
  <2>2. PICK u \in Text : /\ u = Append(t, x) /\ Len(u) = n + 1 /\ u[n + 1] = x
                          /\ \A i \in 1 .. n : u[i] = t[i]
    <3>1. /\ Append(t, x) \in Text /\ Len(Append(t, x)) = Len(t) + 1
          /\ Append(t, x)[Len(t) + 1] = x
          /\ \A i \in 1 .. Len(t) : Append(t, x)[i] = t[i]
      BY OneToken, Zenon
    <3> QED
      BY <2>1, <3>1, Zenon
  <2>3. DOMAIN u = 1 .. n + 1
    BY <2>2, TextPlaces
  <2>4. \A i : i \in 1 .. n + 1 <=> i \in 1 .. n \/ i = n + 1
    OBVIOUS
  <2>5. n + 1 \notin Breaks(t)
    BY <2>1 DEF Breaks
  <2>6. \A i : i \in Breaks(u) <=> i \in Breaks(t) \/ (i = n + 1 /\ x.is = "line")
    BY <2>1, <2>2, <2>3, <2>4 DEF Breaks
  <2>7. CASE x.is = "line"
    <3>1. Breaks(u) = Breaks(t) \cup {n + 1}
      BY <2>6, <2>7
    <3>2. Cardinality(Breaks(t) \cup {n + 1}) = Cardinality(Breaks(t)) + 1
      BY <2>5, RowsType, FS_AddElement
    <3> QED
      BY <2>2, <2>7, <3>1, <3>2 DEF Rows
  <2>8. CASE x.is # "line"
    <3>1. Breaks(u) = Breaks(t)
      BY <2>6, <2>8
    <3> QED
      BY <2>2, <2>8, <3>1 DEF Rows
  <2> QED
    BY <2>7, <2>8
<1> QED
  BY <1>1, <1>2

\* There are no more breaks when tokens are taken out.
LEMMA RowsWithout ==
  ASSUME NEW bad \in SUBSET Token, NEW t \in Text
  PROVE  Rows(Without[bad][t]) <= Rows(t)
<1> DEFINE S == {s \in Text : Rows(Without[bad][s]) <= Rows(s)}
<1>1. <<>> \in S /\ S \in SUBSET Text
  BY WithoutNone, RowsAppend
<1>2. ASSUME NEW s \in S, NEW x \in Token PROVE Append(s, x) \in S
  <2>1. PICK w \in Text : w = Without[bad][s] /\ Rows(w) <= Rows(s)
    BY WithoutText
  <2>2. /\ Append(s, x) \in Text
        /\ Without[bad][Append(s, x)] = IF Skips(w, x, bad) THEN w ELSE Append(w, x)
    BY <2>1, WithoutAppend
  <2>3. /\ Rows(Append(s, x)) = IF x.is = "line" THEN Rows(s) + 1 ELSE Rows(s)
        /\ Rows(Append(w, x)) = IF x.is = "line" THEN Rows(w) + 1 ELSE Rows(w)
    BY RowsAppend
  <2>4. Rows(s) \in Nat /\ Rows(w) \in Nat
    BY RowsType
  <2>5. Rows(Without[bad][Append(s, x)]) <= Rows(Append(s, x))
    BY <2>1, <2>2, <2>3, <2>4
  <2> QED
    BY <2>2, <2>5
<1> HIDE DEF S
<1>3. S = Text
  BY <1>1, <1>2, AllTexts
<1> QED
  BY <1>3 DEF S

\* Trimming the end.
LEMMA ChompIs ==
  /\ Chomp(<<>>) = <<>>
  /\ \A s \in Text, x \in Token :
       Chomp(Append(s, x)) = IF x.is = "line" THEN s ELSE Append(s, x)
<1>1. Chomp(<<>>) = <<>>
  BY DEF Chomp, Ends
<1>2. ASSUME NEW s \in Text, NEW x \in Token
      PROVE  Chomp(Append(s, x)) = IF x.is = "line" THEN s ELSE Append(s, x)
  <2>1. PICK n \in Nat : n = Len(s)
    BY TextPlaces
  <2>2. PICK t \in Text : /\ t = Append(s, x) /\ Len(t) = n + 1
                          /\ \A i \in 1 .. n : t[i] = s[i]
    <3>1. /\ Append(s, x) \in Text /\ Len(Append(s, x)) = Len(s) + 1
          /\ Append(s, x)[Len(s) + 1] = x
          /\ \A i \in 1 .. Len(s) : Append(s, x)[i] = s[i]
      BY OneToken, Zenon
    <3> QED
      BY <2>1, <3>1, Zenon
  <2>3. Ends(t, "line") <=> x.is = "line"
    BY <2>2, EndsAppend
  <2>4. PICK u \in Text : u = SubSeq(t, 1, n) /\ Len(u) = n /\ \A i \in 1 .. n : u[i] = t[i]
    <3>1. n <= Len(t)
      BY <2>2
    <3>2. /\ SubSeq(t, 1, n) \in Text /\ Len(SubSeq(t, 1, n)) = n
          /\ \A i \in 1 .. n : SubSeq(t, 1, n)[i] = t[i]
      BY <3>1, Beginning
    <3> QED
      BY <3>2
  <2>5. u = s
    <3>1. \A i \in 1 .. n : u[i] = s[i]
      BY <2>2, <2>4
    <3> QED
      BY ONLY <2>1, <2>4, <3>1, u \in Text, s \in Text, SeqEqual DEF Text
  <2>6. SubSeq(t, 1, Len(t) - 1) = s
    BY <2>2, <2>4, <2>5
  <2> QED
    BY <2>2, <2>3, <2>6 DEF Chomp
<1> QED
  BY <1>1, <1>2

\* It takes away no more than a break at the end.
LEMMA ChompSaid ==
  ASSUME NEW t \in Text
  PROVE  /\ Chomp(t) \in Text /\ Begins(Chomp(t), t) /\ Said(Chomp(t)) \subseteq Said(t)
         /\ ~Ends(t, "line") => Chomp(t) = t
         /\ Neat(t) => Neat(Chomp(t)) /\ ~Ends(Chomp(t), "line")
<1>1. CASE t = <<>>
  <2>1. Chomp(t) = t /\ Begins(t, t) /\ ~Ends(t, "line")
    BY <1>1, ChompIs DEF Begins, Ends
  <2> QED
    BY <2>1
<1>2. CASE t # <<>>
  <2>1. PICK s \in Text, x \in Token : t = Append(s, x)
    BY <1>2, LastToken
  <2>2. /\ Len(s) \in Nat /\ Len(t) = Len(s) + 1 /\ \A i \in 1 .. Len(s) : t[i] = s[i]
        /\ Len(t) \in Nat
    BY <2>1, OneToken, TextPlaces
  <2>3. Begins(s, t) /\ Begins(t, t)
    BY <2>2 DEF Begins
  <2>4. Chomp(t) = IF x.is = "line" THEN s ELSE t
    BY <2>1, ChompIs
  <2>5. Ends(t, "line") <=> x.is = "line"
    BY <2>1, EndsAppend
  <2>6. Said(s) \subseteq Said(t)
    BY <2>1, SaidAppend
  <2>7. Neat(t) <=> Neat(s) /\ ~(x.is = "line" /\ Blank(s))
    BY <2>1, NeatAppend
  <2>8. CASE x.is = "line"
    BY <2>3, <2>4, <2>5, <2>6, <2>7, <2>8 DEF Blank
  <2>9. CASE x.is # "line"
    BY <2>3, <2>4, <2>5, <2>9
  <2> QED
    BY <2>8, <2>9
<1> QED
  BY <1>1, <1>2

\* Trimming before tokens are taken out makes no difference, if one trims after.
LEMMA ChompWithout ==
  ASSUME NEW bad \in SUBSET Token, NEW t \in Text
  PROVE  Chomp(Without[bad][Chomp(t)]) = Chomp(Without[bad][t])
<1>1. CASE t = <<>>
  BY <1>1, ChompIs
<1>2. CASE t # <<>>
  <2>1. PICK s \in Text, x \in Token : t = Append(s, x)
    BY <1>2, LastToken
  <2>2. Chomp(t) = IF x.is = "line" THEN s ELSE t
    BY <2>1, ChompIs
  <2>3. PICK w \in Text : w = Without[bad][s]
    BY WithoutText
  <2>4. Without[bad][t] = IF Skips(w, x, bad) THEN w ELSE Append(w, x)
    BY <2>1, <2>3, WithoutAppend
  <2>5. CASE x.is # "line"
    BY <2>2, <2>5
  <2>6. CASE x.is = "line" /\ Skips(w, x, bad)
    BY <2>2, <2>3, <2>4, <2>6
  <2>7. CASE x.is = "line" /\ ~Skips(w, x, bad)
    <3>1. Chomp(Append(w, x)) = w
      BY <2>7, ChompIs
    <3>2. ~Ends(w, "line")
      BY <2>7 DEF Skips, Blank
    <3>3. Chomp(w) = w
      BY <3>2, ChompSaid
    <3> QED
      BY <2>2, <2>3, <2>4, <2>7, <3>1, <3>3
  <2> QED
    BY <2>5, <2>6, <2>7
<1> QED
  BY <1>1, <1>2

\* A line has begun, and so far all its tokens are thin.
Open(t, thin) ==
  \E j \in 1 .. Len(t) + 1 :
    /\ j = 1 \/ t[j - 1].is = "line"
    /\ \A k \in j .. Len(t) : t[k].is \in thin

\* What a token adds to it.
LEMMA OpenAppend ==
  ASSUME NEW thin, "line" \notin thin
  PROVE  /\ Open(<<>>, thin)
         /\ \A t \in Text, x \in Token :
              Open(Append(t, x), thin) <=> x.is = "line" \/ (x.is \in thin /\ Open(t, thin))
<1>1. Open(<<>>, thin)
  <2>1. Len(<<>>) = 0 /\ 1 \in 1 .. 0 + 1 /\ \A k \in 1 .. 0 : FALSE
    OBVIOUS
  <2> QED
    BY <2>1 DEF Open
<1>2. ASSUME NEW t \in Text, NEW x \in Token
      PROVE  Open(Append(t, x), thin) <=> x.is = "line" \/ (x.is \in thin /\ Open(t, thin))
  <2>1. PICK n \in Nat : n = Len(t)
    BY TextPlaces
  <2>2. PICK u \in Text : /\ u = Append(t, x) /\ Len(u) = n + 1 /\ u[n + 1] = x
                          /\ \A i \in 1 .. n : u[i] = t[i]
    <3>1. /\ Append(t, x) \in Text /\ Len(Append(t, x)) = Len(t) + 1
          /\ Append(t, x)[Len(t) + 1] = x
          /\ \A i \in 1 .. Len(t) : Append(t, x)[i] = t[i]
      BY OneToken, Zenon
    <3> QED
      BY <2>1, <3>1, Zenon
  <2>3. ASSUME NEW j \in 1 .. n + 1, j # 1 PROVE j - 1 \in 1 .. n /\ u[j - 1] = t[j - 1]
    BY <2>2, <2>3
  <2>4. ASSUME x.is = "line" PROVE Open(u, thin)
    <3>1. n + 2 \in 1 .. (n + 1) + 1 /\ n + 2 - 1 = n + 1 /\ \A k \in n + 2 .. n + 1 : FALSE
      OBVIOUS
    <3> QED
      BY <2>2, <2>4, <3>1 DEF Open
  <2>5. ASSUME x.is \in thin, Open(t, thin) PROVE Open(u, thin)
    <3>1. PICK j \in 1 .. n + 1 : /\ j = 1 \/ t[j - 1].is = "line"
                                  /\ \A k \in j .. n : t[k].is \in thin
      BY <2>1, <2>5 DEF Open
    <3>2. j \in 1 .. (n + 1) + 1 /\ (j = 1 \/ u[j - 1].is = "line")
      BY <2>3, <3>1
    <3>3. ASSUME NEW k \in j .. n + 1 PROVE u[k].is \in thin
      <4>1. k = n + 1 \/ (k \in j .. n /\ k \in 1 .. n)
        BY <3>1
      <4> QED
        BY <2>2, <2>5, <3>1, <4>1
    <3> QED
      BY <2>2, <3>2, <3>3 DEF Open
  <2>6. ASSUME Open(u, thin), x.is # "line" PROVE x.is \in thin /\ Open(t, thin)
    <3>1. PICK j \in 1 .. (n + 1) + 1 : /\ j = 1 \/ u[j - 1].is = "line"
                                        /\ \A k \in j .. n + 1 : u[k].is \in thin
      BY <2>2, <2>6 DEF Open
    <3>2. j # n + 2
      <4>1. n + 2 # 1 /\ n + 2 - 1 = n + 1
        OBVIOUS
      <4> QED
        BY <2>2, <2>6, <3>1, <4>1
    <3>3. j \in 1 .. n + 1 /\ n + 1 \in j .. n + 1
      BY <3>2
    <3>4. \A k \in j .. n : k \in j .. n + 1 /\ k \in 1 .. n
      BY <3>3
    <3> QED
      BY <2>1, <2>2, <2>3, <3>1, <3>3, <3>4 DEF Open
  <2> QED
    BY <2>2, <2>4, <2>5, <2>6
<1> QED
  BY <1>1, <1>2

\* A label is shown if a line was open for it.
LEMMA ShowsAppend ==
  ASSUME NEW thin, "line" \notin thin
  PROVE  /\ ~Shows(<<>>, thin)
         /\ \A t \in Text, x \in Token :
              Shows(Append(t, x), thin) <=> Shows(t, thin) \/ (x.is = "label" /\ Open(t, thin))
<1>1. ~Shows(<<>>, thin)
  BY DEF Shows
<1>2. ASSUME NEW t \in Text, NEW x \in Token
      PROVE  Shows(Append(t, x), thin) <=> Shows(t, thin) \/ (x.is = "label" /\ Open(t, thin))
  <2>1. PICK n \in Nat : n = Len(t) /\ DOMAIN t = 1 .. n
    BY TextPlaces
  <2>2. PICK u \in Text : /\ u = Append(t, x) /\ Len(u) = n + 1 /\ u[n + 1] = x
                          /\ \A i \in 1 .. n : u[i] = t[i]
    <3>1. /\ Append(t, x) \in Text /\ Len(Append(t, x)) = Len(t) + 1
          /\ Append(t, x)[Len(t) + 1] = x
          /\ \A i \in 1 .. Len(t) : Append(t, x)[i] = t[i]
      BY OneToken, Zenon
    <3> QED
      BY <2>1, <3>1, Zenon
  <2>3. DOMAIN u = 1 .. n + 1
    BY <2>2, TextPlaces
  <2> DEFINE Opens(v, i) == \E j \in 1 .. i : /\ StartsLine(v, j)
                                              /\ \A k \in j .. i - 1 : v[k].is \in thin
  <2>4. \A i \in 1 .. n + 1, j \in 1 .. n + 1 : j <= i =>
          /\ j # 1 => u[j - 1] = t[j - 1]
          /\ \A k \in j .. i - 1 : u[k] = t[k]
    <3>1. \A i \in 1 .. n + 1, j \in 1 .. n + 1 : j <= i =>
            (j # 1 => j - 1 \in 1 .. n) /\ \A k \in j .. i - 1 : k \in 1 .. n
      OBVIOUS
    <3> QED
      BY ONLY <2>2, <3>1
  <2>5. ASSUME NEW i \in 1 .. n + 1 PROVE Opens(u, i) <=> Opens(t, i)
    <3>1. \A j \in 1 .. i : j \in 1 .. n + 1 /\ j <= i
      OBVIOUS
    <3>2. \A j \in 1 .. i : /\ StartsLine(u, j) <=> StartsLine(t, j)
                            /\ \A k \in j .. i - 1 : u[k] = t[k]
      BY <2>4, <3>1 DEF StartsLine
    <3> QED
      BY ONLY <3>2
  <2>6. Opens(t, n + 1) <=> Open(t, thin)
    <3>1. n + 1 - 1 = n
      OBVIOUS
    <3> QED
      BY <2>1, <3>1 DEF Open, StartsLine
  <2>7. Shows(u, thin) <=> \E i \in 1 .. n + 1 : u[i].is = "label" /\ Opens(u, i)
    BY <2>3 DEF Shows
  <2>8. Shows(t, thin) <=> \E i \in 1 .. n : t[i].is = "label" /\ Opens(t, i)
    BY <2>1 DEF Shows
  <2> HIDE DEF Opens
  <2>9. \A i : i \in 1 .. n + 1 <=> i \in 1 .. n \/ i = n + 1
    OBVIOUS
  <2> QED
    BY <2>2, <2>5, <2>6, <2>7, <2>8, <2>9
<1> QED
  BY <1>1, <1>2

\* To take thin tokens out shows no label that did not show through them.
LEMMA ShowsWithout ==
  ASSUME NEW thin, "line" \notin thin, NEW bad \in SUBSET Token, \A x \in bad : x.is \in thin,
         NEW t \in Text, Shows(Without[bad][t], thin)
  PROVE  Shows(t, thin)
<1> DEFINE Good(s) == /\ Shows(Without[bad][s], thin) => Shows(s, thin)
                      /\ Open(Without[bad][s], thin) => Open(s, thin)
           S == {s \in Text : Good(s)}
<1>1. Good(<<>>)
  BY WithoutNone
<1>2. ASSUME NEW s \in Text, Good(s), NEW x \in Token PROVE Good(Append(s, x))
  <2>1. PICK w \in Text : w = Without[bad][s]
    BY WithoutText
  <2>2. Without[bad][Append(s, x)] = IF Skips(w, x, bad) THEN w ELSE Append(w, x)
    BY <2>1, WithoutAppend
  <2>3. /\ Shows(Append(s, x), thin) <=> Shows(s, thin) \/ (x.is = "label" /\ Open(s, thin))
        /\ Open(Append(s, x), thin) <=> x.is = "line" \/ (x.is \in thin /\ Open(s, thin))
    BY ShowsAppend, OpenAppend
  <2>4. /\ Shows(Append(w, x), thin) <=> Shows(w, thin) \/ (x.is = "label" /\ Open(w, thin))
        /\ Open(Append(w, x), thin) <=> x.is = "line" \/ (x.is \in thin /\ Open(w, thin))
    BY ShowsAppend, OpenAppend
  <2>5. /\ Shows(w, thin) => Shows(s, thin)
        /\ Open(w, thin) => Open(s, thin)
    BY <1>2, <2>1
  <2>6. CASE Skips(w, x, bad)
    <3>1. x.is \in thin \/ x.is = "line"
      BY <2>6 DEF Skips
    <3> QED
      BY <2>2, <2>3, <2>5, <2>6, <3>1
  <2>7. CASE ~Skips(w, x, bad)
    BY <2>2, <2>3, <2>4, <2>5, <2>7
  <2> QED
    BY <2>6, <2>7
<1>3. <<>> \in S /\ S \in SUBSET Text
  BY <1>1, WithoutNone
<1>4. \A s \in S, x \in Token : Append(s, x) \in S
  BY <1>2, WithoutAppend
<1> HIDE DEF S
<1>5. S = Text
  BY <1>3, <1>4, AllTexts
<1> QED
  BY <1>5 DEF S

\* Token by token, u is no thinner than the beginning of t.
NoThinner(u, t, thin) ==
  /\ Len(u) <= Len(t)
  /\ \A i \in 1 .. Len(u) : /\ u[i].is \in thin => t[i].is \in thin
                            /\ u[i].is \in {"line", "label"} => t[i].is = u[i].is

\* Then it shows no label that t does not show.
LEMMA ShowsAlong ==
  ASSUME NEW u \in Text, NEW t \in Text, NEW thin, NoThinner(u, t, thin), Shows(u, thin)
  PROVE  Shows(t, thin)
<1>1. PICK n \in Nat, m \in Nat : /\ n = Len(u) /\ DOMAIN u = 1 .. n
                                  /\ m = Len(t) /\ DOMAIN t = 1 .. m /\ n <= m
  BY TextPlaces DEF NoThinner
<1>2. PICK i \in 1 .. n :
        u[i].is = "label" /\ \E j \in 1 .. i : /\ StartsLine(u, j)
                                              /\ \A k \in j .. i - 1 : u[k].is \in thin
  BY <1>1 DEF Shows
<1>3. PICK j \in 1 .. i : StartsLine(u, j) /\ \A k \in j .. i - 1 : u[k].is \in thin
  BY <1>2
<1>4. /\ i \in 1 .. m /\ (j # 1 => j - 1 \in 1 .. n) /\ \A k \in j .. i - 1 : k \in 1 .. n
  BY <1>1, <1>3
<1>5. t[i].is = "label"
  BY <1>1, <1>2 DEF NoThinner
<1>6. StartsLine(t, j)
  BY <1>1, <1>3, <1>4 DEF StartsLine, NoThinner
<1>7. \A k \in j .. i - 1 : t[k].is \in thin
  BY <1>1, <1>3, <1>4 DEF NoThinner
<1> QED
  BY <1>1, <1>4, <1>5, <1>6, <1>7 DEF Shows

\* What a text says at its beginning.
LEMMA BeginsKeeps ==
  ASSUME NEW u \in Text, NEW t \in Text, Begins(u, t)
  PROVE  /\ Neat(t) => Neat(u)
         /\ Rows(u) <= Rows(t)
         /\ \A thin : Shows(u, thin) => Shows(t, thin)
         /\ Said(u) \subseteq Said(t)
<1>1. PICK n \in Nat, m \in Nat : /\ n = Len(u) /\ DOMAIN u = 1 .. n
                                  /\ m = Len(t) /\ DOMAIN t = 1 .. m /\ n <= m
  BY TextPlaces DEF Begins
<1>2. \A i \in 1 .. n : i \in 1 .. m /\ u[i] = t[i] /\ (i # 1 => u[i - 1] = t[i - 1])
  <2>1. \A i \in 1 .. n : i \in 1 .. m /\ (i # 1 => i - 1 \in 1 .. n)
    BY <1>1
  <2> QED
    BY <1>1, <2>1 DEF Begins
<1>3. Breaks(u) \subseteq Breaks(t)
  BY <1>1, <1>2 DEF Breaks
<1>4. Neat(t) => Neat(u)
  BY <1>1, <1>2, <1>3 DEF Neat, Breaks
<1>5. Rows(u) <= Rows(t)
  BY <1>3, RowsType DEF Rows
<1>6. \A thin : NoThinner(u, t, thin)
  BY <1>1, <1>2 DEF NoThinner
<1>7. \A thin : Shows(u, thin) => Shows(t, thin)
  BY <1>6, ShowsAlong
<1>8. Said(u) \subseteq Said(t)
  BY <1>1, <1>2 DEF Said
<1> QED
  BY <1>4, <1>5, <1>7, <1>8
-----------------------------------------------------------------------------
(***************************************************************************)
(* The cap.                                                                *)
(***************************************************************************)
\* The first lines of a text: all of them, or the largest number there may be.
LEMMA FirstLinesSaid ==
  ASSUME NEW t \in Text
  PROVE  /\ FirstLines(t) \in Text /\ Begins(FirstLines(t), t)
         /\ Rows(t) < MaxLines => FirstLines(t) = t
         /\ Rows(FirstLines(t)) < MaxLines
<1>1. PICK n \in Nat : n = Len(t) /\ DOMAIN t = 1 .. n
  BY TextPlaces
<1> DEFINE Before(i) == {j \in Breaks(t) : j <= i}
<1>2. \A i : Cardinality(Before(i)) \in Nat /\ Cardinality(Before(i)) <= Rows(t)
  BY RowsType
<1>3. TooFar(t) = {i \in 1 .. n : Cardinality(Before(i)) >= MaxLines}
  BY <1>1 DEF TooFar
<1>4. Rows(t) \in Nat
  BY RowsType
<1>5. Rows(t) < MaxLines <=> TooFar(t) = {}
  <2>1. ASSUME Rows(t) >= MaxLines PROVE TooFar(t) # {}
    <3>1. Before(n) = Breaks(t)
      BY <1>1, RowsType
    <3>2. n # 0
      <4>1. ASSUME n = 0 PROVE FALSE
        <5>1. Breaks(t) = {}
          BY <1>1, <4>1, RowsType
        <5> QED
          BY <2>1, <5>1, FS_EmptySet DEF Rows
      <4> QED
        BY <4>1
    <3> HIDE DEF Before
    <3> QED
      BY <1>3, <2>1, <3>1, <3>2 DEF Rows
  <2>2. ASSUME TooFar(t) # {} PROVE Rows(t) >= MaxLines
    <3>1. PICK i \in 1 .. n : Cardinality(Before(i)) >= MaxLines
      BY <1>3, <2>2
    <3> HIDE DEF Before
    <3> QED
      BY <1>2, <1>4, <3>1
  <2> QED
    BY <1>4, <2>1, <2>2
<1>6. CASE TooFar(t) = {}
  <2>1. FirstLines(t) = t
    BY <1>6 DEF FirstLines
  <2>2. Begins(t, t)
    BY <1>1 DEF Begins
  <2> QED
    BY <1>5, <1>6, <2>1, <2>2
<1>7. CASE TooFar(t) # {}
  <2>1. PICK l \in TooFar(t) : l = Least(TooFar(t)) /\ \A j \in TooFar(t) : l <= j
    <3>1. TooFar(t) \in SUBSET Nat
      BY <1>3
    <3>2. \E l \in TooFar(t) : \A j \in TooFar(t) : l <= j
      BY <1>7, <3>1, Smallest
    <3> QED
      BY <3>2 DEF Least
  <2>2. l \in 1 .. n
    BY <1>3, <2>1
  <2>3. PICK k \in Nat : k = l - 1 /\ k <= n /\ ~(l <= k)
    BY <2>2
  <2>4. PICK u \in Text : u = SubSeq(t, 1, k) /\ Len(u) = k /\ \A i \in 1 .. k : u[i] = t[i]
    <3>1. /\ SubSeq(t, 1, k) \in Text /\ Len(SubSeq(t, 1, k)) = k
          /\ \A i \in 1 .. k : SubSeq(t, 1, k)[i] = t[i]
      BY <1>1, <2>3, Beginning
    <3> QED
      BY <3>1
  <2>5. FirstLines(t) = u
    BY <1>7, <2>1, <2>3, <2>4 DEF FirstLines
  <2>6. Begins(u, t)
    BY <1>1, <2>3, <2>4 DEF Begins
  <2>7. Breaks(u) = Before(k)
    <3>1. DOMAIN u = 1 .. k
      BY <2>4, TextPlaces
    <3>2. \A i : i \in 1 .. k <=> i \in 1 .. n /\ i <= k
      BY <2>3
    <3> QED
      BY <1>1, <2>4, <3>1, <3>2 DEF Breaks
  <2>8. Rows(u) < MaxLines
    <3>1. CASE k = 0
      <4>1. Breaks(u) = {}
        <5>1. Breaks(u) \subseteq 1 .. 0
          BY <2>4, <3>1, RowsType
        <5> QED
          BY <5>1
      <4> QED
        BY <4>1, FS_EmptySet DEF Rows
    <3>2. CASE k # 0
      <4>1. k \in 1 .. n
        BY <2>2, <2>3, <3>2
      <4>2. k \notin TooFar(t)
        BY <2>1, <2>3
      <4>3. ~(Cardinality(Before(k)) >= MaxLines)
        BY <1>3, <4>1, <4>2
      <4> HIDE DEF Before
      <4> QED
        BY <1>2, <2>7, <4>3 DEF Rows
    <3> QED
      BY <3>1, <3>2
  <2>9. ~(Rows(t) < MaxLines)
    BY <1>5, <1>7
  <2> QED
    BY <2>5, <2>6, <2>8, <2>9
<1> QED
  BY <1>6, <1>7

\* A beginning of a beginning.
LEMMA BeginsBegins ==
  ASSUME NEW u \in Text, NEW v \in Text, NEW t \in Text, Begins(u, v), Begins(v, t)
  PROVE  Begins(u, t)
<1>1. Len(u) \in Nat /\ Len(v) \in Nat /\ Len(t) \in Nat
  BY TextPlaces
<1>2. \A i \in 1 .. Len(u) : i \in 1 .. Len(v)
  BY <1>1 DEF Begins
<1> QED
  BY <1>1, <1>2 DEF Begins

\* What is too long ends with a full stop after the cut.
LEMMA CutSaid ==
  ASSUME NEW lines \in Text, Len(lines) > MaxLen, NEW u,
         LET cut == Chomp(SubSeq(lines, 1, MaxLen)) IN
         u = IF Stops(cut) # {} THEN SubSeq(cut, 1, LastStop(cut)) ELSE Append(cut, The("stop"))
  PROVE  /\ u \in Text /\ Ends(u, "stop")
         /\ \E v \in Text : Begins(v, lines) /\ u \in {v, Append(v, The("stop"))}
<1>1. MaxLen \in Nat /\ Len(lines) \in Nat /\ MaxLen <= Len(lines)
  BY TextPlaces
<1>2. PICK first \in Text : first = SubSeq(lines, 1, MaxLen) /\ Begins(first, lines)
  <2>1. /\ SubSeq(lines, 1, MaxLen) \in Text /\ Len(SubSeq(lines, 1, MaxLen)) = MaxLen
        /\ \A i \in 1 .. MaxLen : SubSeq(lines, 1, MaxLen)[i] = lines[i]
    BY <1>1, Beginning
  <2> QED
    BY <1>1, <2>1 DEF Begins
<1>3. PICK cut \in Text : cut = Chomp(first) /\ Begins(cut, lines)
  BY <1>2, ChompSaid, BeginsBegins
<1>4. u = IF Stops(cut) # {} THEN SubSeq(cut, 1, LastStop(cut)) ELSE Append(cut, The("stop"))
  BY <1>2, <1>3
<1>5. CASE Stops(cut) # {}
  <2>1. PICK n \in Nat : n = Len(cut) /\ Stops(cut) \in SUBSET (1 .. n)
    BY TextPlaces DEF Stops
  <2>2. IsFiniteSet(Stops(cut)) /\ Stops(cut) \in SUBSET Nat
    <3>1. \A i \in 1 .. n : i \in Nat
      OBVIOUS
    <3> QED
      BY <2>1, <3>1, SomeUpTo
  <2>3. \E m \in Stops(cut) : \A k \in Stops(cut) : k <= m
    BY <1>5, <2>2, Greatest
  <2>4. LastStop(cut) \in Stops(cut)
    BY <2>3, Zenon DEF LastStop
  <2>5. PICK k \in 1 .. n : k = LastStop(cut) /\ cut[k].is = "stop"
    BY <2>1, <2>4 DEF Stops
  <2>6. k \in Nat /\ k <= Len(cut) /\ k \in 1 .. k /\ k # 0
    BY <2>1, <2>5
  <2>7. PICK s : s = SubSeq(cut, 1, k)
    OBVIOUS
  <2>8. s \in Text /\ Len(s) = k /\ \A i \in 1 .. k : s[i] = cut[i]
    BY <2>6, <2>7, Beginning
  <2>9. Begins(s, lines)
    <3>1. Begins(s, cut)
      BY <2>6, <2>8 DEF Begins
    <3> QED
      BY <1>3, <2>8, <3>1, BeginsBegins
  <2>10. Ends(s, "stop")
    <3>1. s # <<>>
      BY <2>6, <2>8, TextPlaces
    <3> QED
      BY <2>5, <2>6, <2>8, <3>1 DEF Ends
  <2>11. u = s
    BY <1>4, <1>5, <2>5, <2>7
  <2> QED
    BY <2>8, <2>9, <2>10, <2>11
<1>6. CASE Stops(cut) = {}
  <2>1. The("stop") \in Token /\ The("stop").is = "stop"
    BY Tokens DEF The, Plain
  <2>2. u = Append(cut, The("stop"))
    BY <1>4, <1>6
  <2>3. u \in Text
    BY <2>1, <2>2, OneToken
  <2>4. Ends(u, "stop")
    BY <2>1, <2>2, EndsAppend
  <2> QED
    BY <1>3, <2>2, <2>3, <2>4
<1> QED
  BY <1>5, <1>6

\* The lines that fit, or what is cut.
LEMMA CapCases ==
  ASSUME NEW t \in Text
  PROVE  \E lines \in Text :
           /\ lines = Chomp(FirstLines(t)) /\ Begins(lines, t) /\ Rows(lines) < MaxLines
           /\ Neat(t) => ~Ends(lines, "line")
           /\ \/ Len(lines) <= MaxLen /\ Cap[t] = lines
              \/ /\ Cap[t] \in Text /\ Ends(Cap[t], "stop") /\ Len(lines) > MaxLen
                 /\ \E v \in Text : Begins(v, lines) /\ Cap[t] \in {v, Append(v, The("stop"))}
<1>1. PICK first \in Text : first = FirstLines(t) /\ Begins(first, t) /\ Rows(first) < MaxLines
  BY FirstLinesSaid
<1>2. PICK lines \in Text : lines = Chomp(first) /\ Begins(lines, first)
  BY ChompSaid
<1>3. Begins(lines, t)
  BY <1>1, <1>2, BeginsBegins
<1>4. Rows(lines) < MaxLines
  <2>1. Rows(lines) <= Rows(first) /\ Rows(lines) \in Nat /\ Rows(first) \in Nat
    BY <1>2, BeginsKeeps, RowsType
  <2> QED
    BY <1>1, <2>1
<1>5. Neat(t) => ~Ends(lines, "line")
  <2>1. Neat(t) => Neat(first)
    BY <1>1, BeginsKeeps
  <2> QED
    BY <1>2, <2>1, ChompSaid
<1>6. PICK u : u = Cap[t]
  OBVIOUS
<1>7. LET cut == Chomp(SubSeq(lines, 1, MaxLen)) IN
      u = IF Len(lines) <= MaxLen THEN lines
          ELSE IF Stops(cut) # {} THEN SubSeq(cut, 1, LastStop(cut))
          ELSE Append(cut, The("stop"))
  BY <1>1, <1>2, <1>6 DEF Cap
<1>8. CASE Len(lines) <= MaxLen
  <2>1. u = lines
    BY <1>7, <1>8
  <2> QED
    BY <1>1, <1>2, <1>3, <1>4, <1>5, <1>6, <1>8, <2>1
<1>9. CASE ~(Len(lines) <= MaxLen)
  <2>1. Len(lines) > MaxLen
    BY <1>9, TextPlaces
  <2>2. /\ u \in Text /\ Ends(u, "stop")
        /\ \E v \in Text : Begins(v, lines) /\ u \in {v, Append(v, The("stop"))}
    BY <1>7, <1>9, <2>1, CutSaid
  <2> QED
    BY <1>1, <1>2, <1>3, <1>4, <1>5, <1>6, <2>1, <2>2
<1> QED
  BY <1>8, <1>9

\* A text with a full stop more, which no property minds.
LEMMA StopMore ==
  ASSUME NEW v \in Text, NEW t \in Text, Begins(v, t), NEW u \in {v, Append(v, The("stop"))}
  PROVE  /\ u \in Text /\ Said(u) \subseteq Said(t) \cup {The("stop")}
         /\ Rows(u) <= Rows(t)
         /\ \A thin : "line" \notin thin => (Shows(u, thin) => Shows(t, thin))
<1>1. The("stop") \in Token /\ The("stop").is = "stop"
  BY Tokens DEF The, Plain
<1>2. /\ Append(v, The("stop")) \in Text
      /\ Said(Append(v, The("stop"))) = Said(v) \cup {The("stop")}
      /\ Rows(Append(v, The("stop"))) = Rows(v)
      /\ \A thin : "line" \notin thin => (Shows(Append(v, The("stop")), thin) <=> Shows(v, thin))
  BY <1>1, OneToken, SaidAppend, RowsAppend, ShowsAppend
<1>3. /\ Said(v) \subseteq Said(t) /\ Rows(v) <= Rows(t)
      /\ \A thin : Shows(v, thin) => Shows(t, thin)
  BY BeginsKeeps
<1> QED
  BY <1>2, <1>3

\* The cap keeps beginnings; what is too long ends with a full stop, and what
\* has too many lines ends where the lines end.
LEMMA CapSaid ==
  ASSUME NEW t \in Text
  PROVE  /\ Cap[t] \in Text
         /\ Said(Cap[t]) \subseteq Said(t) \cup {The("stop")}
         /\ Rows(Cap[t]) < MaxLines
         /\ Neat(t) => ~Ends(Cap[t], "line")
         /\ \A thin : "line" \notin thin => (Shows(Cap[t], thin) => Shows(t, thin))
         /\ \/ Cap[t] = Chomp(t) \/ Ends(Cap[t], "stop") \/ Rows(t) >= MaxLines
         /\ Len(t) <= MaxLen /\ Rows(t) < MaxLines => Cap[t] = Chomp(t)
<1>1. PICK lines \in Text :
        /\ lines = Chomp(FirstLines(t)) /\ Begins(lines, t) /\ Rows(lines) < MaxLines
        /\ Neat(t) => ~Ends(lines, "line")
        /\ \/ Len(lines) <= MaxLen /\ Cap[t] = lines
           \/ /\ Cap[t] \in Text /\ Ends(Cap[t], "stop") /\ Len(lines) > MaxLen
              /\ \E v \in Text : Begins(v, lines) /\ Cap[t] \in {v, Append(v, The("stop"))}
  BY CapCases
<1>2. /\ Rows(t) \in Nat /\ Rows(lines) \in Nat /\ Len(lines) \in Nat /\ Len(t) \in Nat
      /\ Len(lines) <= Len(t)
  BY <1>1, RowsType, TextPlaces DEF Begins
<1>3. Rows(t) < MaxLines => lines = Chomp(t)
  BY <1>1, FirstLinesSaid
<1>4. CASE Len(lines) <= MaxLen /\ Cap[t] = lines
  <2>1. /\ Said(lines) \subseteq Said(t)
        /\ \A thin : Shows(lines, thin) => Shows(t, thin)
    BY <1>1, BeginsKeeps
  <2> QED
    BY <1>1, <1>2, <1>3, <1>4, <2>1
<1>5. CASE /\ Cap[t] \in Text /\ Ends(Cap[t], "stop") /\ Len(lines) > MaxLen
           /\ \E v \in Text : Begins(v, lines) /\ Cap[t] \in {v, Append(v, The("stop"))}
  <2>1. PICK v \in Text : Begins(v, lines) /\ Cap[t] \in {v, Append(v, The("stop"))}
    BY <1>5
  <2>2. PICK u : u = Cap[t]
    OBVIOUS
  <2>3. Begins(v, t)
    BY <1>1, <2>1, BeginsBegins
  <2>4. /\ u \in Text /\ Said(u) \subseteq Said(t) \cup {The("stop")}
        /\ \A thin : "line" \notin thin => (Shows(u, thin) => Shows(t, thin))
    BY <2>1, <2>2, <2>3, StopMore
  <2>5. Rows(u) <= Rows(lines) /\ Rows(u) \in Nat
    BY <2>1, <2>2, <2>4, StopMore, RowsType
  <2>6. Rows(u) < MaxLines
    BY <1>1, <1>2, <2>5
  <2>7. ~Ends(u, "line")
    BY <1>5, <2>2 DEF Ends
  <2>8. ~(Len(t) <= MaxLen)
    BY <1>2, <1>5
  <2> QED
    BY <1>5, <2>2, <2>4, <2>6, <2>7, <2>8
<1> QED
  BY <1>1, <1>4, <1>5

\* A label hides behind such tokens.
Thin == {"mark", "ping"}

\* Who is addressed becomes a mention: neither breaks nor openings change.
LEMMA MentionNamesLines ==
  ASSUME NEW t \in Text
  PROVE  /\ Breaks(MentionNames(t)) = Breaks(t)
         /\ Shows(MentionNames(t), Thin) => Shows(t, Thin)
<1>1. PICK m \in Text : /\ m = MentionNames(t) /\ Len(m) = Len(t)
                        /\ \A i \in 1 .. Len(t) : m[i] = t[i] \/ (m[i].is = "ping" /\ t[i].is = "name")
  BY MentionNamesSaid
<1>2. DOMAIN m = 1 .. Len(t) /\ DOMAIN t = 1 .. Len(t) /\ Len(t) \in Nat
  BY <1>1, TextPlaces
<1>3. Breaks(m) = Breaks(t)
  BY <1>1, <1>2 DEF Breaks
<1>4. ASSUME Shows(m, Thin) PROVE Shows(t, Thin)
  <2>1. PICK i \in 1 .. Len(t) :
          m[i].is = "label" /\ \E j \in 1 .. i : /\ StartsLine(m, j)
                                                /\ \A k \in j .. i - 1 : m[k].is \in Thin
    BY <1>2, <1>4 DEF Shows
  <2>2. PICK j \in 1 .. i : StartsLine(m, j) /\ \A k \in j .. i - 1 : m[k].is \in Thin
    BY <2>1
  <2>3. t[i].is = "label" /\ StartsLine(t, j)
    <3>1. j # 1 => j - 1 \in 1 .. Len(t)
      BY <1>2
    <3> QED
      BY <1>1, <2>1, <2>2, <3>1 DEF StartsLine
  <2>4. ASSUME NEW k \in j .. i - 1 PROVE t[k].is \in Thin
    <3>1. /\ k \in 1 .. Len(t) /\ k + 1 \in 1 .. Len(t)
          /\ k + 1 = i \/ k + 1 \in j .. i - 1
      BY <1>2
    <3>2. m[k + 1].is # "comma"
      BY <2>1, <2>2, <3>1 DEF Thin
    <3>3. t[k + 1].is # "comma"
      BY <1>1, <3>1, <3>2
    <3>4. m[k] = t[k]
      BY <1>1, <1>2, <3>1, <3>3 DEF MentionNames, Addressed
    <3> QED
      BY <2>2, <3>4
  <2> QED
    BY <1>2, <2>2, <2>3, <2>4 DEF Shows
<1> QED
  BY <1>1, <1>3, <1>4

\* Nor do they with the first person.
LEMMA FirstPersonLines ==
  ASSUME NEW t \in Text
  PROVE  /\ Breaks(FirstPerson[t]) = Breaks(t)
         /\ Neat(t) => Neat(FirstPerson[t])
         /\ Shows(FirstPerson[t], Thin) => Shows(t, Thin)
         /\ Blank(FirstPerson[t]) <=> Blank(t)
<1>1. PICK f \in Text : /\ f = FirstPerson[t] /\ Len(f) = Len(t)
                        /\ \A i \in 1 .. Len(t) : f[i] = Spoken(t[i])
  BY FirstPersonSaid
<1>2. PICK n \in Nat : n = Len(t) /\ n = Len(f) /\ DOMAIN f = 1 .. n /\ DOMAIN t = 1 .. n
  BY <1>1, TextPlaces
<1>3. ASSUME NEW i \in 1 .. n
      PROVE  /\ f[i].is # "word" => f[i] = t[i]
             /\ f[i].is = "line" <=> t[i].is = "line"
  BY <1>1, <1>2, SpokenToken, TextPlaces
<1>4. Breaks(f) = Breaks(t)
  BY <1>2, <1>3 DEF Breaks
<1>5. Neat(t) => Neat(f)
  <2>1. \A i \in Breaks(t) : i \in 1 .. n /\ (i # 1 => i - 1 \in 1 .. n)
    BY <1>2 DEF Breaks
  <2> QED
    BY <1>3, <1>4, <2>1 DEF Neat
<1>6. NoThinner(f, t, Thin)
  BY <1>2, <1>3 DEF NoThinner, Thin
<1>7. Shows(f, Thin) => Shows(t, Thin)
  BY <1>6, ShowsAlong
<1>8. Blank(f) <=> Blank(t)
  <2>1. (f = <<>> <=> n = 0) /\ (t = <<>> <=> n = 0) /\ (n # 0 => n \in 1 .. n)
    BY <1>2, TextPlaces
  <2> QED
    BY <1>2, <1>3, <2>1 DEF Blank, Ends
<1> QED
  BY <1>1, <1>4, <1>5, <1>7, <1>8

\* The text before it is capped.
Formatted(t) == FirstPerson[NoSelfPings(MentionNames(NoMarks(t)))]

\* Formatting takes marks and the mentions of oneself out, adds no other tokens
\* than mentions and words, and neither breaks nor labels.
LEMMA FormattedSaid ==
  ASSUME NEW t \in Text
  PROVE  /\ Formatted(t) \in Text /\ Neat(Formatted(t)) /\ Normalize(t) = Cap[Formatted(t)]
         /\ Said(Formatted(t)) \subseteq
              (Said(t) \ {Ping(Self), The("mark")}) \cup {Ping(b) : b \in Others} \cup {The("word")}
         /\ Rows(Formatted(t)) < Lines(t)
         /\ Shows(Formatted(t), Thin) => Shows(t, Thin)
<1>1. /\ {Ping(Self)} \in SUBSET Token /\ {The("mark")} \in SUBSET Token
      /\ {} \in SUBSET Token
  BY TakenOut
<1>2. PICK k \in Text : /\ k = NoMarks(t) /\ Said(k) \subseteq Said(t) \ {The("mark")}
  BY <1>1, WithoutSaid DEF NoMarks
<1>3. PICK m \in Text : /\ m = MentionNames(k)
                        /\ Said(m) \subseteq Said(k) \cup {Ping(b) : b \in Others}
  BY MentionNamesSaid
<1>4. PICK y \in Text : /\ y = NoSelfPings(m) /\ Said(y) \subseteq Said(m) \ {Ping(Self)}
  BY <1>1, WithoutSaid DEF NoSelfPings
<1>5. PICK f \in Text : f = FirstPerson[y] /\ Said(f) \subseteq Said(y) \cup {The("word")}
  BY FirstPersonSaid
<1>6. Formatted(t) = f /\ Normalize(t) = Cap[f]
  BY <1>2, <1>3, <1>4, <1>5 DEF Formatted, Normalize
<1>7. Neat(f)
  <2>1. Neat(y)
    BY <1>1, <1>4, WithoutNeat DEF NoSelfPings
  <2> QED
    BY <1>5, <2>1, FirstPersonLines
<1>8. /\ The("word") # Ping(Self) /\ The("word") # The("mark")
      /\ \A b \in Others : Ping(b) # Ping(Self) /\ Ping(b) # The("mark")
  BY DEF The, Ping, Others
<1>9. Said(f) \subseteq
        (Said(t) \ {Ping(Self), The("mark")}) \cup {Ping(b) : b \in Others} \cup {The("word")}
  BY <1>2, <1>3, <1>4, <1>5, <1>8
<1>10. Rows(f) < Lines(t)
  <2>1. PICK e \in Text : e = Without[{}][t]
    BY <1>1, WithoutText
  <2>2. k = Without[{The("mark")}][e]
    <3>1. \A x \in {The("mark")} : x.is # "line"
      BY DEF The
    <3>2. Without[{The("mark")}][Without[{}][t]] = Without[{} \cup {The("mark")}][t]
      BY <1>1, <3>1, WithoutBoth, Zenon
    <3>3. {} \cup {The("mark")} = {The("mark")}
      OBVIOUS
    <3> QED
      BY <1>2, <2>1, <3>2, <3>3 DEF NoMarks
  <2>3. Rows(k) <= Rows(e)
    BY <1>1, <2>2, RowsWithout
  <2>4. Rows(m) = Rows(k) /\ Rows(f) = Rows(y)
    BY <1>3, <1>5, MentionNamesLines, FirstPersonLines DEF Rows
  <2>5. Rows(y) <= Rows(m)
    BY <1>1, <1>4, RowsWithout DEF NoSelfPings
  <2>6. Lines(t) = 1 + Rows(e)
    BY <2>1 DEF Lines, Rows
  <2>7. Rows(e) \in Nat /\ Rows(k) \in Nat /\ Rows(m) \in Nat /\ Rows(y) \in Nat /\ Rows(f) \in Nat
    BY RowsType
  <2> QED
    BY <2>3, <2>4, <2>5, <2>6, <2>7
<1>11. ASSUME Shows(f, Thin) PROVE Shows(t, Thin)
  <2>1. "line" \notin Thin /\ Ping(Self).is \in Thin /\ The("mark").is \in Thin
    BY DEF Thin, Ping, The
  <2>2. Shows(y, Thin)
    BY <1>5, <1>11, FirstPersonLines
  <2>3. Shows(m, Thin)
    BY <1>1, <1>4, <2>1, <2>2, ShowsWithout DEF NoSelfPings
  <2>4. Shows(k, Thin)
    BY <1>3, <2>3, MentionNamesLines
  <2> QED
    BY <1>1, <1>2, <2>1, <2>4, ShowsWithout DEF NoMarks
<1> QED
  BY <1>6, <1>7, <1>9, <1>10, <1>11

\* Nothing is made of nothing.
LEMMA FormattedNone == Formatted(<<>>) = <<>>
<1>1. {Ping(Self)} \in SUBSET Token /\ {The("mark")} \in SUBSET Token
  BY TakenOut
<1>2. <<>> \in Text /\ NoMarks(<<>>) = <<>> /\ NoSelfPings(<<>>) = <<>>
  BY <1>1, WithoutNone DEF NoMarks, NoSelfPings
<1>3. \A u \in Text : Len(u) = 0 => u = <<>>
  BY TextPlaces
<1>4. MentionNames(<<>>) = <<>>
  BY <1>2, <1>3, MentionNamesSaid
<1>5. FirstPerson[<<>>] = <<>>
  BY <1>2, <1>3, FirstPersonSaid
<1> QED
  BY <1>2, <1>4, <1>5 DEF Formatted

\* It keeps a last token, unless that is a mark, a break or a mention.
LEMMA FormattedLast ==
  ASSUME NEW t \in Text, t # <<>>, t[Len(t)].is \notin {"line", "mark", "ping"}
  PROVE  /\ Formatted(t) # <<>>
         /\ Formatted(t)[Len(Formatted(t))] = Spoken(t[Len(t)])
<1>1. {Ping(Self)} \in SUBSET Token /\ {The("mark")} \in SUBSET Token
  BY TakenOut
<1>2. PICK x \in Token : x = t[Len(t)] /\ x \notin {The("mark")} /\ x \notin {Ping(Self)}
  BY TextPlaces DEF The, Ping
<1>3. PICK k \in Text : k = NoMarks(t) /\ k # <<>> /\ k[Len(k)] = x
  <2>1. NoMarks(t) \in Text
    BY <1>1, WithoutText DEF NoMarks
  <2>2. NoMarks(t) # <<>> /\ NoMarks(t)[Len(NoMarks(t))] = t[Len(t)]
    BY <1>1, <1>2, WithoutLast DEF NoMarks
  <2> QED
    BY <1>2, <2>1, <2>2
<1>4. PICK m \in Text : m = MentionNames(k) /\ m # <<>> /\ m[Len(m)] = x
  <2>1. PICK m \in Text : m = MentionNames(k) /\ Len(m) = Len(k) /\ m[Len(k)] = x
    BY <1>3, MentionNamesSaid
  <2>2. m # <<>>
    BY <1>3, <2>1, TextPlaces
  <2> QED
    BY <2>1, <2>2
<1>5. PICK y \in Text : y = NoSelfPings(m) /\ y # <<>> /\ y[Len(y)] = x
  <2>1. NoSelfPings(m) \in Text
    BY <1>1, WithoutText DEF NoSelfPings
  <2>2. NoSelfPings(m) # <<>> /\ NoSelfPings(m)[Len(NoSelfPings(m))] = m[Len(m)]
    BY <1>1, <1>2, <1>4, WithoutLast DEF NoSelfPings
  <2> QED
    BY <1>4, <2>1, <2>2
<1>6. PICK f \in Text : /\ f = FirstPerson[y] /\ Len(f) = Len(y)
                        /\ \A i \in 1 .. Len(y) : f[i] = Spoken(y[i])
  BY FirstPersonSaid
<1>7. Len(y) \in 1 .. Len(y) /\ f # <<>>
  BY <1>5, <1>6, TextPlaces
<1>8. Formatted(t) = f
  BY <1>3, <1>4, <1>5, <1>6 DEF Formatted
<1> QED
  BY <1>2, <1>5, <1>6, <1>7, <1>8

\* Formatting takes out the mentions of oneself and marks, adds no other tokens
\* than mentions, words and full stops, and shows no label that was not hidden.
\* It ends the text in a way it ended before, unless mentions or marks stood at
\* its end or there were too many lines.
LEMMA NormalizeSaid ==
  ASSUME NEW t \in Text
  PROVE  /\ Normalize(t) \in Text /\ Rows(Normalize(t)) < MaxLines
         /\ ~Ends(Normalize(t), "line")
         /\ Said(Normalize(t)) \subseteq
              (Said(t) \ {Ping(Self), The("mark")}) \cup {Ping(b) : b \in Others}
              \cup {The("word"), The("stop")}
         /\ Shows(Normalize(t), Thin) => Shows(t, Thin)
         /\ \A is \in {"tail", "ping"} :
              Ends(Normalize(t), is) /\ ~Ends(t, "line")
              => \/ Ends(t, is) \/ Ends(t, "ping") \/ Ends(t, "mark")
                 \/ Lines(t) > MaxLines
<1>1. PICK f \in Text :
        /\ f = Formatted(t) /\ Neat(f) /\ Normalize(t) = Cap[f]
        /\ Said(f) \subseteq
              (Said(t) \ {Ping(Self), The("mark")}) \cup {Ping(b) : b \in Others} \cup {The("word")}
        /\ Rows(f) < Lines(t)
        /\ Shows(f, Thin) => Shows(t, Thin)
  BY FormattedSaid
<1>2. PICK n \in Text : n = Cap[f]
  BY CapSaid
<1>3. /\ Said(n) \subseteq Said(f) \cup {The("stop")}
      /\ Rows(n) < MaxLines
      /\ ~Ends(n, "line")
      /\ n = Chomp(f) \/ Ends(n, "stop") \/ Rows(f) >= MaxLines
  BY <1>1, <1>2, CapSaid
<1>4. Shows(n, Thin) => Shows(t, Thin)
  <2>1. "line" \notin Thin
    BY DEF Thin
  <2>2. Shows(Cap[f], Thin) => Shows(f, Thin)
    BY <2>1, CapSaid
  <2> QED
    BY <1>1, <1>2, <2>2
<1>5. ASSUME NEW is \in {"tail", "ping"}, Ends(n, is), ~Ends(t, "line"),
             ~Ends(t, "ping"), ~Ends(t, "mark"), ~(Lines(t) > MaxLines)
      PROVE  Ends(t, is)
  <2>1. Rows(f) \in Nat /\ Lines(t) \in Nat
    <3>1. Without[{}][t] \in Text
      BY WithoutText
    <3> QED
      BY <3>1, RowsType DEF Lines, Rows
  <2>2. ~(Rows(f) >= MaxLines)
    BY <1>1, <1>5, <2>1
  <2>3. n = Chomp(f)
    BY <1>3, <1>5, <2>2 DEF Ends
  <2>4. t # <<>>
    <3>1. ASSUME t = <<>> PROVE FALSE
      <4>1. Said(t) = {}
        BY <3>1, SaidAppend
      <4>2. f = <<>>
        <5>1. Formatted(<<>>) = <<>>
          BY FormattedNone
        <5> QED
          BY <1>1, <3>1, <5>1
      <4> QED
        BY <1>5, <2>3, <4>2, ChompIs DEF Ends
    <3> QED
      BY <3>1
  <2>5. PICK x \in Token : x = t[Len(t)] /\ x.is \notin {"line", "mark", "ping"}
    BY <1>5, <2>4, TextPlaces DEF Ends
  <2>6. f # <<>> /\ f[Len(f)] = Spoken(x)
    BY <1>1, <2>4, <2>5, FormattedLast
  <2>7. Spoken(x).is # "line"
    BY <2>5, SpokenToken
  <2>8. n = f
    BY <2>3, <2>6, <2>7, ChompSaid DEF Ends
  <2>9. Spoken(x).is = is
    BY <1>5, <2>6, <2>8 DEF Ends
  <2>10. x.is = is
    BY <2>9, SpokenToken
  <2> QED
    BY <2>4, <2>5, <2>10 DEF Ends
<1>6. n = Normalize(t)
  BY <1>1, <1>2
<1> QED
  BY <1>1, <1>3, <1>4, <1>5, <1>6
-----------------------------------------------------------------------------
(***************************************************************************)
(* What is posted.                                                         *)
(***************************************************************************)
\* Three tokens more.
LEMMA WithQuickTake ==
  ASSUME NEW t \in Text, NEW b \in Others, NEW u, u = t \o QuickTake(b)
  PROVE  /\ u \in Text /\ Len(t) \in Nat /\ Len(u) = Len(t) + 3 /\ u # <<>>
         /\ u[Len(t) + 1] = Ping(b) /\ u[Len(t) + 2] = The("word")
         /\ u[Len(t) + 3] = The("stop")
         /\ \A i \in 1 .. Len(t) : u[i] = t[i]
         /\ Said(u) = Said(t) \cup {Ping(b), The("word"), The("stop")}
<1>1. PICK x \in Token, y \in Token, z \in Token :
        x = Ping(b) /\ y = The("word") /\ z = The("stop")
  BY Tokens DEF Others, Plain
<1>2. u = t \o <<x, y, z>>
  BY <1>1 DEF QuickTake
<1>3. PICK n \in Nat : n = Len(t) /\ DOMAIN t = 1 .. n
  BY TextPlaces
<1>4. PICK s \in Text : u = t \o s /\ Len(s) = 3 /\ s[1] = x /\ s[2] = y /\ s[3] = z
  <2>1. PICK s : s = <<x, y, z>>
    OBVIOUS
  <2>2. s \in Text /\ Len(s) = 3 /\ s[1] = x /\ s[2] = y /\ s[3] = z
    BY <2>1 DEF Text
  <2> QED
    BY <1>2, <2>1, <2>2
<1>5. /\ t \o s \in Text /\ Len(t \o s) = Len(t) + Len(s)
      /\ \A i \in 1 .. Len(t) + Len(s) : (t \o s)[i] =
           IF i <= Len(t) THEN t[i] ELSE s[i - Len(t)]
  BY ConcatProperties DEF Text
<1>6. u \in Text /\ Len(u) = n + 3
  BY <1>5, <1>3, <1>4
<1>7. \A i \in 1 .. n + 3 : u[i] = IF i <= n THEN t[i] ELSE s[i - n]
  BY <1>5, <1>3, <1>4
<1>8. \A i \in 1 .. n : u[i] = t[i]
  <2>1. \A i \in 1 .. n : i \in 1 .. n + 3 /\ i <= n
    OBVIOUS
  <2> QED
    BY ONLY <1>7, <2>1
<1>9. u[n + 1] = x /\ u[n + 2] = y /\ u[n + 3] = z
  <2>1. /\ n + 1 \in 1 .. n + 3 /\ ~(n + 1 <= n) /\ n + 1 - n = 1
        /\ n + 2 \in 1 .. n + 3 /\ ~(n + 2 <= n) /\ n + 2 - n = 2
        /\ n + 3 \in 1 .. n + 3 /\ ~(n + 3 <= n) /\ n + 3 - n = 3
    OBVIOUS
  <2>2. u[n + 1] = s[1] /\ u[n + 2] = s[2] /\ u[n + 3] = s[3]
    BY ONLY <1>7, <2>1
  <2> QED
    BY <1>4, <2>2
<1>10. u # <<>>
  <2>1. n + 3 # 0
    OBVIOUS
  <2> QED
    BY <1>6, <2>1, TextPlaces
<1>11. ASSUME NEW v PROVE v \in Said(u) <=> v \in Said(t) \cup {x, y, z}
  <2>1. \A i : i \in 1 .. n + 3 <=> i \in 1 .. n \/ i = n + 1 \/ i = n + 2 \/ i = n + 3
    OBVIOUS
  <2>2. DOMAIN u = 1 .. n + 3
    BY <1>6, TextPlaces
  <2> QED
    BY ONLY <1>3, <1>8, <1>9, <2>1, <2>2 DEF Said
<1>12. Said(u) = Said(t) \cup {x, y, z}
  BY <1>11
<1> QED
  BY <1>1, <1>3, <1>6, <1>8, <1>9, <1>10, <1>12

\* Token by token.
LEMMA ThreeTokens ==
  ASSUME NEW S, NEW t \in Seq(S), NEW x \in S, NEW y \in S, NEW z \in S
  PROVE  t \o <<x, y, z>> = Append(Append(Append(t, x), y), z)
  OBVIOUS

\* They add no breaks and no labels.
LEMMA QuickTakeLines ==
  ASSUME NEW t \in Text, NEW b \in Others, NEW u, u = t \o QuickTake(b)
  PROVE  /\ Rows(u) = Rows(t) /\ (Neat(t) => Neat(u)) /\ Ends(u, "stop")
         /\ \A thin : "line" \notin thin => (Shows(u, thin) => Shows(t, thin))
<1>1. PICK x \in Token, y \in Token, z \in Token :
        x = Ping(b) /\ y = The("word") /\ z = The("stop")
  BY Tokens DEF Others, Plain
<1>2. x.is = "ping" /\ y.is = "word" /\ z.is = "stop"
  BY <1>1 DEF Ping, The
<1>3. PICK v \in Text, w \in Text, r \in Text :
        v = Append(t, x) /\ w = Append(v, y) /\ r = Append(w, z)
  BY OneToken
<1>4. u = r
  <2>1. t \in Seq(Token)
    BY DEF Text
  <2>2. t \o <<x, y, z>> = Append(Append(Append(t, x), y), z)
    BY ONLY <2>1, x \in Token, y \in Token, z \in Token, ThreeTokens
  <2>3. u = t \o <<x, y, z>>
    BY <1>1, Zenon DEF QuickTake
  <2> QED
    BY ONLY <1>3, <2>2, <2>3, Zenon
<1>5. Rows(v) = Rows(t) /\ Rows(w) = Rows(v) /\ Rows(r) = Rows(w)
  BY <1>2, <1>3, RowsAppend
<1>6. (Neat(t) => Neat(v)) /\ (Neat(v) => Neat(w)) /\ (Neat(w) => Neat(r))
  BY <1>2, <1>3, NeatAppend
<1>7. Ends(r, "stop")
  BY <1>2, <1>3, EndsAppend
<1>8. ASSUME NEW thin, "line" \notin thin
      PROVE  /\ Shows(v, thin) <=> Shows(t, thin)
             /\ Shows(w, thin) <=> Shows(v, thin)
             /\ Shows(r, thin) <=> Shows(w, thin)
  BY <1>2, <1>3, <1>8, ShowsAppend
<1> QED
  BY <1>4, <1>5, <1>6, <1>7, <1>8

\* The placeholder.
LEMMA DotsText ==
  /\ Dots \in Text /\ Dots # <<>> /\ Len(Dots) = 1 /\ Dots[1] = The("stop")
  /\ Said(Dots) = {The("stop")} /\ Ends(Dots, "stop")
  /\ Neat(Dots) /\ Rows(Dots) = 0 /\ \A thin : ~Shows(Dots, thin)
<1>1. The("stop") \in Token /\ The("stop").is = "stop"
  BY Tokens DEF The, Plain
<1>2. PICK d : d = Dots
  OBVIOUS
<1>3. d \in Text /\ Len(d) = 1 /\ d[1] = The("stop") /\ d # <<>>
  BY <1>1, <1>2 DEF Text, Dots
<1>4. DOMAIN d = {1}
  <2>1. \A i : i \in 1 .. 1 <=> i = 1
    OBVIOUS
  <2> QED
    BY <1>3, <2>1, TextPlaces
<1>5. Said(d) = {The("stop")} /\ Ends(d, "stop")
  BY <1>1, <1>3, <1>4 DEF Said, Ends
<1>6. Breaks(d) = {}
  BY <1>1, <1>3, <1>4 DEF Breaks
<1>7. Neat(d) /\ Rows(d) = 0
  BY <1>6, FS_EmptySet DEF Neat, Rows
<1>8. \A thin : ~Shows(d, thin)
  BY <1>1, <1>3, <1>4 DEF Shows
<1> QED
  BY <1>2, <1>3, <1>5, <1>7, <1>8

\* The mention policy takes the mentions of others out and adds at most one.
LEMMA EnforceSaid ==
  ASSUME NEW t \in Text, NEW handoff \in BOOLEAN, NEW e \in Enforce(t, handoff)
  PROVE  LET out == NoPings(t) IN
         /\ out \in Text /\ Len(out) <= Len(t)
         /\ Said(out) \subseteq Said(t) \ {Ping(b) : b \in Others}
         /\ Neat(out) /\ ~Ends(out, "line") /\ Rows(out) <= Rows(t)
         /\ Shows(out, Thin) => Shows(t, Thin)
         /\ e \in Text /\ e # <<>> /\ Neat(e) /\ Rows(e) <= Rows(t)
         /\ Shows(e, Thin) => Shows(out, Thin)
         /\ handoff => \E b \in Others : e = out \o QuickTake(b)
         /\ ~handoff => e = IF out = <<>> THEN Dots ELSE out
<1>1. PICK bad \in SUBSET Token : bad = {Ping(b) : b \in Others}
  BY TakenOut, Zenon
<1>2. PICK w \in Text : /\ w = Without[bad][t] /\ Len(w) <= Len(t) /\ Said(w) \subseteq Said(t) \ bad
  BY WithoutSaid
<1>3. PICK out \in Text : /\ out = Chomp(w) /\ Begins(out, w) /\ out = NoPings(t)
  BY <1>1, <1>2, ChompSaid DEF NoPings
<1>4. /\ Neat(w) /\ Rows(w) <= Rows(t)
      /\ Rows(w) \in Nat /\ Rows(t) \in Nat /\ Rows(out) \in Nat
      /\ Len(w) \in Nat /\ Len(t) \in Nat /\ Len(out) \in Nat
  BY <1>2, WithoutNeat, RowsWithout, RowsType, TextPlaces
<1>5. Neat(out) /\ ~Ends(out, "line") /\ Said(out) \subseteq Said(w)
  <2>1. Neat(Chomp(w)) /\ ~Ends(Chomp(w), "line") /\ Said(Chomp(w)) \subseteq Said(w)
    BY <1>4, ChompSaid
  <2> QED
    BY <1>3, <2>1
<1>6. Rows(out) <= Rows(w) /\ (Shows(out, Thin) => Shows(w, Thin))
  BY <1>3, BeginsKeeps
<1>7. "line" \notin Thin /\ \A x \in bad : x.is \in Thin
  BY <1>1 DEF Thin, Ping
<1>8. Shows(w, Thin) => Shows(t, Thin)
  BY <1>2, <1>7, ShowsWithout
<1>9. Len(out) <= Len(t) /\ Rows(out) <= Rows(t)
  BY <1>2, <1>3, <1>4, <1>6 DEF Begins
<1>10. Targets(t) \subseteq Others
  BY DEF Targets
<1>11. /\ e \in Text /\ e # <<>> /\ Neat(e) /\ Rows(e) <= Rows(t)
       /\ Shows(e, Thin) => Shows(out, Thin)
       /\ handoff => \E b \in Others : e = out \o QuickTake(b)
       /\ ~handoff => e = IF out = <<>> THEN Dots ELSE out
  <2>1. CASE handoff
    <3>1. PICK b \in Others : e = out \o QuickTake(b)
      BY <1>3, <1>10, <2>1 DEF Enforce
    <3>2. e \in Text /\ e # <<>>
      BY <3>1, WithQuickTake
    <3>3. Neat(e) /\ Rows(e) = Rows(out) /\ (Shows(e, Thin) => Shows(out, Thin))
      BY <1>5, <1>7, <3>1, QuickTakeLines
    <3> QED
      BY <1>9, <2>1, <3>1, <3>2, <3>3
  <2>2. CASE ~handoff
    <3>1. e = IF out = <<>> THEN Dots ELSE out
      BY <1>3, <2>2 DEF Enforce
    <3> QED
      BY <1>4, <1>5, <1>9, <2>2, <3>1, DotsText
  <2> QED
    BY <2>1, <2>2
<1> QED
  BY <1>1, <1>2, <1>3, <1>5, <1>6, <1>8, <1>9, <1>11

\* What is posted is what the mention policy makes of the formatted text, formatted
\* again.
LEMMA FinalCases ==
  ASSUME NEW t \in Text, NEW handoff \in BOOLEAN, NEW u \in Final(t, handoff)
  PROVE  \E n \in Text : /\ n = Normalize(t)
                         /\ \E e \in Enforce(n, handoff) :
                              u = IF Normalize(e) = <<>> THEN Dots ELSE Normalize(e)
<1>1. PICK n \in Text : n = Normalize(t)
  BY NormalizeSaid
<1>2. PICK posted :
        /\ posted = [x \in Text |-> {IF Normalize(v) = <<>> THEN Dots ELSE Normalize(v) :
                                       v \in Enforce(x, handoff)}]
        /\ Final(t, handoff) = posted[n]
  BY <1>1, Zenon DEF Final
<1>3. posted[n] = {IF Normalize(v) = <<>> THEN Dots ELSE Normalize(v) : v \in Enforce(n, handoff)}
  BY <1>2, Zenon
<1>4. PICK e \in Enforce(n, handoff) : u = IF Normalize(e) = <<>> THEN Dots ELSE Normalize(e)
  BY <1>2, <1>3, Zenon
<1> QED
  BY <1>1, <1>4, Zenon

\* A neat text has a line more than breaks.
LEMMA NeatLines ==
  ASSUME NEW t \in Text, Neat(t)
  PROVE  Lines(t) = 1 + Rows(t)
<1>1. Without[{}][t] = t
  BY WithoutGone
<1> QED
  BY <1>1 DEF Lines, Rows

\* The mention policy opens a sentence at the end only where a mention stood.
LEMMA EnforceTail ==
  ASSUME NEW n \in Text, ~Ends(n, "line"), Ping(Self) \notin Said(n), The("mark") \notin Said(n),
         NEW handoff \in BOOLEAN, NEW e \in Enforce(n, handoff)
  PROVE  /\ ~Ends(e, "line") /\ ~Ends(e, "ping") /\ ~Ends(e, "mark")
         /\ Ends(e, "tail") => ~handoff /\ (Ends(n, "tail") \/ Ends(n, "ping"))
<1>1. PICK out \in Text :
        /\ out = NoPings(n) /\ Said(out) \subseteq Said(n) \ {Ping(b) : b \in Others}
        /\ ~Ends(out, "line")
        /\ handoff => \E b \in Others : e = out \o QuickTake(b)
        /\ ~handoff => e = IF out = <<>> THEN Dots ELSE out
  BY EnforceSaid
<1>2. CASE handoff
  <2>1. PICK b \in Others : e = out \o QuickTake(b)
    BY <1>1, <1>2
  <2>2. Ends(e, "stop")
    BY <2>1, QuickTakeLines
  <2> QED
    BY <2>2 DEF Ends
<1>3. CASE ~handoff /\ out = <<>>
  <2>1. e = Dots
    BY <1>1, <1>3
  <2> QED
    BY <2>1, DotsText DEF Ends
<1>4. CASE ~handoff /\ out # <<>>
  <2>1. e = out
    BY <1>1, <1>4
  <2>2. PICK x \in Token : x = out[Len(out)] /\ x \in Said(n) /\ x \notin {Ping(b) : b \in Others}
    <3>1. out[Len(out)] \in Said(out) /\ out[Len(out)] \in Token
      BY <1>4, TextPlaces DEF Said
    <3> QED
      BY <1>1, <3>1
  <2>3. x.is # "ping"
    <3> SUFFICES ASSUME x.is = "ping" PROVE FALSE
      OBVIOUS
    <3>1. PICK b \in Bot : x = Ping(b)
      BY Tokens
    <3>2. b = Self
      BY <2>2, <3>1 DEF Others
    <3> QED
      BY <2>2, <3>1, <3>2
  <2>4. x.is # "mark"
    <3>1. x.is = "mark" => x = The("mark")
      BY Tokens DEF Plain
    <3> QED
      BY <2>2, <3>1
  <2>5. ASSUME Ends(out, "tail") PROVE Ends(n, "tail") \/ Ends(n, "ping")
    <3>1. PICK bad \in SUBSET Token : bad = {Ping(b) : b \in Others}
      BY TakenOut, Zenon
    <3>2. PICK w \in Text : w = Without[bad][n] /\ out = Chomp(w)
      BY <1>1, <3>1, WithoutText DEF NoPings
    <3>3. n # <<>>
      BY <1>4, <3>2, WithoutNone, ChompIs
    <3>4. CASE n[Len(n)] \in bad
      BY <3>1, <3>3, <3>4 DEF Ends, Ping
    <3>5. CASE n[Len(n)] \notin bad
      <4>1. n[Len(n)].is # "line"
        BY <3>3 DEF Ends
      <4>2. w # <<>> /\ w[Len(w)] = n[Len(n)]
        BY <3>2, <3>3, <3>5, <4>1, WithoutLast
      <4>3. out = w
        BY <3>2, <4>1, <4>2, ChompSaid DEF Ends
      <4> QED
        BY <2>5, <3>3, <4>2, <4>3 DEF Ends
    <3> QED
      BY <3>4, <3>5
  <2>6. ~Ends(e, "line") /\ ~Ends(e, "ping") /\ ~Ends(e, "mark")
    BY <1>1, <2>1, <2>2, <2>3, <2>4 DEF Ends
  <2> QED
    BY <1>4, <2>1, <2>5, <2>6
<1> QED
  BY <1>2, <1>3, <1>4

\* What may become of an approved text.
LEMMA FinalSaid ==
  ASSUME NEW t \in Text, NEW handoff \in BOOLEAN, NEW u \in Final(t, handoff)
  PROVE  /\ u \in Text
         /\ Ping(Self) \notin Said(u)
         /\ Shows(u, Thin) => Shows(t, Thin)
         /\ ~Ends(t, "tail") /\ ~Ends(t, "line") /\ Ends(u, "tail")
            => ~handoff /\ (Ends(t, "ping") \/ Ends(t, "mark") \/ Lines(t) > MaxLines)
<1>1. PICK n \in Text :
        /\ n = Normalize(t)
        /\ \E e \in Enforce(n, handoff) :
             u = IF Normalize(e) = <<>> THEN Dots ELSE Normalize(e)
  BY FinalCases
<1>2. PICK e \in Enforce(n, handoff) : u = IF Normalize(e) = <<>> THEN Dots ELSE Normalize(e)
  BY <1>1
<1>3. /\ e \in Text /\ Neat(e) /\ Rows(e) <= Rows(n)
      /\ Shows(e, Thin) => Shows(n, Thin)
  BY EnforceSaid
<1>4. PICK w \in Text : w = Normalize(e)
  BY <1>3, NormalizeSaid
<1>5. u = IF w = <<>> THEN Dots ELSE w
  BY <1>2, <1>4
<1>6. /\ Ping(Self) \notin {Ping(b) : b \in Others}
      /\ Ping(Self) # The("word") /\ Ping(Self) # The("stop")
      /\ The("mark") \notin {Ping(b) : b \in Others}
      /\ The("mark") # The("word") /\ The("mark") # The("stop")
  BY DEF Ping, The, Others
<1>7. /\ Rows(n) < MaxLines /\ ~Ends(n, "line")
      /\ Ping(Self) \notin Said(n) /\ The("mark") \notin Said(n)
      /\ Shows(n, Thin) => Shows(t, Thin)
  BY <1>1, <1>6, NormalizeSaid
<1>8. Ping(Self) \notin Said(w) /\ (Shows(w, Thin) => Shows(e, Thin))
  BY <1>3, <1>4, <1>6, NormalizeSaid
<1>9. Ping(Self) \notin Said(u)
  BY <1>5, <1>6, <1>8, DotsText
<1>10. Shows(u, Thin) => Shows(t, Thin)
  BY <1>3, <1>5, <1>7, <1>8, DotsText
<1>11. ASSUME ~Ends(t, "tail"), ~Ends(t, "line"), Ends(u, "tail")
       PROVE  ~handoff /\ (Ends(t, "ping") \/ Ends(t, "mark") \/ Lines(t) > MaxLines)
  <2>1. Ends(w, "tail")
    BY <1>5, <1>11, DotsText DEF Ends
  <2>2. /\ ~Ends(e, "line") /\ ~Ends(e, "ping") /\ ~Ends(e, "mark")
        /\ Ends(e, "tail") => ~handoff /\ (Ends(n, "tail") \/ Ends(n, "ping"))
    BY <1>7, EnforceTail
  <2>3. ~(Lines(e) > MaxLines)
    <3>1. Lines(e) = 1 + Rows(e) /\ Rows(e) \in Nat /\ Rows(n) \in Nat
      BY <1>3, NeatLines, RowsType
    <3> QED
      BY <1>3, <1>7, <3>1
  <2>4. Ends(e, "tail")
    BY <1>3, <1>4, <2>1, <2>2, <2>3, NormalizeSaid
  <2>5. ~handoff /\ (Ends(n, "tail") \/ Ends(n, "ping"))
    BY <2>2, <2>4
  <2>6. Ends(t, "ping") \/ Ends(t, "mark") \/ Lines(t) > MaxLines
    BY <1>1, <1>11, <2>5, NormalizeSaid
  <2> QED
    BY <2>5, <2>6
<1> QED
  BY <1>5, <1>9, <1>10, <1>11, DotsText

\* What the quality gate lets through.
Approved(t) == ~Labelled(t) /\ ~Ends(t, "tail") /\ ~Ends(t, "line")

\* A text without the lines that open with a label.
LEMMA NoLabelsSaid ==
  ASSUME NEW t \in Text
  PROVE  NoLabels(t) \in Text /\ ~Labelled(NoLabels(t)) /\ ~Ends(NoLabels(t), "line")
<1>1. PICK n \in Nat : n = Len(t) /\ DOMAIN t = 1 .. n
  BY TextPlaces
<1>2. PICK bare : bare = [i \in DOMAIN t |-> IF OnLabelLine(t, i) THEN The("line") ELSE t[i]]
  OBVIOUS
<1>3. The("line") \in Token /\ The("line").is = "line"
  BY Tokens DEF The, Plain
<1>4. /\ bare \in Text /\ Len(bare) = n
      /\ \A i \in 1 .. n : bare[i] = IF OnLabelLine(t, i) THEN The("line") ELSE t[i]
  <2>1. \A i \in 1 .. n : t[i] \in Token
    BY <1>1, TextPlaces
  <2>2. bare \in [1 .. n -> Token]
    BY <1>1, <1>2, <1>3, <2>1
  <2> QED
    BY <1>1, <1>2, <2>2, MadeText
<1>5. ~Shows(bare, {})
  <2> SUFFICES ASSUME Shows(bare, {}) PROVE FALSE
    OBVIOUS
  <2>1. DOMAIN bare = 1 .. n
    BY <1>4, TextPlaces
  <2>2. PICK i \in 1 .. n : /\ bare[i].is = "label"
                            /\ \E j \in 1 .. i : StartsLine(bare, j) /\ \A k \in j .. i - 1 : FALSE
    BY <2>1 DEF Shows
  <2>3. StartsLine(bare, i)
    <3>1. PICK j \in 1 .. i : StartsLine(bare, j) /\ \A k \in j .. i - 1 : FALSE
      BY <2>2
    <3>2. j = i
      BY <3>1
    <3> QED
      BY <3>1, <3>2
  <2>4. ~OnLabelLine(t, i) /\ t[i].is = "label"
    BY <1>3, <1>4, <2>2
  <2>5. ASSUME StartsLine(t, i) PROVE FALSE
    <3>1. i \in 1 .. i /\ \A k \in i .. i : k = i
      OBVIOUS
    <3> QED
      BY <2>4, <2>5, <3>1 DEF OnLabelLine
  <2>6. i # 1 /\ bare[i - 1].is = "line" /\ t[i - 1].is # "line"
    BY <2>3, <2>5 DEF StartsLine
  <2>7. i - 1 \in 1 .. n
    BY <2>6
  <2>8. OnLabelLine(t, i - 1)
    BY <1>4, <2>6, <2>7
  <2>9. PICK j \in 1 .. i - 1 : /\ t[j].is = "label" /\ StartsLine(t, j)
                                /\ \A k \in j .. i - 1 : t[k].is # "line"
    BY <2>8 DEF OnLabelLine
  <2>10. j \in 1 .. i /\ \A k \in j .. i : k \in j .. i - 1 \/ k = i
    BY <2>7
  <2>11. OnLabelLine(t, i)
    BY <2>4, <2>9, <2>10 DEF OnLabelLine
  <2> QED
    BY <2>4, <2>11
<1>6. PICK w \in Text : w = Without[{}][bare] /\ Neat(w)
  BY <1>4, WithoutText, WithoutNeat
<1>7. ~Shows(w, {})
  BY <1>4, <1>5, <1>6, ShowsWithout
<1>8. Chomp(w) \in Text /\ Begins(Chomp(w), w) /\ ~Ends(Chomp(w), "line")
  BY <1>6, ChompSaid
<1>9. ~Shows(Chomp(w), {})
  BY <1>7, <1>8, BeginsKeeps
<1>10. NoLabels(t) = Chomp(w)
  BY <1>2, <1>6 DEF NoLabels
<1> QED
  BY <1>8, <1>9, <1>10 DEF Labelled

\* The last resort shows no label and ends its sentence.
LEMMA CompleteSaid ==
  ASSUME NEW t \in Text
  PROVE  Complete(t) \in Text /\ Approved(Complete(t))
<1>1. /\ The("word") \in Token /\ The("stop") \in Token
      /\ The("word").is = "word" /\ The("stop").is = "stop"
  BY Tokens DEF The, Plain
<1>2. PICK clean \in Text : clean = NoLabels(t) /\ ~Labelled(clean)
  BY NoLabelsSaid
<1>3. ASSUME NEW e, Ends(e, "stop"), ~Labelled(e) PROVE Approved(e)
  BY <1>3 DEF Approved, Ends
<1>4. CASE clean = <<>>
  <2>1. PICK e : e = Excuse
    OBVIOUS
  <2>2. /\ e \in Text /\ Len(e) = 3 /\ DOMAIN e = 1 .. 3 /\ e # <<>>
        /\ e[1] = The("word") /\ e[2] = The("word") /\ e[3] = The("stop")
    BY <1>1, <2>1 DEF Excuse, Text
  <2>3. \A i \in 1 .. 3 : i = 1 \/ i = 2 \/ i = 3
    OBVIOUS
  <2>4. ~Labelled(e) /\ Ends(e, "stop")
    BY <1>1, <2>2, <2>3 DEF Labelled, Shows, Ends
  <2>5. Complete(t) = e
    BY <1>2, <1>4, <2>1 DEF Complete
  <2> QED
    BY <1>3, <2>2, <2>4, <2>5
<1>5. CASE clean # <<>> /\ Ends(clean, "stop")
  <2>1. Complete(t) = clean
    BY <1>2, <1>5 DEF Complete
  <2> QED
    BY <1>2, <1>3, <1>5, <2>1
<1>6. CASE clean # <<>> /\ ~Ends(clean, "stop")
  <2>1. PICK e \in Text : e = Append(clean, The("stop"))
    BY <1>1, OneToken
  <2>2. Complete(t) = e
    BY <1>2, <1>6, <2>1 DEF Complete
  <2>3. Ends(e, "stop")
    BY <1>1, <2>1, EndsAppend
  <2>4. Shows(Append(clean, The("stop")), {}) <=> Shows(clean, {})
    BY <1>1, ShowsAppend
  <2>5. ~Labelled(e)
    BY <1>2, <2>1, <2>4 DEF Labelled
  <2> QED
    BY <1>3, <2>1, <2>2, <2>3, <2>5
<1> QED
  BY <1>4, <1>5, <1>6

\* What need not be repaired is approved, and so is what is repaired.
LEMMA FineSaid ==
  ASSUME NEW t \in Reply, ~NeedsRepair(t)
  PROVE  t \in Text /\ Approved(t)
<1>1. t \in Text /\ t # <<>> /\ ~Labelled(t) /\ ~Ends(t, "tail")
  BY DEF Reply, NeedsRepair
<1>2. ~Ends(t, "line")
  BY <1>1 DEF Reply, Ends
<1> QED
  BY <1>1, <1>2 DEF Approved

LEMMA RewrittenSaid ==
  ASSUME NEW draft \in Text, NEW fixed \in Reply
  PROVE  Rewritten(draft, fixed) \in Text /\ Approved(Rewritten(draft, fixed))
<1>1. fixed \in Text
  BY DEF Reply
<1>2. CASE fixed = <<>>
  BY <1>2, CompleteSaid DEF Rewritten
<1>3. CASE fixed # <<>> /\ NeedsRepair(fixed)
  BY <1>1, <1>3, CompleteSaid DEF Rewritten
<1>4. CASE fixed # <<>> /\ ~NeedsRepair(fixed)
  BY <1>4, FineSaid DEF Rewritten
<1> QED
  BY <1>2, <1>3, <1>4
-----------------------------------------------------------------------------
(***************************************************************************)
(* From the draft to the post, as states.                                  *)
(***************************************************************************)
Talk ==
  /\ text \in [Caller -> Text]
  /\ post \in [Caller -> [text : Text, handoff : BOOLEAN]]

\* Beyond the quality gate the text is approved, and what is posted is made of it.
Spoke(c) ==
  /\ pc[c] \in {"posting", "recording", "loading", "saving"} =>
       Approved(text[c])
  /\ IF pc[c] \in {"recording", "loading", "saving"}
     THEN post[c].text \in Final(text[c], post[c].handoff)
     ELSE post[c] = NoPost

WordsInv == Types /\ Talk /\ \A c \in Caller : Spoke(c)

\* A goroutine that does nothing says nothing.
LEMMA QuietSpoke ==
  ASSUME NEW c \in Caller, Spoke(c),
         pc'[c] = pc[c], text'[c] = text[c], post'[c] = post[c]
  PROVE  Spoke(c)'
  BY DEF Spoke

\* Who leaves forgets what it said.
LEMMA ClearSpoke ==
  ASSUME WordsInv, NEW C \in SUBSET Caller, Clear(C)
  PROVE  Talk' /\ \A c \in Caller : Spoke(c)'
<1>1. NoPost \in [text : Text, handoff : BOOLEAN] /\ <<>> \in Text
  BY DEF NoPost, Text
<1>2. Talk'
  BY <1>1 DEF WordsInv, Talk, Clear
<1>3. ASSUME NEW c \in C PROVE Spoke(c)'
  <2>1. pc'[c] = "idle" /\ post'[c] = NoPost
    BY <1>3 DEF Clear
  <2> QED
    BY <2>1 DEF Spoke
<1>4. ASSUME NEW c \in Caller, c \notin C PROVE Spoke(c)'
  <2>1. pc'[c] = pc[c] /\ text'[c] = text[c] /\ post'[c] = post[c]
    BY <1>4 DEF Clear
  <2> QED
    BY <2>1, QuietSpoke DEF WordsInv
<1> QED
  BY <1>2, <1>3, <1>4

\* What the LLM may say, and to whom a post may go.
LEMMA SetupWords ==
  ASSUME setup \in Setups
  PROVE  /\ Drafts[setup.style] \subseteq Reply /\ Rewrites[setup.style] \subseteq Reply
         /\ setup.handoffs \subseteq BOOLEAN
<1>1. setup.style \in Style /\ setup.handoffs \subseteq BOOLEAN
  BY DEF Setup
<1> QED
  BY <1>1

\* A draft that goes on is typed, and approved if it is not sent back.
LEMMA DraftedSpoke ==
  ASSUME WordsInv, NEW c \in Caller, Drafted(c)
  PROVE  Talk' /\ \A d \in Caller : Spoke(d)'
<1>0. setup \in Setups /\ pc \in [Caller -> Places]
  BY DEF WordsInv, Types
<1>1. PICK draft \in Drafts[setup.style] :
        LET reply == IF draft = <<>> THEN Dots ELSE draft IN
        /\ text' = [text EXCEPT ![c] = reply]
        /\ IF NeedsRepair(reply) THEN Goto(c, "rewriting") /\ Call(c, setup.client)
           ELSE Goto(c, "posting") /\ UNCHANGED llm
  BY Zenon DEF Drafted
<1>2. PICK reply \in Text : reply = IF draft = <<>> THEN Dots ELSE draft
  BY <1>0, SetupWords, DotsText DEF Reply
<1>3. /\ text' = [text EXCEPT ![c] = reply]
      /\ IF NeedsRepair(reply) THEN Goto(c, "rewriting") ELSE Goto(c, "posting")
  BY <1>1, <1>2
<1>4. /\ UNCHANGED post
      /\ pc[c] = "drafting"
  BY DEF Drafted, Returned
<1>5. Talk'
  BY <1>3, <1>4 DEF WordsInv, Talk
<1>6. text'[c] = reply /\ post'[c] = NoPost
  BY <1>3, <1>4 DEF WordsInv, Talk, Spoke
<1>7. Spoke(c)'
  <2>1. CASE NeedsRepair(reply)
    <3>1. pc'[c] = "rewriting"
      BY <1>0, <1>3, <2>1 DEF Goto
    <3> QED
      BY <1>6, <3>1 DEF Spoke
  <2>2. CASE ~NeedsRepair(reply)
    <3>1. pc'[c] = "posting"
      BY <1>0, <1>3, <2>2 DEF Goto
    <3>2. Approved(reply)
      <4>1. reply = Dots \/ reply \in Reply
        BY <1>0, <1>2, SetupWords
      <4>2. Approved(Dots)
        BY DotsText DEF Approved, Labelled, Ends
      <4> QED
        BY <2>2, <4>1, <4>2, FineSaid
    <3> QED
      BY <1>6, <3>1, <3>2 DEF Spoke
  <2> QED
    BY <2>1, <2>2
<1>8. ASSUME NEW d \in Caller, d # c PROVE Spoke(d)'
  <2>1. pc'[d] = pc[d]
    <3>1. Goto(c, "rewriting") \/ Goto(c, "posting")
      BY <1>3
    <3> QED
      BY <1>0, <1>8, <3>1 DEF Goto
  <2>2. text'[d] = text[d] /\ post'[d] = post[d]
    BY <1>3, <1>4, <1>8 DEF WordsInv, Talk
  <2> QED
    BY <2>1, <2>2, QuietSpoke DEF WordsInv
<1> QED
  BY <1>5, <1>7, <1>8

\* Whatever the rewrite was, what goes on is approved.
LEMMA RewriteSpoke ==
  ASSUME WordsInv, NEW c \in Caller, Rewrite(c)
  PROVE  Talk' /\ \A d \in Caller : Spoke(d)'
<1>0. /\ setup \in Setups /\ pc \in [Caller -> Places] /\ text \in [Caller -> Text]
      /\ post \in [Caller -> [text : Text, handoff : BOOLEAN]]
  BY DEF WordsInv, Types, Talk
<1>1. PICK t \in IF llm[c].err = "none"
                 THEN {Rewritten(text[c], fixed) : fixed \in Rewrites[setup.style]}
                 ELSE {Complete(text[c])} :
        text' = [text EXCEPT ![c] = t]
  BY DEF Rewrite
<1>2. t \in Text /\ Approved(t)
  <2>1. CASE llm[c].err = "none"
    <3>1. PICK fixed \in Reply : t = Rewritten(text[c], fixed)
      BY <1>0, <1>1, <2>1, SetupWords
    <3> QED
      BY <1>0, <3>1, RewrittenSaid
  <2>2. CASE llm[c].err # "none"
    BY <1>0, <1>1, <2>2, CompleteSaid
  <2> QED
    BY <2>1, <2>2
<1>3. /\ pc' = [pc EXCEPT ![c] = "posting"] /\ UNCHANGED post /\ pc[c] = "rewriting"
  BY DEF Rewrite, Returned, Goto
<1>4. Talk'
  BY <1>0, <1>1, <1>2, <1>3 DEF Talk
<1>5. Spoke(c)'
  <2>1. pc'[c] = "posting" /\ text'[c] = t /\ post'[c] = NoPost
    BY <1>0, <1>1, <1>3 DEF WordsInv, Spoke
  <2> QED
    BY <1>2, <2>1 DEF Spoke
<1>6. ASSUME NEW d \in Caller, d # c PROVE Spoke(d)'
  <2>1. pc'[d] = pc[d] /\ text'[d] = text[d] /\ post'[d] = post[d]
    BY <1>0, <1>1, <1>3, <1>6
  <2> QED
    BY <2>1, QuietSpoke DEF WordsInv
<1> QED
  BY <1>4, <1>5, <1>6

\* What is posted is made of what is approved.
LEMMA PostSpoke ==
  ASSUME WordsInv, NEW c \in Caller, Post(c)
  PROVE  Talk' /\ \A d \in Caller : Spoke(d)'
<1>0. /\ setup \in Setups /\ pc \in [Caller -> Places] /\ text \in [Caller -> Text]
      /\ post \in [Caller -> [text : Text, handoff : BOOLEAN]]
  BY DEF WordsInv, Types, Talk
<1>1. PICK handoff \in setup.handoffs : \E t \in Final(text[c], handoff) :
        post' = [post EXCEPT ![c] = [text |-> t, handoff |-> handoff]]
  BY DEF Post
<1>2. PICK t \in Final(text[c], handoff) :
        post' = [post EXCEPT ![c] = [text |-> t, handoff |-> handoff]]
  BY <1>1
<1>3. handoff \in BOOLEAN /\ t \in Text
  <2>1. handoff \in BOOLEAN
    BY <1>0, SetupWords
  <2> QED
    BY <1>0, <2>1, FinalSaid
<1>4. pc' = [pc EXCEPT ![c] = "recording"] /\ UNCHANGED text /\ pc[c] = "posting"
  BY DEF Post, Goto
<1>5. Talk'
  BY <1>0, <1>2, <1>3, <1>4 DEF Talk
<1>6. Spoke(c)'
  <2>1. /\ pc'[c] = "recording" /\ text'[c] = text[c]
        /\ post'[c].text = t /\ post'[c].handoff = handoff
    BY <1>0, <1>2, <1>4
  <2>2. Approved(text[c])
    BY <1>4 DEF WordsInv, Spoke
  <2> QED
    BY <2>1, <2>2 DEF Spoke
<1>7. ASSUME NEW d \in Caller, d # c PROVE Spoke(d)'
  <2>1. pc'[d] = pc[d] /\ text'[d] = text[d] /\ post'[d] = post[d]
    BY <1>0, <1>2, <1>4, <1>7
  <2> QED
    BY <2>1, QuietSpoke DEF WordsInv
<1> QED
  BY <1>5, <1>6, <1>7

\* The steps that only move on.
LEMMA MoveSpoke ==
  ASSUME WordsInv, NEW c \in Caller, UNCHANGED <<text, post>>, NEW where,
         pc' = [pc EXCEPT ![c] = where],
         \/ /\ pc[c] \in {"idle", "locking"} /\ where \in {"locking", "drafting"}
         \/ /\ pc[c] \in {"recording", "loading"} /\ where \in {"loading", "saving"}
  PROVE  Talk' /\ \A d \in Caller : Spoke(d)'
<1>1. Talk' /\ pc \in [Caller -> Places]
  BY DEF WordsInv, Talk, Types
<1>2. Spoke(c)'
  BY <1>1 DEF WordsInv, Spoke
<1>3. ASSUME NEW d \in Caller, d # c PROVE Spoke(d)'
  BY <1>1, <1>3, QuietSpoke DEF WordsInv
<1> QED
  BY <1>1, <1>2, <1>3

\* What is said keeps to the rules with every step.
LEMMA SpokeStep == WordsInv /\ [Next]_vars => Talk' /\ \A c \in Caller : Spoke(c)'
<1> SUFFICES ASSUME WordsInv, [Next]_vars PROVE Talk' /\ \A c \in Caller : Spoke(c)'
  OBVIOUS
<1>1. ASSUME UNCHANGED <<pc, text, post>> PROVE Talk' /\ \A c \in Caller : Spoke(c)'
  BY <1>1, QuietSpoke DEF WordsInv, Talk
<1>2. ASSUME NEW c \in Caller, Take(c) PROVE Talk' /\ \A d \in Caller : Spoke(d)'
  BY <1>2, MoveSpoke DEF Take, Goto
<1>3. ASSUME NEW c \in Caller, CallerStep(c) PROVE Talk' /\ \A d \in Caller : Spoke(d)'
  <2>1. CASE Lock(c)
    BY <2>1, MoveSpoke DEF Lock, Goto
  <2>2. CASE \/ GateClosed(c) \/ Notice(c) \/ PostFails(c) \/ SaveLessons(c) \/ CaptureFails(c)
    BY <2>2, ClearSpoke
    DEF GateClosed, Notice, PostFails, SaveLessons, CaptureFails, Leave
  <2>3. CASE WaitForModel(c)
    BY <1>1, <2>3 DEF WaitForModel
  <2>4. CASE Drafted(c)
    BY <2>4, DraftedSpoke
  <2>5. CASE Rewrite(c)
    BY <2>5, RewriteSpoke
  <2>6. CASE Post(c)
    BY <2>6, PostSpoke
  <2>7. CASE AppendEvent(c)
    <3>1. CASE Goto(c, "loading") /\ UNCHANGED <<clientVars, source, text, post, loaded, mu>>
      BY <2>7, <3>1, MoveSpoke DEF AppendEvent, Goto
    <3>2. CASE Leave(c)
      BY <3>2, ClearSpoke DEF Leave
    <3> QED
      BY <2>7, <3>1, <3>2 DEF AppendEvent
  <2>8. CASE LoadLessons(c)
    BY <2>8, MoveSpoke DEF LoadLessons, Goto
  <2> QED
    BY <1>3, <2>1, <2>2, <2>3, <2>4, <2>5, <2>6, <2>7, <2>8 DEF CallerStep
<1>4. ASSUME NEW p \in Pod, Crash(p) PROVE Talk' /\ \A c \in Caller : Spoke(c)'
  BY <1>4, ClearSpoke DEF Crash
<1>5. CASE Time
  BY <1>1, <1>5 DEF Time
<1>6. CASE UNCHANGED vars
  BY <1>1, <1>6 DEF vars
<1> QED
  BY <1>2, <1>3, <1>4, <1>5, <1>6 DEF Next

\* At first nothing is said.
LEMMA WordsInit == Init => WordsInv
<1> SUFFICES ASSUME Init PROVE WordsInv
  OBVIOUS
<1>1. Types
  BY TypesInit
<1>2. NoPost \in [text : Text, handoff : BOOLEAN] /\ <<>> \in Text
  BY DEF NoPost, Text
<1>3. Talk
  BY <1>2 DEF Init, Talk
<1>4. \A c \in Caller : pc[c] = "idle" /\ post[c] = NoPost
  BY DEF Init
<1> QED
  BY <1>1, <1>3, <1>4 DEF WordsInv, Spoke

\* Every step keeps the words invariant.
LEMMA WordsStep == WordsInv /\ [Next]_vars => WordsInv'
  BY TypesStep, SpokeStep DEF WordsInv

\* A post is made of an approved text.
LEMMA PostedFinal ==
  ASSUME WordsInv, NEW c \in Caller
  PROVE  /\ text[c] \in Text /\ post[c].handoff \in BOOLEAN
         /\ \/ post[c] = NoPost
            \/ /\ post[c].text \in Final(text[c], post[c].handoff)
               /\ Approved(text[c])
  BY DEF WordsInv, Talk, Spoke

\* OnlyHiddenLabels: whatever the LLM drafts, and whichever of its calls fail, a
\* line of a post opens with a label of the prompt only where the approved text
\* hid it.
THEOREM LabelsWereHidden == Spec => []OnlyHiddenLabels
<1>1. WordsInv => OnlyHiddenLabels
  <2> SUFFICES ASSUME WordsInv, NEW c \in Caller, Labelled(post[c].text)
               PROVE  HidesLabel(text[c])
    BY DEF OnlyHiddenLabels
  <2>1. Shows(post[c].text, {})
    BY DEF Labelled
  <2>2. post[c] # NoPost
    BY <2>1 DEF NoPost, Shows
  <2>3. /\ text[c] \in Text /\ post[c].handoff \in BOOLEAN /\ Approved(text[c])
        /\ post[c].text \in Final(text[c], post[c].handoff)
    BY <2>2, PostedFinal
  <2>4. Shows(post[c].text, Thin)
    BY <2>1 DEF Shows
  <2>5. Shows(text[c], Thin)
    BY <2>3, <2>4, FinalSaid
  <2> QED
    BY <2>3, <2>5 DEF HidesLabel, Thin, Approved
<1> QED
  BY <1>1, WordsInit, WordsStep, PTL DEF Spec

\* NeverSliced: a post of any length, cut or not, ends in an open sentence only
\* where lines were cut off or where a mention or a link's bracket at its end was
\* taken away, and a hand-off never does.
THEOREM SentencesEnd == Spec => []NeverSliced
<1>1. WordsInv => NeverSliced
  <2> SUFFICES ASSUME WordsInv, NEW c \in Caller, Ends(post[c].text, "tail")
               PROVE  /\ ~post[c].handoff
                      /\ Ends(text[c], "ping") \/ Ends(text[c], "mark") \/ Lines(text[c]) > MaxLines
    BY DEF NeverSliced
  <2>1. post[c] # NoPost
    BY DEF NoPost, Ends
  <2>2. /\ text[c] \in Text /\ post[c].handoff \in BOOLEAN
        /\ post[c].text \in Final(text[c], post[c].handoff)
        /\ ~Ends(text[c], "tail") /\ ~Ends(text[c], "line")
    BY <2>1, PostedFinal DEF Approved
  <2> QED
    BY <2>2, FinalSaid
<1> QED
  BY <1>1, WordsInit, WordsStep, PTL DEF Spec
-----------------------------------------------------------------------------
(***************************************************************************)
(* Who is mentioned.                                                       *)
(***************************************************************************)
\* The first person does not depend on what else is said.
LEMMA FirstPersonAppend ==
  ASSUME NEW t \in Text, NEW x \in Token
  PROVE  FirstPerson[Append(t, x)] = Append(FirstPerson[t], Spoken(x))
<1>1. PICK u \in Text : /\ u = Append(t, x) /\ Len(u) = Len(t) + 1 /\ u[Len(t) + 1] = x
                        /\ \A i \in 1 .. Len(t) : u[i] = t[i]
  BY OneToken
<1>2. PICK s \in Token : s = Spoken(x)
  BY SpokenToken
<1>3. PICK f \in Text : /\ f = FirstPerson[t] /\ Len(f) = Len(t)
                        /\ \A i \in 1 .. Len(t) : f[i] = Spoken(t[i])
  BY FirstPersonSaid
<1>4. PICK g \in Text : /\ g = FirstPerson[u] /\ Len(g) = Len(u)
                        /\ \A i \in 1 .. Len(u) : g[i] = Spoken(u[i])
  BY FirstPersonSaid
<1>5. PICK h \in Text : /\ h = Append(f, s) /\ Len(h) = Len(f) + 1
                        /\ h[Len(f) + 1] = s
                        /\ \A i \in 1 .. Len(f) : h[i] = f[i]
  <2>1. /\ Append(f, s) \in Text /\ Len(Append(f, s)) = Len(f) + 1
        /\ Append(f, s)[Len(f) + 1] = s
        /\ \A i \in 1 .. Len(f) : Append(f, s)[i] = f[i]
    BY OneToken, Zenon
  <2> QED
    BY <2>1, Zenon
<1>6. PICK n \in Nat : n = Len(t)
  BY TextPlaces
<1>7. ASSUME NEW i \in 1 .. n + 1 PROVE g[i] = h[i]
  <2>1. CASE i = n + 1
    BY <1>1, <1>2, <1>3, <1>4, <1>5, <1>6, <2>1
  <2>2. CASE i # n + 1
    <3>1. i \in 1 .. n
      BY <2>2
    <3> QED
      BY <1>1, <1>3, <1>4, <1>5, <1>6, <3>1
  <2> QED
    BY <2>1, <2>2
<1>8. Len(g) = n + 1 /\ Len(h) = n + 1
  BY <1>1, <1>3, <1>4, <1>5, <1>6
<1>9. g = h
  BY ONLY <1>7, <1>8, g \in Text, h \in Text, n \in Nat, SeqEqual DEF Text
<1> QED
  BY <1>1, <1>2, <1>3, <1>4, <1>5, <1>9

\* To take mentions out before or after is the same.
LEMMA FirstPersonWithout ==
  ASSUME NEW B \in SUBSET Bot, NEW t \in Text
  PROVE  Without[{Ping(b) : b \in B}][FirstPerson[t]]
           = FirstPerson[Without[{Ping(b) : b \in B}][t]]
<1>0. PICK bad \in SUBSET Token : bad = {Ping(b) : b \in B}
  BY TakenOut, Zenon
<1> DEFINE Good(s) == Without[bad][FirstPerson[s]] = FirstPerson[Without[bad][s]]
           S == {s \in Text : Good(s)}
<1>1. Good(<<>>)
  <2>1. FirstPerson[<<>>] = <<>>
    <3>1. PICK f \in Text : f = FirstPerson[<<>>] /\ Len(f) = Len(<<>>)
      BY WithoutNone, FirstPersonSaid
    <3> QED
      BY <3>1 DEF Text
  <2> QED
    BY <2>1, WithoutNone
<1>2. ASSUME NEW s \in Text, Good(s), NEW x \in Token PROVE Good(Append(s, x))
  <2>1. PICK f \in Text : f = FirstPerson[s]
    BY FirstPersonSaid
  <2>2. PICK w \in Text : w = Without[bad][s]
    BY WithoutText
  <2>3. /\ Spoken(x) \in Token /\ (Spoken(x) \in bad <=> x \in bad)
        /\ Spoken(x).is = "line" <=> x.is = "line"
    <3>1. /\ Spoken(x) \in Token
          /\ Spoken(x).is = "ping" <=> x.is = "ping"
          /\ x.is = "ping" => Spoken(x) = x
          /\ Spoken(x).is = "line" <=> x.is = "line"
      BY SpokenToken
    <3>2. \A y \in bad : y.is = "ping"
      BY <1>0 DEF Ping
    <3> QED
      BY <3>1, <3>2
  <2>4. Without[bad][Append(f, Spoken(x))]
          = IF Skips(Without[bad][f], Spoken(x), bad) THEN Without[bad][f]
            ELSE Append(Without[bad][f], Spoken(x))
    BY <2>3, WithoutAppend
  <2>5. Without[bad][Append(s, x)] = IF Skips(w, x, bad) THEN w ELSE Append(w, x)
    BY <2>2, WithoutAppend
  <2>6. /\ FirstPerson[Append(s, x)] = Append(f, Spoken(x))
        /\ FirstPerson[Append(w, x)] = Append(FirstPerson[w], Spoken(x))
    BY <2>1, FirstPersonAppend
  <2>7. Without[bad][f] = FirstPerson[w]
    BY <1>2, <2>1, <2>2
  <2>8. Skips(FirstPerson[w], Spoken(x), bad) <=> Skips(w, x, bad)
    <3>1. Blank(FirstPerson[w]) <=> Blank(w)
      BY FirstPersonLines
    <3> QED
      BY <2>3, <3>1 DEF Skips
  <2>9. CASE Skips(w, x, bad)
    BY <2>4, <2>5, <2>6, <2>7, <2>8, <2>9
  <2>10. CASE ~Skips(w, x, bad)
    BY <2>4, <2>5, <2>6, <2>7, <2>8, <2>10
  <2> QED
    BY <2>9, <2>10
<1>3. <<>> \in S /\ S \in SUBSET Text
  BY <1>1, WithoutNone
<1>4. \A s \in S, x \in Token : Append(s, x) \in S
  BY <1>2, WithoutAppend
<1> HIDE DEF S
<1>5. S = Text
  BY <1>3, <1>4, AllTexts
<1> QED
  BY <1>0, <1>5 DEF S

\* Who addresses nobody at the beginning of a sentence mentions nobody by it.
Addresses(t) == \E i \in DOMAIN t : Addressed(t, i) /\ StartsSentence(t, i)

\* Where nobody is addressed, no name becomes a mention.
LEMMA MentionNobody ==
  ASSUME NEW t \in Text, ~Addresses(t)
  PROVE  MentionNames(t) = t
<1>1. PICK m \in Text : m = MentionNames(t) /\ Len(m) = Len(t)
  BY MentionNamesSaid
<1>2. ASSUME NEW i \in 1 .. Len(m) PROVE m[i] = t[i]
  <2>1. i \in DOMAIN t
    BY <1>1, TextPlaces
  <2>2. m[i] = IF Addressed(t, i) /\ StartsSentence(t, i) THEN Ping(t[i].of) ELSE t[i]
    BY <1>1, <2>1 DEF MentionNames
  <2> QED
    BY <2>1, <2>2 DEF Addresses
<1>3. m = t
  BY ONLY <1>1, <1>2, t \in Text, m \in Text, SeqEqual DEF Text
<1> QED
  BY <1>1, <1>3

\* A neat text, if it fits and does not mention oneself, only gets its first person.
LEMMA NormalizePlain ==
  ASSUME NEW t \in Text, ~Addresses(t), Neat(t), ~Ends(t, "line"),
         Ping(Self) \notin Said(t), The("mark") \notin Said(t),
         Len(t) <= MaxLen, Rows(t) < MaxLines
  PROVE  Normalize(t) = FirstPerson[t]
<1>1. {Ping(Self)} \in SUBSET Token /\ {The("mark")} \in SUBSET Token
  BY TakenOut
<1>2. NoMarks(t) = t /\ NoSelfPings(t) = t
  BY <1>1, WithoutGone DEF NoMarks, NoSelfPings
<1>3. MentionNames(t) = t
  BY MentionNobody
<1>4. PICK f \in Text : f = FirstPerson[t] /\ Len(f) = Len(t)
  BY FirstPersonSaid
<1>5. Rows(f) = Rows(t) /\ (Blank(f) <=> Blank(t))
  BY <1>4, FirstPersonLines DEF Rows
<1>6. ~Ends(f, "line")
  <2>1. CASE t = <<>>
    <3>1. f = <<>>
      BY <1>4, <2>1, TextPlaces
    <3> QED
      BY <3>1 DEF Ends
  <2>2. CASE t # <<>>
    BY <1>5, <2>2 DEF Blank
  <2> QED
    BY <2>1, <2>2
<1>7. Cap[f] = Chomp(f)
  BY <1>4, <1>5, CapSaid
<1>8. Chomp(f) = f
  BY <1>6, ChompSaid
<1> QED
  BY <1>2, <1>3, <1>4, <1>7, <1>8 DEF Normalize

\* Who addresses nobody, addresses nobody at the beginning.
LEMMA BeginsPlain ==
  ASSUME NEW u \in Text, NEW t \in Text, Begins(u, t), Addresses(u)
  PROVE  Addresses(t)
<1>1. PICK n \in Nat, m \in Nat : /\ n = Len(u) /\ DOMAIN u = 1 .. n
                                  /\ m = Len(t) /\ DOMAIN t = 1 .. m /\ n <= m
                                  /\ \A i \in 1 .. n : u[i] = t[i]
  BY TextPlaces DEF Begins
<1>2. PICK i \in 1 .. n : Addressed(u, i) /\ StartsSentence(u, i)
  BY <1>1 DEF Addresses
<1>3. i \in Nat /\ i < n
  BY <1>1, <1>2 DEF Addressed
<1>4. i \in 1 .. m /\ i + 1 \in 1 .. n /\ (i # 1 => i - 1 \in 1 .. n) /\ i < m
  BY <1>1, <1>3
<1>5. Addressed(t, i)
  BY <1>1, <1>2, <1>4 DEF Addressed
<1>6. StartsSentence(t, i)
  BY <1>1, <1>2, <1>4 DEF StartsSentence
<1> QED
  BY <1>1, <1>4, <1>5, <1>6 DEF Addresses

\* The first person changes no mention, no address and no beginning of a sentence.
LEMMA FirstPersonPings ==
  ASSUME NEW t \in Text
  PROVE  /\ Pings(FirstPerson[t]) = Pings(t)
         /\ Addresses(FirstPerson[t]) => Addresses(t)
<1>1. PICK f \in Text : /\ f = FirstPerson[t] /\ Len(f) = Len(t)
                        /\ \A i \in 1 .. Len(t) : f[i] = Spoken(t[i])
  BY FirstPersonSaid
<1>2. DOMAIN f = DOMAIN t /\ DOMAIN t = 1 .. Len(t) /\ Len(t) \in Nat
  BY <1>1, TextPlaces
<1>3. ASSUME NEW i \in DOMAIN t
      PROVE  /\ f[i].is = "ping" <=> t[i].is = "ping"
             /\ f[i].is # "word" => f[i] = t[i]
  BY <1>1, <1>2, SpokenToken, TextPlaces
<1>4. Pings(f) = Pings(t)
  BY <1>2, <1>3 DEF Pings
<1>5. ASSUME Addresses(f) PROVE Addresses(t)
  <2>1. PICK i \in DOMAIN t : Addressed(f, i) /\ StartsSentence(f, i)
    BY <1>2, <1>5 DEF Addresses
  <2>2. i \in Nat /\ i < Len(t) /\ i + 1 \in DOMAIN t /\ (i # 1 => i - 1 \in DOMAIN t)
    BY <1>1, <1>2, <2>1 DEF Addressed
  <2>3. Addressed(t, i)
    BY <1>1, <1>3, <2>1, <2>2 DEF Addressed
  <2>4. StartsSentence(t, i)
    BY <1>3, <2>1, <2>2 DEF StartsSentence
  <2> QED
    BY <2>3, <2>4 DEF Addresses
<1> QED
  BY <1>1, <1>4, <1>5

\* The text without its mentions, as the policy sees it.
LEMMA Bare ==
  ASSUME NEW t \in Text, Len(t) <= MaxLen, Lines(t) <= MaxLines
  PROVE  LET bare == Without[{Ping(b) : b \in Bot}][MentionNames(NoMarks(t))]
             out  == NoPings(Normalize(t))
         IN  /\ bare \in Text /\ out = Chomp(FirstPerson[bare]) /\ Len(out) <= Len(t)
             /\ \A x \in Said(out) : x.is # "ping"
<1>1. PICK k \in Text : k = NoMarks(t) /\ Len(k) <= Len(t)
  <2>1. {The("mark")} \in SUBSET Token
    BY TakenOut
  <2> QED
    BY <2>1, WithoutSaid DEF NoMarks
<1>2. PICK m \in Text : m = MentionNames(k) /\ Len(m) = Len(k)
  BY MentionNamesSaid
<1>3. PICK self \in SUBSET Token, others \in SUBSET Token, all \in SUBSET Token :
        self = {Ping(Self)} /\ others = {Ping(b) : b \in Others} /\ all = {Ping(b) : b \in Bot}
  BY TakenOut, Zenon
<1>4. self \cup others = all
  BY <1>3 DEF Others
<1>5. PICK y \in Text : y = Without[self][m] /\ Len(y) <= Len(m)
  BY WithoutSaid
<1>6. PICK bare \in Text : /\ bare = Without[all][m] /\ Len(bare) <= Len(m)
                           /\ Said(bare) \subseteq Said(m) \ all
  BY WithoutSaid
<1>7. PICK f \in Text : f = FirstPerson[y] /\ Len(f) = Len(y)
  BY FirstPersonSaid
<1>8. /\ Len(t) \in Nat /\ Len(k) \in Nat /\ Len(m) \in Nat /\ Len(y) \in Nat
      /\ MaxLen \in Nat /\ MaxLines \in Nat
  BY TextPlaces
<1>9. f = Formatted(t)
  BY <1>1, <1>2, <1>3, <1>5, <1>7 DEF Formatted, NoSelfPings
<1>10. Normalize(t) = Chomp(f)
  <2>1. Normalize(t) = Cap[f] /\ Rows(f) < Lines(t)
    BY <1>9, FormattedSaid
  <2>2. Lines(t) \in Nat /\ Rows(f) \in Nat
    <3>1. Without[{}][t] \in Text
      BY WithoutText
    <3> QED
      BY <3>1, RowsType DEF Lines, Rows
  <2>3. Len(f) <= MaxLen /\ Rows(f) < MaxLines
    BY <1>1, <1>2, <1>5, <1>7, <1>8, <2>1, <2>2
  <2> QED
    BY <2>1, <2>3, CapSaid
<1>11. Without[others][f] = FirstPerson[bare]
  <2>1. Without[others][f] = FirstPerson[Without[others][y]]
    <3>1. Others \in SUBSET Bot
      BY DEF Others
    <3> QED
      BY <1>3, <1>7, <3>1, FirstPersonWithout
  <2>2. Without[others][y] = Without[all][m]
    <3>1. \A x \in others : x.is # "line"
      BY <1>3 DEF Ping
    <3>2. Without[others][Without[self][m]] = Without[self \cup others][m]
      BY <3>1, WithoutBoth, Zenon
    <3> QED
      BY <1>4, <1>5, <3>2, Zenon
  <2> QED
    BY <1>6, <2>1, <2>2
<1>12. NoPings(Normalize(t)) = Chomp(FirstPerson[bare])
  <2>1. Chomp(Without[others][Chomp(f)]) = Chomp(Without[others][f])
    BY ChompWithout
  <2> QED
    BY <1>3, <1>10, <1>11, <2>1 DEF NoPings
<1>13. /\ Len(Chomp(FirstPerson[bare])) <= Len(t)
       /\ \A x \in Said(Chomp(FirstPerson[bare])) : x.is # "ping"
  <2>1. \A x \in Said(bare) : x.is # "ping"
    <3> SUFFICES ASSUME NEW x \in Said(bare), x.is = "ping" PROVE FALSE
      OBVIOUS
    <3>1. x \in Token /\ x \notin all
      BY <1>6, SaidType
    <3>2. PICK b \in Bot : x = Ping(b)
      BY <3>1, Tokens
    <3> QED
      BY <1>3, <3>1, <3>2
  <2>2. The("word").is # "ping"
    BY DEF The
  <2>3. PICK g \in Text : /\ g = FirstPerson[bare] /\ Len(g) = Len(bare)
                          /\ Said(g) \subseteq Said(bare) \cup {The("word")}
    BY FirstPersonSaid
  <2>4. PICK h \in Text : h = Chomp(g) /\ Begins(h, g) /\ Said(h) \subseteq Said(g)
    BY ChompSaid
  <2>5. Len(h) \in Nat /\ Len(g) \in Nat /\ Len(h) <= Len(g)
    BY <2>4, TextPlaces DEF Begins
  <2>6. Len(h) <= Len(t)
    BY <1>1, <1>2, <1>6, <1>8, <2>3, <2>5
  <2> QED
    BY <2>1, <2>2, <2>3, <2>4, <2>6
<1> QED
  BY <1>1, <1>2, <1>3, <1>6, <1>12, <1>13

\* A hand-off that is put behind a text addresses nobody.
LEMMA QuickTakePlain ==
  ASSUME NEW out \in Text, NEW b \in Others, NEW e, e = out \o QuickTake(b),
         ~Addresses(out), \A x \in Said(out) : x.is # "ping"
  PROVE  ~Addresses(e) /\ Pings(e) = {Len(out) + 1}
<1>1. PICK n \in Nat : n = Len(out) /\ DOMAIN out = 1 .. n
  BY TextPlaces
<1>2. /\ e \in Text /\ Len(e) = n + 3
      /\ e[n + 1] = Ping(b) /\ e[n + 2] = The("word") /\ e[n + 3] = The("stop")
      /\ \A i \in 1 .. n : e[i] = out[i]
  <2>1. /\ e \in Text /\ Len(e) = Len(out) + 3
        /\ e[Len(out) + 1] = Ping(b) /\ e[Len(out) + 2] = The("word")
        /\ e[Len(out) + 3] = The("stop")
        /\ \A i \in 1 .. Len(out) : e[i] = out[i]
    BY ONLY WithQuickTake, out \in Text, b \in Others, e = out \o QuickTake(b), Zenon
  <2> QED
    BY <1>1, <2>1
<1>3. DOMAIN e = 1 .. n + 3
  BY <1>2, TextPlaces
<1>4. Ping(b).is = "ping" /\ The("word").is = "word" /\ The("stop").is = "stop"
  BY DEF Ping, The
<1>5. \A i \in 1 .. n : out[i].is # "ping"
  BY <1>1 DEF Said
<1>6. \A i : i \in 1 .. n + 3 <=> i \in 1 .. n \/ i = n + 1 \/ i = n + 2 \/ i = n + 3
  OBVIOUS
<1>7. ASSUME Addresses(e) PROVE FALSE
  <2>1. PICK i \in 1 .. n + 3 : Addressed(e, i) /\ StartsSentence(e, i)
    BY <1>3, <1>7 DEF Addresses
  <2>2. e[i].is = "name" /\ e[i].of # Self /\ i < n + 3 /\ e[i + 1].is = "comma"
    BY <1>2, <2>1 DEF Addressed
  <2>3. i \in 1 .. n
    BY <1>2, <1>4, <1>6, <2>2
  <2>4. i # n
    BY <1>2, <1>4, <2>2
  <2>5. i \in Nat /\ i < n /\ i + 1 \in 1 .. n /\ (i # 1 => i - 1 \in 1 .. n)
    BY <2>3, <2>4
  <2>6. e[i] = out[i] /\ e[i + 1] = out[i + 1] /\ (i # 1 => e[i - 1] = out[i - 1])
    BY <1>2, <2>3, <2>5
  <2>7. Addressed(out, i)
    BY <1>1, <2>2, <2>5, <2>6 DEF Addressed
  <2>8. StartsSentence(out, i)
    BY <2>1, <2>6 DEF StartsSentence
  <2> QED
    BY <1>1, <2>3, <2>7, <2>8 DEF Addresses
<1>8. ASSUME NEW i PROVE i \in Pings(e) <=> i = n + 1
  <2>1. CASE i \in 1 .. n
    <3>1. i # n + 1
      BY <2>1
    <3> QED
      BY <1>2, <1>5, <2>1, <3>1 DEF Pings
  <2>2. CASE i = n + 1 \/ i = n + 2 \/ i = n + 3
    <3>1. n + 1 # n + 2 /\ n + 1 # n + 3
      OBVIOUS
    <3> QED
      BY <1>2, <1>3, <1>4, <1>6, <2>2, <3>1 DEF Pings
  <2>3. CASE i \notin 1 .. n + 3
    <3>1. n + 1 \in 1 .. n + 3
      OBVIOUS
    <3> QED
      BY <1>3, <2>3, <3>1 DEF Pings
  <2> QED
    BY <1>6, <2>1, <2>2, <2>3
<1> QED
  BY <1>1, <1>7, <1>8

\* A text without addresses that fits is posted as the policy has it.
LEMMA FinalObeys ==
  ASSUME NEW t \in Text, NEW handoff \in BOOLEAN, NEW u \in Final(t, handoff),
         ~Exposes(t), Fits(t)
  PROVE  Obeys(u, handoff)
<1>1. /\ Len(t) \in Nat /\ MaxLen \in Nat /\ Len(t) + 3 <= MaxLen /\ Len(t) <= MaxLen
      /\ Lines(t) <= MaxLines
  BY TextPlaces DEF Fits
<1>2. PICK bare \in Text : bare = Without[{Ping(b) : b \in Bot}][MentionNames(NoMarks(t))]
  BY <1>1, Bare
<1>3. ~Addresses(bare)
  BY <1>2 DEF Exposes, Addresses
<1>4. PICK n \in Text :
        /\ n = Normalize(t)
        /\ \E e \in Enforce(n, handoff) :
             u = IF Normalize(e) = <<>> THEN Dots ELSE Normalize(e)
  BY FinalCases
<1>5. PICK out \in Text : /\ out = NoPings(n) /\ out = Chomp(FirstPerson[bare])
                          /\ Len(out) <= Len(t)
                          /\ \A x \in Said(out) : x.is # "ping"
  <2>1. FirstPerson[bare] \in Text
    BY FirstPersonSaid
  <2>2. Chomp(FirstPerson[bare]) \in Text
    BY <2>1, ChompSaid
  <2> QED
    BY <1>1, <1>2, <1>4, <2>2, Bare
<1>6. ~Addresses(out)
  <2>1. PICK g \in Text : g = FirstPerson[bare]
    BY FirstPersonSaid
  <2>2. Begins(out, g)
    BY <1>5, <2>1, ChompSaid
  <2>3. ~Addresses(g)
    BY <1>3, <2>1, FirstPersonPings
  <2> QED
    BY <2>2, <2>3, BeginsPlain
<1>7. /\ Ping(Self).is = "ping" /\ The("mark") \notin Said(n)
      /\ Rows(n) < MaxLines /\ ~Ends(n, "line") /\ Ping(Self) \notin Said(n)
  <2>1. /\ Ping(Self) \notin {Ping(b) : b \in Others} /\ Ping(Self).is = "ping"
        /\ Ping(Self) # The("word") /\ Ping(Self) # The("stop")
        /\ The("mark") \notin {Ping(b) : b \in Others}
        /\ The("mark") # The("word") /\ The("mark") # The("stop")
    BY DEF Ping, The, Others
  <2> QED
    BY <1>4, <2>1, NormalizeSaid
<1>8. /\ Len(out) \in Nat /\ Len(out) <= Len(t) /\ The("mark") \notin Said(out)
  <2>1. Said(NoPings(n)) \subseteq Said(n)
    <3>1. PICK e \in Enforce(n, handoff) : TRUE
      BY <1>4
    <3> QED
      BY <3>1, EnforceSaid
  <2> QED
    BY <1>5, <1>7, <2>1, TextPlaces
<1>9. PICK e \in Enforce(n, handoff) : u = IF Normalize(e) = <<>> THEN Dots ELSE Normalize(e)
  BY <1>4
<1>10. /\ e \in Text /\ Neat(e) /\ Rows(e) < MaxLines /\ ~Ends(e, "line")
       /\ handoff => \E b \in Others : e = out \o QuickTake(b)
       /\ ~handoff => e = IF out = <<>> THEN Dots ELSE out
  <2>1. /\ e \in Text /\ Neat(e) /\ Rows(e) <= Rows(n)
        /\ handoff => \E b \in Others : e = out \o QuickTake(b)
        /\ ~handoff => e = IF out = <<>> THEN Dots ELSE out
    BY <1>5, EnforceSaid
  <2>2. ~Ends(e, "line")
    BY <1>7, EnforceTail
  <2>3. Rows(e) \in Nat /\ Rows(n) \in Nat
    BY <2>1, RowsType
  <2> QED
    BY <1>7, <2>1, <2>2, <2>3
<1>11. CASE handoff
  <2>1. PICK b \in Others : e = out \o QuickTake(b)
    BY <1>10, <1>11
  <2>2. /\ Len(e) = Len(out) + 3 /\ e # <<>>
        /\ Said(e) = Said(out) \cup {Ping(b), The("word"), The("stop")}
    BY <2>1, WithQuickTake
  <2>3. ~Addresses(e) /\ Pings(e) = {Len(out) + 1}
    BY <1>5, <1>6, <2>1, QuickTakePlain
  <2>4. Ping(Self) \notin Said(e) /\ The("mark") \notin Said(e)
    <3>1. /\ Ping(Self) # Ping(b) /\ Ping(Self) # The("word") /\ Ping(Self) # The("stop")
          /\ The("mark") # Ping(b) /\ The("mark") # The("word") /\ The("mark") # The("stop")
      BY DEF Ping, The, Others
    <3>2. Ping(Self) \notin Said(out)
      BY <1>5, <1>7
    <3> QED
      BY <1>8, <2>2, <3>1, <3>2
  <2>5. Len(e) <= MaxLen
    BY <1>1, <1>8, <2>2
  <2>6. Normalize(e) = FirstPerson[e]
    BY <1>10, <2>3, <2>4, <2>5, NormalizePlain
  <2>7. Pings(FirstPerson[e]) = {Len(out) + 1}
    BY <1>10, <2>3, FirstPersonPings
  <2>8. Normalize(e) # <<>>
    <3>1. PICK w \in Text : w = FirstPerson[e] /\ Len(w) = Len(e)
      BY <1>10, FirstPersonSaid
    <3>2. Len(e) # 0
      BY <1>8, <2>2
    <3> QED
      BY <2>6, <3>1, <3>2, TextPlaces
  <2>9. Pings(u) = {Len(out) + 1}
    BY <1>9, <2>6, <2>7, <2>8
  <2>10. Cardinality(Pings(u)) = 1
    BY <2>9, FS_Singleton
  <2> QED
    BY <1>11, <2>10 DEF Obeys
<1>12. CASE ~handoff
  <2>1. Pings(Dots) = {} /\ FirstPerson[Dots] \in Text /\ Pings(FirstPerson[Dots]) = {}
    <3>1. Pings(Dots) = {}
      <4>1. The("stop").is # "ping"
        BY DEF The
      <4>2. DOMAIN Dots = 1 .. 1
        BY DotsText, TextPlaces
      <4>3. \A i \in 1 .. 1 : i = 1
        OBVIOUS
      <4> QED
        BY <4>1, <4>2, <4>3, DotsText DEF Pings
    <3> QED
      BY <3>1, DotsText, FirstPersonPings, FirstPersonSaid
  <2>2. /\ ~Addresses(e) /\ Ping(Self) \notin Said(e) /\ The("mark") \notin Said(e)
        /\ Len(e) <= MaxLen /\ Pings(e) = {}
    <3>1. CASE out = <<>>
      <4>1. e = Dots
        BY <1>10, <1>12, <3>1
      <4>2. Ping(Self) # The("stop") /\ The("mark") # The("stop") /\ The("stop").is # "name"
        BY DEF Ping, The
      <4>3. ~Addresses(Dots)
        <5>1. DOMAIN Dots = 1 .. 1
          BY DotsText, TextPlaces
        <5>2. \A i \in 1 .. 1 : i = 1
          OBVIOUS
        <5> QED
          BY <4>2, <5>1, <5>2, DotsText DEF Addresses, Addressed
      <4>4. 1 <= MaxLen
        BY <1>1
      <4> QED
        BY <2>1, <4>1, <4>2, <4>3, <4>4, DotsText
    <3>2. CASE out # <<>>
      <4>1. e = out
        BY <1>10, <1>12, <3>2
      <4>2. Ping(Self) \notin Said(out)
        BY <1>5, <1>7
      <4>3. Pings(out) = {}
        BY <1>5 DEF Pings, Said
      <4>4. Len(out) <= MaxLen
        BY <1>1, <1>8
      <4> QED
        BY <1>6, <1>8, <4>1, <4>2, <4>3, <4>4
    <3> QED
      BY <3>1, <3>2
  <2>3. Pings(Normalize(e)) = {}
    BY <1>10, <2>2, NormalizePlain, FirstPersonPings
  <2>4. Pings(u) = {}
    BY <1>9, <2>1, <2>3
  <2>5. Cardinality(Pings(u)) = 0
    BY <2>4, FS_EmptySet, Zenon
  <2> QED
    BY <1>12, <2>5 DEF Obeys
<1> QED
  BY <1>11, <1>12

\* MentionsAsDecided: nobody mentions himself, and a text that fits and in which
\* no mention hides an address mentions one other bot for a hand-off, else none,
\* for any squad and any text.
THEOREM MentionsObey == Spec => []MentionsAsDecided
<1>1. WordsInv => MentionsAsDecided
  <2> SUFFICES ASSUME WordsInv, NEW c \in Caller, post[c] # NoPost
               PROVE  /\ Self \notin PingedBy(post[c].text)
                      /\ ~Exposes(text[c]) /\ Fits(text[c]) => Obeys(post[c].text, post[c].handoff)
    BY DEF MentionsAsDecided
  <2>1. PICK u \in Final(text[c], post[c].handoff) : u = post[c].text
    BY PostedFinal
  <2>2. /\ text[c] \in Text /\ post[c].handoff \in BOOLEAN /\ u \in Text
        /\ Ping(Self) \notin Said(u)
    BY PostedFinal, FinalSaid
  <2>3. Self \notin PingedBy(u)
    <3> SUFFICES ASSUME NEW i \in DOMAIN u, u[i].is = "ping", u[i].of = Self PROVE FALSE
      BY DEF PingedBy, Pings
    <3>1. u[i] \in Token
      BY <2>2, TextPlaces
    <3>2. u[i] = Ping(Self)
      BY <3>1, Tokens
    <3> QED
      BY <2>2, <3>2 DEF Said
  <2>4. ASSUME ~Exposes(text[c]), Fits(text[c]) PROVE Obeys(u, post[c].handoff)
    BY <2>2, <2>4, FinalObeys
  <2> QED
    BY <2>1, <2>3, <2>4
<1> QED
  BY <1>1, WordsInit, WordsStep, PTL DEF Spec
-----------------------------------------------------------------------------
(***************************************************************************)
(* The types.                                                              *)
(***************************************************************************)
Rest ==
  /\ jobs \in [Caller -> Nat] /\ source \in [Caller -> Source]
  /\ now \in Nat /\ expiry \in Nat /\ faults \in Nat
  /\ loaded \in [Caller -> [Lesson -> 0 .. now]] /\ stored \in [Lesson -> 0 .. now]
  /\ writer \in [Lesson -> Pod \cup {Nobody}]

TypesInv == WordsInv /\ Rest

\* What a setup says of messages and lessons.
LEMMA SetupRest ==
  ASSUME setup \in Setups
  PROVE  /\ setup.pod \in [Caller -> Pod] /\ setup.jobs \in [Caller -> Nat]
         /\ setup.sources \in SUBSET Source /\ setup.known \in [Lesson -> {0, 1}]
         /\ setup.maxActive \in Nat \ {0} /\ setup.ttl \in Nat \ {0}
  BY DEF Setup

\* A lesson derived is one of the lessons.
LEMMA LessonOfType == \A c \in Caller : LessonOf(c) \subseteq Lesson
  BY DEF LessonOf, Lessons, Lesson

\* The list to save is a list.
LEMMA LearnedType ==
  ASSUME NEW c \in Caller, now \in Nat, stored \in [Lesson -> 0 .. now]
  PROVE  \A list \in Learned(c) : list \in [Lesson -> 0 .. now]
<1>1. 0 \in 0 .. now /\ now \in 0 .. now
  OBVIOUS
<1>2. Fresh(stored, setup.ttl) \in [Lesson -> 0 .. now]
  BY <1>1 DEF Fresh
<1>3. ASSUME NEW l \in Lesson
      PROVE  Upsert(Fresh(stored, setup.ttl), l, setup.maxActive) \in [Lesson -> 0 .. now]
  <2>1. PICK list \in [Lesson -> 0 .. now] :
          list = [Fresh(stored, setup.ttl) EXCEPT ![l] = now]
    BY <1>1, <1>2
  <2>2. First(list, setup.maxActive) \in [Lesson -> 0 .. now]
    BY <1>1 DEF First
  <2> QED
    BY <2>1, <2>2 DEF Upsert
<1> QED
  BY <1>3, LessonOfType DEF Learned

\* The goroutines in C leave.
LEMMA ClearRest ==
  ASSUME Rest, NEW C \in SUBSET Caller, Clear(C)
  PROVE  /\ source' \in [Caller -> Source]
         /\ loaded' \in [Caller -> [Lesson -> 0 .. now]]
<1>1. "plain" \in Source /\ NoLessons \in [Lesson -> 0 .. now]
  BY DEF Source, NoLessons, Rest
<1> QED
  BY <1>1 DEF Rest, Clear

\* A fault is counted.
LEMMA FaultType == \A kind : faults \in Nat /\ Fault(kind) => faults' \in Nat
  BY DEF Fault

\* The types of what the arguments do not need are kept by every step.
LEMMA RestStep == TypesInv /\ [Next]_vars => Rest'
<1> SUFFICES ASSUME TypesInv, [Next]_vars PROVE Rest'
  OBVIOUS
<1>0. setup \in Setups /\ Rest
  BY DEF TypesInv, WordsInv, Types
<1>1. CASE UNCHANGED vars
  BY <1>0, <1>1 DEF Rest, vars, lessonVars
<1>2. ASSUME NEW c \in Caller, Take(c) PROVE Rest'
  <2>1. jobs' \in [Caller -> Nat]
    <3>1. jobs[c] \in Nat /\ jobs[c] > 0 /\ jobs' = [jobs EXCEPT ![c] = jobs[c] - 1]
      BY <1>0, <1>2 DEF Take, Rest
    <3>2. jobs[c] - 1 \in Nat
      BY <3>1
    <3> QED
      BY <1>0, <3>1, <3>2 DEF Rest
  <2>2. source' \in [Caller -> Source]
    <3>1. PICK s \in setup.sources : source' = [source EXCEPT ![c] = s]
      BY <1>2 DEF Take
    <3>2. s \in Source
      BY <1>0, SetupRest
    <3> QED
      BY <1>0, <3>1, <3>2 DEF Rest
  <2> QED
    BY <1>0, <1>2, <2>1, <2>2 DEF Take, Rest, lessonVars
<1>3. ASSUME NEW c \in Caller, CallerStep(c) PROVE Rest'
  <2>1. CASE Lock(c) \/ WaitForModel(c) \/ Drafted(c) \/ Rewrite(c) \/ Post(c)
    BY <1>0, <2>1 DEF Lock, WaitForModel, Drafted, Rewrite, Post, Rest, lessonVars
  <2>2. CASE \/ GateClosed(c) \/ Notice(c) \/ PostFails(c) \/ CaptureFails(c)
    <3>1. /\ Leave(c) /\ UNCHANGED <<lessonVars, jobs, writer, setup>>
          /\ UNCHANGED faults \/ \E kind : Fault(kind)
      BY <2>2 DEF GateClosed, Notice, PostFails, CaptureFails
    <3> QED
      BY <1>0, <3>1, ClearRest, FaultType DEF Leave, Rest, lessonVars
  <2>3. CASE AppendEvent(c)
    <3>1. CASE Goto(c, "loading") /\ UNCHANGED <<clientVars, source, text, post, loaded, mu>>
      BY <1>0, <2>3, <3>1 DEF AppendEvent, Rest, lessonVars
    <3>2. CASE Leave(c)
      BY <1>0, <2>3, <3>2, ClearRest DEF AppendEvent, Leave, Rest, lessonVars
    <3> QED
      BY <2>3, <3>1, <3>2 DEF AppendEvent
  <2>4. CASE LoadLessons(c)
    <3>1. PICK list \in Learned(c) : loaded' = [loaded EXCEPT ![c] = list]
      BY <2>4 DEF LoadLessons
    <3>2. list \in [Lesson -> 0 .. now]
      BY <1>0, <3>1, LearnedType DEF Rest
    <3> QED
      BY <1>0, <2>4, <3>1, <3>2 DEF LoadLessons, Rest, lessonVars
  <2>5. CASE SaveLessons(c)
    <3>1. /\ Leave(c) /\ UNCHANGED <<now, jobs, setup>>
          /\ UNCHANGED faults \/ Fault("redis")
          /\ \/ /\ SaveList(loaded[c], setup.ttl)
                /\ writer' = [l \in Lesson |-> IF loaded[c][l] # 0 THEN setup.pod[c]
                                               ELSE writer[l]]
             \/ UNCHANGED <<stored, expiry, writer>>
      BY <2>5 DEF SaveLessons
    <3>2. stored' \in [Lesson -> 0 .. now] /\ expiry' \in Nat
          /\ writer' \in [Lesson -> Pod \cup {Nobody}]
      BY <1>0, <3>1, SetupRest DEF SaveList, Rest
    <3> QED
      BY <1>0, <3>1, <3>2, ClearRest, FaultType DEF Leave, Rest
  <2> QED
    BY <1>3, <2>1, <2>2, <2>3, <2>4, <2>5 DEF CallerStep
<1>4. ASSUME NEW p \in Pod, Crash(p) PROVE Rest'
  <2>1. PICK C \in SUBSET Caller : Clear(C)
    BY <1>4 DEF Crash
  <2> QED
    BY <1>0, <1>4, <2>1, ClearRest, FaultType DEF Crash, Rest, lessonVars
<1>5. CASE Time
  <2>1. now \in Nat /\ now' = now + 1 /\ now' \in Nat /\ 0 .. now \subseteq 0 .. now'
    BY <1>0, <1>5 DEF Time, Tick, Rest
  <2>2. \/ stored' = NoLessons /\ expiry' = 0
        \/ UNCHANGED <<stored, expiry>>
    BY <1>5 DEF Time, Tick
  <2>3. stored' \in [Lesson -> 0 .. now'] /\ expiry' \in Nat
    BY <1>0, <2>1, <2>2 DEF NoLessons, Rest
  <2>4. loaded' \in [Caller -> [Lesson -> 0 .. now']]
    BY <1>0, <1>5, <2>1 DEF Time, Rest
  <2> QED
    BY <1>0, <1>5, <2>1, <2>3, <2>4 DEF Time, Rest
<1> QED
  BY <1>1, <1>2, <1>3, <1>4, <1>5 DEF Next

\* The initial state is typed.
LEMMA TypesInvInit == Init => TypesInv
<1> SUFFICES ASSUME Init PROVE Rest
  BY WordsInit DEF TypesInv
<1>1. setup \in Setups /\ now = 1 /\ 0 \in 0 .. now /\ 1 \in 0 .. now
  BY DEF Init
<1>2. stored \in [Lesson -> 0 .. now] /\ NoLessons \in [Lesson -> 0 .. now]
  BY <1>1, SetupRest DEF Init, NoLessons
<1>3. expiry \in Nat
  BY <1>1, SetupRest DEF Init
<1> QED
  BY <1>1, <1>2, <1>3, SetupRest DEF Init, Rest, Source

\* Every step keeps the types.
LEMMA TypesInvStep == TypesInv /\ [Next]_vars => TypesInv'
  BY WordsStep, RestStep DEF TypesInv

\* The types hold, the texts and posts among them whatever is drafted.
THEOREM TypeCorrect == Spec => []TypeOK
<1>1. TypesInv => TypeOK
  BY DEF TypesInv, WordsInv, Types, Talk, Rest, TypeOK, Places, CallTypes
<1> QED
  BY <1>1, TypesInvInit, TypesInvStep, PTL DEF Spec
-----------------------------------------------------------------------------
(***************************************************************************)
(* The lessons.                                                            *)
(***************************************************************************)
\* One lesson more.
One(list, l) == IF list[l] # 0 THEN 1 ELSE 0

\* How many better lessons there are.
LEMMA BetterCount ==
  ASSUME NEW list \in [Lesson -> Nat]
  PROVE  /\ Cardinality(Better(list, 1)) = 0
         /\ Cardinality(Better(list, 2)) = One(list, 1)
         /\ Cardinality(Better(list, 3)) = One(list, 1) + One(list, 2)
<1>1. /\ Cardinality({}) = 0 /\ Cardinality({1}) = 1 /\ Cardinality({2}) = 1
  BY FS_EmptySet, FS_Singleton, Zenon
<1>2. Cardinality({1, 2}) = 2
  <2>1. 1 .. 2 = {1, 2} /\ 2 \in Nat
    OBVIOUS
  <2> QED
    BY <2>1, UpTo
<1>3. Better(list, 1) = {}
  BY DEF Better
<1>4. Better(list, 2) = IF list[1] # 0 THEN {1} ELSE {}
  BY DEF Better
<1>5. Better(list, 3) = IF list[1] # 0 THEN IF list[2] # 0 THEN {1, 2} ELSE {1}
                        ELSE IF list[2] # 0 THEN {2} ELSE {}
  BY DEF Better
<1>6. Cardinality(Better(list, 3)) = One(list, 1) + One(list, 2)
  <2>1. CASE list[1] # 0 /\ list[2] # 0
    BY <1>2, <1>5, <2>1 DEF One
  <2>2. CASE list[1] # 0 /\ list[2] = 0
    BY <1>1, <1>5, <2>2 DEF One
  <2>3. CASE list[1] = 0 /\ list[2] # 0
    BY <1>1, <1>5, <2>3 DEF One
  <2>4. CASE list[1] = 0 /\ list[2] = 0
    BY <1>1, <1>5, <2>4 DEF One
  <2> QED
    BY <2>1, <2>2, <2>3, <2>4
<1> QED
  BY <1>1, <1>3, <1>4, <1>6 DEF One

\* A list that has less has fewer lessons before any.
LEMMA FewerBetter ==
  ASSUME NEW fewer \in [Lesson -> Nat], NEW list \in [Lesson -> Nat],
         \A k \in Lesson : fewer[k] # 0 => list[k] # 0,
         NEW l \in Lesson
  PROVE  /\ Cardinality(Better(fewer, l)) \in Nat /\ Cardinality(Better(list, l)) \in Nat
         /\ Cardinality(Better(fewer, l)) <= Cardinality(Better(list, l))
<1>1. \A k \in Lesson : /\ One(fewer, k) \in Nat /\ One(list, k) \in Nat
                        /\ One(fewer, k) <= One(list, k)
  BY DEF One
<1>2. l = 1 \/ l = 2 \/ l = 3
  BY DEF Lesson
<1>3. 1 \in Lesson /\ 2 \in Lesson
  BY DEF Lesson
<1> QED
  BY <1>1, <1>2, <1>3, BetterCount

\* A lesson that is cut off has as many better ones as the list may have, and a
\* lesson that is not has fewer.
LEMMA CutOff ==
  ASSUME NEW list \in [Lesson -> Nat], NEW max \in Nat \ {0}, NEW l \in Lesson
  PROVE  /\ First(list, max) \in [Lesson -> Nat]
         /\ First(list, max)[l] # 0 => Cardinality(Better(First(list, max), l)) < max
         /\ \/ First(list, max)[l] = list[l]
            \/ Cardinality(Better(First(list, max), l)) = max
<1> DEFINE cut == First(list, max)
<1>1. cut = [k \in Lesson |-> IF Cardinality(Better(list, k)) < max THEN list[k] ELSE 0]
  BY DEF First
<1>2. cut \in [Lesson -> Nat] /\ \A k \in Lesson : cut[k] # 0 => list[k] # 0
  BY <1>1
<1> HIDE DEF cut
<1>3. cut[l] # 0 => Cardinality(Better(cut, l)) < max
  <2>1. /\ Cardinality(Better(cut, l)) \in Nat /\ Cardinality(Better(list, l)) \in Nat
        /\ Cardinality(Better(cut, l)) <= Cardinality(Better(list, l))
    BY <1>2, FewerBetter
  <2>2. cut[l] # 0 => Cardinality(Better(list, l)) < max
    BY <1>1
  <2> QED
    BY <2>1, <2>2
<1>4. ASSUME Cardinality(Better(list, l)) >= max
      PROVE  Cardinality(Better(cut, l)) = max
  <2>1. /\ Cardinality(Better(list, 1)) = 0 /\ Cardinality(Better(list, 2)) = One(list, 1)
        /\ Cardinality(Better(list, 3)) = One(list, 1) + One(list, 2)
    BY BetterCount
  <2>2. /\ Cardinality(Better(cut, 2)) = One(cut, 1)
        /\ Cardinality(Better(cut, 3)) = One(cut, 1) + One(cut, 2)
    BY <1>2, BetterCount
  <2>3. cut[1] = list[1] /\ cut[2] = IF One(list, 1) < max THEN list[2] ELSE 0
    BY <1>1, <2>1 DEF Lesson
  <2>4. l = 2 \/ l = 3
    BY <1>4, <2>1 DEF Lesson
  <2> QED
    BY <1>4, <2>1, <2>2, <2>3, <2>4 DEF One
<1>5. cut[l] = list[l] \/ Cardinality(Better(list, l)) >= max
  <2>1. Cardinality(Better(list, l)) \in Nat
    BY FewerBetter
  <2> QED
    BY <1>1, <2>1
<1> QED
  BY <1>2, <1>3, <1>4, <1>5 DEF cut

\* Who is about to save a list holds no more lessons than allowed, and what has
\* become newer or is missing in it was saved by another pod or has been cut off.
UpToDate(c) ==
  pc[c] = "saving" =>
    \A l \in Lesson :
      /\ loaded[c][l] # 0 => Cardinality(Better(loaded[c], l)) < setup.maxActive
      /\ stored[l] > now - setup.ttl /\ stored[l] > loaded[c][l]
         => \/ Cardinality(Better(loaded[c], l)) = setup.maxActive
            \/ writer[l] # setup.pod[c]

LessonsInv == TypesInv /\ HoldersInside /\ \A c \in Caller : UpToDate(c)

\* A list as the types have it.
LEMMA ListType ==
  ASSUME Rest, NEW c \in Caller
  PROVE  /\ loaded[c] \in [Lesson -> Nat] /\ stored \in [Lesson -> Nat] /\ now \in Nat
         /\ \A l \in Lesson : loaded[c][l] <= now /\ stored[l] <= now
<1>1. /\ now \in Nat /\ loaded[c] \in [Lesson -> 0 .. now] /\ stored \in [Lesson -> 0 .. now]
  BY DEF Rest
<1> QED
  BY <1>1

\* Who goes on with its list, or without, stays up to date while nothing is saved.
LEMMA Untouched ==
  ASSUME NEW c \in Caller, UpToDate(c), UNCHANGED <<stored, writer, now, setup>>,
         pc'[c] = "saving" => pc[c] = "saving" /\ loaded'[c] = loaded[c]
  PROVE  UpToDate(c)'
  BY DEF UpToDate, Better

\* The list to save is up to date when it is loaded.
LEMMA LoadUpToDate ==
  ASSUME LessonsInv, NEW c \in Caller, LoadLessons(c)
  PROVE  UpToDate(c)'
<1>1. setup \in Setups /\ Rest /\ setup.maxActive \in Nat \ {0} /\ setup.ttl \in Nat \ {0}
  BY SetupRest DEF LessonsInv, TypesInv, WordsInv, Types
<1>2. PICK list \in Learned(c) : loaded' = [loaded EXCEPT ![c] = list]
  BY DEF LoadLessons
<1>3. PICK lesson \in LessonOf(c) :
        list = Upsert(Fresh(stored, setup.ttl), lesson, setup.maxActive)
  BY DEF Learned
<1>4. lesson \in Lesson /\ stored \in [Lesson -> Nat] /\ now \in Nat
      /\ \A l \in Lesson : stored[l] <= now
  BY <1>1, LessonOfType, ListType
<1> DEFINE whole == [Fresh(stored, setup.ttl) EXCEPT ![lesson] = now]
<1>5. Fresh(stored, setup.ttl) \in [Lesson -> Nat]
      /\ \A l \in Lesson : stored[l] > now - setup.ttl => Fresh(stored, setup.ttl)[l] = stored[l]
  BY <1>4 DEF Fresh
<1>6. whole \in [Lesson -> Nat]
      /\ \A l \in Lesson : stored[l] > now - setup.ttl => ~(stored[l] > whole[l])
  BY <1>4, <1>5
<1>7. list = First(whole, setup.maxActive)
  BY <1>3 DEF Upsert
<1> HIDE DEF whole
<1>8. ASSUME NEW l \in Lesson
      PROVE  /\ list[l] # 0 => Cardinality(Better(list, l)) < setup.maxActive
             /\ stored[l] > now - setup.ttl /\ stored[l] > list[l]
                => Cardinality(Better(list, l)) = setup.maxActive
  <2>1. /\ list[l] # 0 => Cardinality(Better(list, l)) < setup.maxActive
        /\ list[l] = whole[l] \/ Cardinality(Better(list, l)) = setup.maxActive
    BY <1>1, <1>6, <1>7, CutOff
  <2> QED
    BY <1>6, <2>1
<1>9. loaded'[c] = list /\ UNCHANGED <<stored, writer, now, setup>>
  BY <1>1, <1>2 DEF LoadLessons, Rest, lessonVars
<1> QED
  BY <1>8, <1>9 DEF UpToDate, Better

\* A list that was loaded before a save comes from another pod than the save.
LEMMA SaveUpToDate ==
  ASSUME LessonsInv, NEW c \in Caller, NEW d \in Caller, SaveLessons(d)
  PROVE  UpToDate(c)'
<1>1. setup \in Setups /\ Types /\ Rest /\ setup.pod \in [Caller -> Pod]
  BY SetupRest DEF LessonsInv, TypesInv, WordsInv, Types
<1>2. /\ pc[d] = "saving" /\ Leave(d) /\ UNCHANGED <<now, setup>>
      /\ \/ /\ stored' = loaded[d]
            /\ writer' = [l \in Lesson |-> IF loaded[d][l] # 0 THEN setup.pod[d] ELSE writer[l]]
         \/ UNCHANGED <<stored, writer>>
  BY DEF SaveLessons, SaveList
<1>3. pc' = [b \in Caller |-> IF b \in {d} THEN "idle" ELSE pc[b]]
      /\ loaded' = [b \in Caller |-> IF b \in {d} THEN NoLessons ELSE loaded[b]]
  BY <1>2 DEF Leave, Clear
<1>4. CASE c = d \/ pc[c] # "saving"
  BY <1>3, <1>4 DEF UpToDate
<1>5. CASE c # d /\ pc[c] = "saving"
  <2>1. setup.pod[c] # setup.pod[d]
    BY <1>1, <1>2, <1>5 DEF LessonsInv, HoldersInside, Inside
  <2>2. loaded'[c] = loaded[c] /\ pc'[c] = pc[c]
    BY <1>3, <1>5
  <2>3. CASE UNCHANGED <<stored, writer>>
    BY <1>2, <2>2, <2>3, Untouched DEF LessonsInv
  <2>4. CASE /\ stored' = loaded[d]
             /\ writer' = [l \in Lesson |-> IF loaded[d][l] # 0 THEN setup.pod[d] ELSE writer[l]]
    <3>1. loaded[c] \in [Lesson -> Nat] /\ loaded[d] \in [Lesson -> Nat]
      BY <1>1, ListType
    <3>2. ASSUME NEW l \in Lesson, stored'[l] > loaded[c][l]
          PROVE  writer'[l] # setup.pod[c]
      <4>1. loaded[d][l] # 0
        BY <2>4, <3>1, <3>2
      <4> QED
        BY <2>1, <2>4, <4>1
    <3>3. \A l \in Lesson :
            loaded[c][l] # 0 => Cardinality(Better(loaded[c], l)) < setup.maxActive
      BY <1>5 DEF LessonsInv, UpToDate
    <3>4. \A l \in Lesson :
            /\ loaded[c][l] # 0 => Cardinality(Better(loaded[c], l)) < setup.maxActive
            /\ stored'[l] > now - setup.ttl /\ stored'[l] > loaded[c][l]
               => \/ Cardinality(Better(loaded[c], l)) = setup.maxActive
                  \/ writer'[l] # setup.pod[c]
      BY <3>2, <3>3
    <3> QED
      BY <1>2, <2>2, <3>4 DEF UpToDate, Better
  <2> QED
    BY <1>2, <2>3, <2>4
<1> QED
  BY <1>4, <1>5

\* While time passes, lessons only get too old or are dropped.
LEMMA TimeUpToDate ==
  ASSUME LessonsInv, NEW c \in Caller, Time
  PROVE  UpToDate(c)'
<1>1. Rest /\ setup.ttl \in Nat
  BY SetupRest DEF LessonsInv, TypesInv, WordsInv, Types
<1>2. /\ now' = now + 1 /\ UNCHANGED <<pc, loaded, writer, setup>>
      /\ stored' = NoLessons \/ stored' = stored
  BY DEF Time, Tick
<1>3. ASSUME NEW l \in Lesson, stored'[l] > now' - setup.ttl, stored'[l] > loaded[c][l]
      PROVE  stored[l] > now - setup.ttl /\ stored[l] > loaded[c][l]
  <2>1. loaded[c] \in [Lesson -> Nat] /\ stored \in [Lesson -> Nat] /\ now \in Nat
    BY <1>1, ListType
  <2>2. stored' = stored
    BY <1>2, <1>3, <2>1 DEF NoLessons
  <2> QED
    BY <1>1, <1>2, <1>3, <2>1, <2>2
<1> QED
  BY <1>2, <1>3 DEF LessonsInv, UpToDate, Better

\* Who is about to save stays up to date with every step.
LEMMA UpToDateStep == LessonsInv /\ [Next]_vars => \A c \in Caller : UpToDate(c)'
<1> SUFFICES ASSUME LessonsInv, [Next]_vars, NEW c \in Caller PROVE UpToDate(c)'
  OBVIOUS
<1>0. UpToDate(c) /\ Types /\ Rest
  BY DEF LessonsInv, TypesInv, WordsInv
<1>1. CASE UNCHANGED vars
  BY <1>0, <1>1, Untouched DEF vars, lessonVars
<1>2. ASSUME NEW d \in Caller, Take(d) PROVE UpToDate(c)'
  BY <1>0, <1>2, Untouched DEF Take, Goto, Types, lessonVars
<1>3. ASSUME NEW d \in Caller, CallerStep(d) PROVE UpToDate(c)'
  <2>1. CASE Lock(d) \/ Rewrite(d) \/ Post(d)
    BY <1>0, <2>1, Untouched DEF Lock, Rewrite, Post, Goto, Types, lessonVars
  <2>2. CASE WaitForModel(d)
    BY <1>0, <2>2, Untouched DEF WaitForModel, lessonVars
  <2>3. CASE Drafted(d)
    <3>1. Goto(d, "rewriting") \/ Goto(d, "posting")
      BY <2>3, DraftedCases
    <3> QED
      BY <1>0, <2>3, <3>1, Untouched DEF Drafted, Goto, Types, lessonVars
  <2>4. CASE \/ GateClosed(d) \/ Notice(d) \/ PostFails(d) \/ CaptureFails(d)
    <3>1. Clear({d}) /\ UNCHANGED <<stored, now, writer, setup>>
      BY <2>4 DEF GateClosed, Notice, PostFails, CaptureFails, Leave, lessonVars
    <3> QED
      BY <1>0, <3>1, Untouched DEF Clear
  <2>5. CASE AppendEvent(d)
    <3>1. CASE Goto(d, "loading") /\ UNCHANGED loaded
      BY <1>0, <2>5, <3>1, Untouched DEF AppendEvent, Goto, Types, lessonVars
    <3>2. CASE Clear({d})
      BY <1>0, <2>5, <3>2, Untouched DEF AppendEvent, Clear, lessonVars
    <3> QED
      BY <2>5, <3>1, <3>2 DEF AppendEvent, Leave
  <2>6. CASE LoadLessons(d)
    <3>1. CASE c = d
      BY <2>6, <3>1, LoadUpToDate
    <3>2. CASE c # d
      BY <1>0, <2>6, <3>2, Untouched DEF LoadLessons, Goto, Types, Rest, lessonVars
    <3> QED
      BY <3>1, <3>2
  <2>7. CASE SaveLessons(d)
    BY <2>7, SaveUpToDate
  <2> QED
    BY <1>3, <2>1, <2>2, <2>3, <2>4, <2>5, <2>6, <2>7 DEF CallerStep
<1>4. ASSUME NEW p \in Pod, Crash(p) PROVE UpToDate(c)'
  <2>1. PICK C \in SUBSET Caller : Clear(C)
    BY <1>4 DEF Crash
  <2> QED
    BY <1>0, <1>4, <2>1, Untouched DEF Crash, Clear, lessonVars
<1>5. CASE Time
  BY <1>5, TimeUpToDate
<1> QED
  BY <1>1, <1>2, <1>3, <1>4, <1>5 DEF Next

\* At first nobody has a list to save.
LEMMA LessonsInvInit == Init => LessonsInv
<1> SUFFICES ASSUME Init PROVE HoldersInside /\ \A c \in Caller : UpToDate(c)
  BY TypesInvInit DEF LessonsInv
<1>1. HoldersInside
  BY SetupType DEF Init, HoldersInside, Inside
<1>2. \A c \in Caller : UpToDate(c)
  BY DEF Init, UpToDate
<1> QED
  BY <1>1, <1>2

\* Every step keeps the lessons invariant.
LEMMA LessonsInvStep == LessonsInv /\ [Next]_vars => LessonsInv'
BY TypesInvStep, HoldersStep, UpToDateStep DEF LessonsInv, MuInv, TypesInv, WordsInv

\* Only time and a save change what prompts show.
LEMMA ShownChanges ==
  ASSUME LessonsInv, [Next]_vars, now' = now
  PROVE  \/ UNCHANGED <<stored, setup>>
         \/ \E c \in Caller : /\ pc[c] = "saving" /\ pc'[c] = "idle"
                              /\ stored' = loaded[c] /\ UNCHANGED setup
<1>1. CASE UNCHANGED vars
  BY <1>1 DEF vars, lessonVars
<1>2. ASSUME NEW c \in Caller, Take(c) PROVE UNCHANGED <<stored, setup>>
  BY <1>2 DEF Take, lessonVars
<1>3. ASSUME NEW c \in Caller, CallerStep(c), ~SaveLessons(c) PROVE UNCHANGED <<stored, setup>>
  BY <1>3 DEF CallerStep, Lock, GateClosed, WaitForModel, Drafted, Rewrite, Notice, Post,
              PostFails, AppendEvent, LoadLessons, CaptureFails, lessonVars
<1>4. ASSUME NEW c \in Caller, SaveLessons(c)
      PROVE  \/ UNCHANGED <<stored, setup>>
             \/ /\ pc[c] = "saving" /\ pc'[c] = "idle"
                /\ stored' = loaded[c] /\ UNCHANGED setup
  BY <1>4 DEF SaveLessons, SaveList, Leave, Clear
<1>5. ASSUME NEW p \in Pod, Crash(p) PROVE UNCHANGED <<stored, setup>>
  BY <1>5 DEF Crash, lessonVars
<1>6. ~Time
  <2>1. now \in Nat
    BY DEF LessonsInv, TypesInv, Rest
  <2> QED
    BY <2>1 DEF Time, Tick
<1> QED
  BY <1>1, <1>2, <1>3, <1>4, <1>5, <1>6 DEF Next

\* What prompts show is fresh, and among the first of the fresh.
LEMMA ShownIs ==
  ASSUME Rest, setup \in Setups, NEW l \in Lesson
  PROVE  l \in Shown(setup.maxActive, setup.ttl)
         <=> /\ stored[l] # 0 /\ stored[l] > now - setup.ttl
             /\ Cardinality(Better(Fresh(stored, setup.ttl), l)) < setup.maxActive
BY DEF Shown, First, Fresh

\* Lessons are lost to time, to better lessons, and to a second pod that saved
\* after this one had loaded; never to another goroutine of the pod.
THEOREM LessonsStay == Spec => LessonsKept
<1>1. LessonsInv /\ [Next]_vars =>
        [\A l \in Shown(setup.maxActive, setup.ttl) \ Shown(setup.maxActive, setup.ttl)' :
           \/ now' # now
           \/ Cardinality(Better(stored', l)) = setup.maxActive
           \/ \E c \in Caller : /\ pc[c] = "saving" /\ pc'[c] = "idle"
                                /\ loaded[c][l] # stored[l] /\ writer[l] # setup.pod[c]]_vars
  <2> SUFFICES ASSUME LessonsInv, [Next]_vars, now' = now,
                      NEW l \in Shown(setup.maxActive, setup.ttl),
                      l \notin Shown(setup.maxActive, setup.ttl)',
                      Cardinality(Better(stored', l)) # setup.maxActive
               PROVE  \E c \in Caller : /\ pc[c] = "saving" /\ pc'[c] = "idle"
                                        /\ loaded[c][l] # stored[l]
                                        /\ writer[l] # setup.pod[c]
    BY Zenon
  <2>1. Rest /\ setup \in Setups /\ l \in Lesson
    BY DEF LessonsInv, TypesInv, WordsInv, Types, Shown
  <2>2. /\ stored[l] # 0 /\ stored[l] > now - setup.ttl
    BY <2>1, ShownIs
  <2>3. PICK c \in Caller : /\ pc[c] = "saving" /\ pc'[c] = "idle"
                            /\ stored' = loaded[c] /\ UNCHANGED setup
    <3>1. ~UNCHANGED <<stored, setup>>
      BY DEF Shown, First, Fresh, Better
    <3> QED
      BY <3>1, ShownChanges
  <2>4. loaded[c] \in [Lesson -> Nat] /\ stored \in [Lesson -> Nat] /\ now \in Nat
        /\ setup.ttl \in Nat /\ setup.maxActive \in Nat
    BY <2>1, ListType, SetupRest
  <2>5. /\ loaded[c][l] # 0 => Cardinality(Better(loaded[c], l)) < setup.maxActive
        /\ stored[l] > loaded[c][l] => writer[l] # setup.pod[c]
    BY <2>1, <2>2, <2>3 DEF LessonsInv, UpToDate, Better
  <2>6. loaded[c][l] < stored[l]
    <3> SUFFICES ASSUME loaded[c][l] >= stored[l] PROVE FALSE
      BY <2>1, <2>4
    <3> DEFINE fresh == [k \in Lesson |-> IF loaded[c][k] > now - setup.ttl
                                          THEN loaded[c][k] ELSE 0]
    <3>1. loaded[c][l] # 0 /\ loaded[c][l] > now - setup.ttl
      BY <2>1, <2>2, <2>4
    <3>2. fresh \in [Lesson -> Nat] /\ \A k \in Lesson : fresh[k] # 0 => loaded[c][k] # 0
      BY <2>4
    <3>3. Fresh(stored, setup.ttl)' = fresh
      BY <2>3 DEF Fresh
    <3>4. fresh[l] # 0
      BY <2>1, <3>1
    <3> HIDE DEF fresh
    <3>5. Cardinality(Better(fresh, l)) < setup.maxActive
      BY <2>1, <2>4, <2>5, <3>1, <3>2, FewerBetter
    <3>6. First(fresh, setup.maxActive)[l] # 0
      BY <2>1, <3>4, <3>5 DEF First
    <3>7. l \in Shown(setup.maxActive, setup.ttl)'
      BY <2>1, <2>3, <3>3, <3>6 DEF Shown, First, Better
    <3> QED
      BY <3>7
  <2> QED
    BY <2>1, <2>3, <2>4, <2>5, <2>6
<1> QED
  BY <1>1, LessonsInvInit, LessonsInvStep, PTL DEF Spec, LessonsKept
-----------------------------------------------------------------------------
(***************************************************************************)
(* The fallback.                                                           *)
(***************************************************************************)
FirstWait == AtMost(setup.client.backoff, MaxBackoff)
SecondWait == AtMost(2 * FirstWait, MaxBackoff)
LongWait == AtMost(setup.client.backoff * 2 ^ setup.client.retries, MaxBackoff)
Portion == MinSlice + LongWait

\* The deadline has room for a minimal slice and the longest backoff per attempt.
Roomy ==
  /\ setup.client.fallback > 0 /\ 1 + setup.client.retries <= 3
  /\ setup.client.budget > (1 + setup.client.retries) * Portion

\* The slices and backoffs of the code: one as short as TinyBudget leaves none, and
\* the longest backoff is at most two minimal slices.  With longer ones the deadline
\* may pass during the second backoff, and the fallback is skipped.
SlicesCover == TinyBudget <= 2 * MinSlice /\ MaxBackoff <= 2 * MinSlice

\* What is left of the deadline at each attempt and each backoff.
Funded(c) ==
  LET call == llm[c]
      retries == setup.client.retries
  IN  /\ call.at = "attempt" =>
           \/ /\ call.attempt = 1
              /\ call.left > (1 + retries) * Portion /\ call.wait = FirstWait
           \/ /\ call.attempt = 2 /\ retries >= 1
              /\ call.left > retries * Portion - FirstWait /\ call.wait = SecondWait
           \/ call.attempt = 3 /\ retries = 2
      /\ call.at = "backoff" =>
           \/ /\ call.attempt = 1 /\ retries >= 1
              /\ call.left > retries * Portion /\ call.wait = FirstWait
           \/ /\ call.attempt = 2 /\ retries = 2
              /\ 2 * call.left > 2 * Portion - FirstWait /\ call.wait = SecondWait
      /\ call.at = "done" /\ Eligible(call.err) => call.fell

FundInv == Types /\ \A c \in Caller : Roomy => Funded(c)

\* The backoffs.
LEMMA WaitTypes ==
  ASSUME setup \in Setups, setup.client.retries <= 2
  PROVE  /\ FirstWait \in Nat /\ SecondWait \in Nat /\ LongWait \in Nat /\ Portion \in Nat
         /\ Portion = MinSlice + LongWait /\ LongWait <= MaxBackoff
         /\ setup.client.retries \in 0 .. 2 /\ setup.client.budget \in Nat
         /\ setup.client.retries >= 1 => FirstWait <= LongWait
         /\ setup.client.retries = 2 => SecondWait <= LongWait
<1>1. PICK b \in Nat, r \in Nat : b = setup.client.backoff /\ r = setup.client.retries
  BY SetupType DEF Client
<1>2. FirstWait = (IF b > MaxBackoff THEN MaxBackoff ELSE b) /\ FirstWait \in Nat
  BY <1>1 DEF FirstWait, AtMost
<1>3. SecondWait = (IF 2 * FirstWait > MaxBackoff THEN MaxBackoff ELSE 2 * FirstWait)
      /\ SecondWait \in Nat
  BY <1>2 DEF SecondWait, AtMost
<1>4. LongWait = AtMost(b * 2 ^ r, MaxBackoff)
  BY <1>1 DEF LongWait
<1>5. r = 0 \/ r = 1 \/ r = 2
  BY <1>1
<1>6. 2 ^ 0 = 1 /\ 2 ^ 1 = 2 /\ 2 ^ 2 = 4
  OBVIOUS
<1>7. /\ r = 0 => LongWait = AtMost(b, MaxBackoff)
      /\ r = 1 => LongWait = AtMost(2 * b, MaxBackoff)
      /\ r = 2 => LongWait = AtMost(4 * b, MaxBackoff)
  <2>1. b * 2 ^ r = IF r = 0 THEN b * 1 ELSE IF r = 1 THEN b * 2 ELSE b * 4
    BY <1>5, <1>6, Zenon
  <2>2. b * 1 = b /\ b * 2 = 2 * b /\ b * 4 = 4 * b
    OBVIOUS
  <2>3. 0 # 1 /\ 0 # 2 /\ 1 # 2
    OBVIOUS
  <2> QED
    BY <1>4, <2>1, <2>2, <2>3, Zenon
<1>8. /\ LongWait \in Nat /\ LongWait <= MaxBackoff
      /\ r >= 1 => FirstWait <= LongWait
      /\ r = 2 => SecondWait <= LongWait
  BY <1>2, <1>3, <1>5, <1>7 DEF AtMost
<1> QED
  BY <1>1, <1>2, <1>3, <1>5, <1>8, SetupType DEF Portion, Client

\* A slice is a share of what is left, where that is enough for minimal slices.
LEMMA SliceShare ==
  ASSUME NEW left \in Nat, NEW n \in {2, 3}, left > n * MinSlice, left > TinyBudget
  PROVE  Slice(left, n) \in Nat /\ n * Slice(left, n) <= left
<1>1. PICK share \in Nat : share = left \div n /\ n * share <= left
  OBVIOUS
<1>2. Slice(left, n) = IF share > MaxSlice THEN MaxSlice
                       ELSE IF share < MinSlice THEN MinSlice ELSE share
  BY <1>1 DEF Slice, AtMost
<1> QED
  BY <1>1, <1>2

\* An attempt that is retried leaves what the next ones need.
LEMMA AttemptLeaves ==
  ASSUME setup \in Setups, Roomy, SlicesCover,
         NEW left \in Nat, NEW k \in Nat, k >= 1, k <= setup.client.retries,
         NEW d \in Nat, d <= Slice(left, setup.client.retries + 2 - k),
         \/ k = 1 /\ left > (1 + setup.client.retries) * Portion
         \/ k = 2 /\ left > setup.client.retries * Portion - FirstWait
         \/ k = 3
  PROVE  /\ left - d \in Nat
         /\ \/ k = 1 /\ left - d > setup.client.retries * Portion
            \/ k = 2 /\ setup.client.retries = 2 /\ 2 * (left - d) > 2 * Portion - FirstWait
<1>1. PICK r \in 0 .. 2 : r = setup.client.retries
  BY SetupType, WaitTypes DEF Roomy, Client
<1>2. PICK p \in Nat, w \in Nat, long \in Nat :
        /\ p = Portion /\ w = FirstWait /\ long = LongWait
        /\ p = MinSlice + long
        /\ r >= 1 => w <= long
  BY <1>1, WaitTypes DEF Roomy
<1>3. r >= 1 /\ w <= long
  BY <1>1, <1>2
<1>4. CASE k = 1 /\ r = 1
  <2>1. left > 2 * p
    BY <1>1, <1>2, <1>4
  <2>2. left > 2 * MinSlice /\ left > TinyBudget
    BY <1>2, <2>1 DEF SlicesCover
  <2>3. PICK slice \in Nat : slice = Slice(left, 2) /\ 2 * slice <= left /\ d <= slice
    <3>1. setup.client.retries + 2 - k = 2
      BY <1>1, <1>4
    <3> QED
      BY <2>2, <3>1, SliceShare
  <2>4. left - d \in Nat /\ left - d > p
    BY <1>2, <2>1, <2>3
  <2> QED
    BY <1>1, <1>2, <1>4, <2>4
<1>5. CASE k = 1 /\ r = 2
  <2>1. left > 3 * p
    BY <1>1, <1>2, <1>5
  <2>2. left > 3 * MinSlice /\ left > TinyBudget
    BY <1>2, <2>1 DEF SlicesCover
  <2>3. PICK slice \in Nat : slice = Slice(left, 3) /\ 3 * slice <= left /\ d <= slice
    <3>1. setup.client.retries + 2 - k = 3
      BY <1>1, <1>5
    <3> QED
      BY <2>2, <3>1, SliceShare
  <2>4. left - d \in Nat /\ left - d > 2 * p
    BY <1>2, <2>1, <2>3
  <2> QED
    BY <1>1, <1>2, <1>5, <2>4
<1>6. CASE k = 2 /\ r = 2
  <2>1. left > 2 * p - w
    BY <1>1, <1>2, <1>6
  <2>2. left > 2 * MinSlice /\ left > TinyBudget
    BY <1>2, <1>3, <2>1 DEF SlicesCover
  <2>3. PICK slice \in Nat : slice = Slice(left, 2) /\ 2 * slice <= left /\ d <= slice
    <3>1. setup.client.retries + 2 - k = 2
      BY <1>1, <1>6
    <3> QED
      BY <2>2, <3>1, SliceShare
  <2>4. left - d \in Nat /\ 2 * (left - d) > 2 * p - w
    BY <1>2, <2>1, <2>3
  <2> QED
    BY <1>1, <1>2, <1>6, <2>4
<1> QED
  BY <1>1, <1>3, <1>4, <1>5, <1>6

\* There is time for each backoff, and something left after it.
LEMMA BackoffFits ==
  ASSUME setup \in Setups, Roomy, SlicesCover, NEW left \in Nat, NEW k \in Nat,
         \/ k = 1 /\ setup.client.retries >= 1 /\ left > setup.client.retries * Portion
         \/ k = 2 /\ setup.client.retries = 2 /\ 2 * left > 2 * Portion - FirstWait
  PROVE  /\ k = 1 => /\ left > FirstWait
                     /\ left - FirstWait > setup.client.retries * Portion - FirstWait
         /\ k = 2 => left > SecondWait
<1>1. PICK r \in 0 .. 2 : r = setup.client.retries
  BY SetupType, WaitTypes DEF Roomy, Client
<1>2. PICK p \in Nat, w \in Nat, v \in Nat, long \in Nat :
        /\ p = Portion /\ w = FirstWait /\ v = SecondWait /\ long = LongWait
        /\ p = MinSlice + long /\ long <= MaxBackoff
        /\ r >= 1 => w <= long
        /\ r = 2 => v <= long
  BY <1>1, WaitTypes DEF Roomy
<1>3. CASE k = 1
  <2>1. left > r * p /\ r >= 1
    BY <1>1, <1>2, <1>3
  <2>2. r * p = p \/ r * p = 2 * p
    BY <1>1, <2>1
  <2> QED
    BY <1>1, <1>2, <1>3, <2>1, <2>2
<1>4. CASE k = 2
  <2>1. 2 * left > 2 * p - w /\ w <= long /\ v <= long
    BY <1>1, <1>2, <1>4
  <2>2. MaxBackoff <= 2 * MinSlice
    BY DEF SlicesCover
  <2> QED
    BY <1>2, <1>4, <2>1, <2>2
<1> QED
  BY <1>3, <1>4

\* The client's steps stay within what is left, and only end after the fallback.
LEMMA ClientFunded ==
  ASSUME Types, NEW c \in Caller, ClientStep(c, setup.client), UNCHANGED setup,
         SlicesCover, Roomy, Funded(c)
  PROVE  Funded(c)'
<1> DEFINE call == llm[c]
           client == setup.client
           retries == setup.client.retries
<1>1. setup \in Setups /\ call \in CallTypes /\ llm \in [Caller -> CallTypes]
      /\ call.left \in Nat /\ call.attempt \in Nat /\ call.wait \in Nat
      /\ retries \in 0 .. 2 /\ client.fallback > 0
      /\ Portion \in Nat /\ FirstWait \in Nat /\ SecondWait \in Nat
  BY SetupType, WaitTypes DEF Types, CallTypes, Roomy, Client
<1>2. UNCHANGED <<Portion, FirstWait, SecondWait, LongWait>>
  BY DEF Portion, FirstWait, SecondWait, LongWait
<1>3. CASE Attempt(c, client)
  <2> DEFINE allowed == Slice(call.left, retries + 2 - call.attempt)
  <2>1. PICK d \in Durations(allowed, client), outcome \in client.calls :
          Spend(c, AfterAttempt([call EXCEPT !.left = @ - d], outcome, client), d)
    BY <1>3 DEF Attempt
  <2> DEFINE rest == [call EXCEPT !.left = @ - d]
             next == AfterAttempt(rest, outcome, client)
  <2>2. llm'[c] = next
    BY <1>1, <2>1 DEF Spend
  <2>3. rest.attempt = call.attempt /\ rest.left = call.left - d /\ rest.wait = call.wait
    BY <1>1 DEF CallTypes
  <2>4. rest \in [at : {"off", "attempt", "backoff", "fallback", "done"}, attempt : Nat,
                  left : Int, wait : Nat, err : Outcome \cup {"none"}, fell : BOOLEAN]
    <3>1. d \in Int
      <4>1. allowed \in Int
        <5>1. call.attempt \in 1 .. 3
          BY <1>1, <1>3 DEF Funded, Attempt
        <5>2. (retries + 2 - call.attempt) \in Int
          BY <1>1
        <5>3. CASE retries + 2 - call.attempt <= 1
          BY <1>1, <5>3 DEF Slice
        <5>4. CASE retries + 2 - call.attempt > 1
          <6>1. PICK n \in Nat \ {0} : n = retries + 2 - call.attempt
            BY <5>2, <5>4
          <6>2. call.left \div n \in Nat
            BY <1>1, <6>1
          <6> QED
            BY <1>1, <6>1, <6>2 DEF Slice, AtMost
        <5> QED
          BY <5>2, <5>3, <5>4
      <4> QED
        BY <2>1, <4>1 DEF Durations
    <3> QED
      BY <1>1, <3>1 DEF CallTypes
  <2> HIDE DEF next, rest
  <2>5. CASE next.at # "backoff"
    <3>1. next.at \in {"done", "fallback"} /\ (next.at = "done" => ~Eligible(next.err))
      <4>1. next = AfterAttempt(rest, outcome, client)
        BY DEF next
      <4>2. CASE outcome = "ok"
        <5>1. next = [rest EXCEPT !.at = "done", !.err = "none"]
          BY <4>1, <4>2 DEF AfterAttempt
        <5> QED
          BY <2>4, <5>1 DEF Eligible
      <4>3. CASE outcome # "ok"
        <5>1. next = [rest EXCEPT !.err = outcome,
                        !.at = IF ~Eligible(outcome) THEN "done"
                               ELSE IF rest.attempt <= client.retries THEN "backoff"
                               ELSE IF client.fallback > 0 THEN "fallback" ELSE "done"]
          BY <4>1, <4>3 DEF AfterAttempt
        <5>2. next.err = outcome
              /\ next.at = IF ~Eligible(outcome) THEN "done"
                           ELSE IF rest.attempt <= client.retries THEN "backoff"
                           ELSE IF client.fallback > 0 THEN "fallback" ELSE "done"
          BY <2>4, <5>1
        <5> QED
          BY <1>1, <2>5, <5>2
      <4> QED
        BY <4>2, <4>3
    <3> QED
      BY <2>2, <3>1 DEF Funded
  <2>6. CASE next.at = "backoff"
    <3>1. /\ call.attempt <= retries /\ next.attempt = call.attempt
          /\ next.left = call.left - d /\ next.wait = call.wait
      <4>1. next = AfterAttempt(rest, outcome, client)
        BY DEF next
      <4>2. outcome # "ok"
        BY <2>4, <2>6, <4>1 DEF AfterAttempt
      <4>3. next = [rest EXCEPT !.err = outcome,
                      !.at = IF ~Eligible(outcome) THEN "done"
                             ELSE IF rest.attempt <= client.retries THEN "backoff"
                             ELSE IF client.fallback > 0 THEN "fallback" ELSE "done"]
        BY <4>1, <4>2 DEF AfterAttempt
      <4>4. rest.attempt <= retries
        BY <2>4, <2>6, <4>3
      <4>5. next.attempt = rest.attempt /\ next.left = rest.left /\ next.wait = rest.wait
        BY <2>4, <4>3
      <4> QED
        BY <2>3, <4>4, <4>5
    <3>2. \/ /\ call.attempt = 1
             /\ call.left > (1 + retries) * Portion /\ call.wait = FirstWait
          \/ /\ call.attempt = 2 /\ retries >= 1
             /\ call.left > retries * Portion - FirstWait /\ call.wait = SecondWait
          \/ call.attempt = 3 /\ retries = 2
      BY <1>3 DEF Funded, Attempt
    <3>3. d \in Nat /\ d <= allowed
      <4>1. call.attempt \in 1 .. 2 /\ call.attempt <= retries
        BY <1>1, <3>1, <3>2
      <4>2. allowed \in Nat
        <5>1. PICK n \in Nat \ {0} : n = retries + 2 - call.attempt
          <6>1. PICK r \in 0 .. 2, k \in 1 .. 2 : r = retries /\ k = call.attempt /\ k <= r
            BY <1>1, <4>1
          <6>2. r + 2 - k \in Nat \ {0}
            BY <6>1
          <6> QED
            BY <6>1, <6>2
        <5>2. call.left \div n \in Nat
          BY <1>1, <5>1
        <5> QED
          BY <1>1, <5>1, <5>2 DEF Slice, AtMost
      <4> QED
        BY <2>1, <4>2 DEF Durations
    <3>4. \/ call.attempt = 1 /\ call.left - d > retries * Portion
          \/ call.attempt = 2 /\ retries = 2 /\ 2 * (call.left - d) > 2 * Portion - FirstWait
      BY <1>1, <3>1, <3>2, <3>3, AttemptLeaves
    <3>5. next.wait = IF call.attempt = 1 THEN FirstWait ELSE SecondWait
      BY <3>1, <3>2, <3>4
    <3>6. \/ /\ next.attempt = 1 /\ retries >= 1
             /\ next.left > retries * Portion /\ next.wait = FirstWait
          \/ /\ next.attempt = 2 /\ retries = 2
             /\ 2 * next.left > 2 * Portion - FirstWait /\ next.wait = SecondWait
      BY <1>1, <3>1, <3>4, <3>5
    <3> HIDE DEF retries
    <3> QED
      BY <1>2, <2>2, <2>6, <3>6 DEF Funded, retries
  <2> QED
    BY <2>5, <2>6
<1>4. CASE Backoff(c, client)
  <2> DEFINE wait == IF client.slow THEN call.wait ELSE 0
  <2>1. \/ /\ call.attempt = 1 /\ retries >= 1
           /\ call.left > retries * Portion /\ call.wait = FirstWait
        \/ /\ call.attempt = 2 /\ retries = 2
           /\ 2 * call.left > 2 * Portion - FirstWait /\ call.wait = SecondWait
    BY <1>4 DEF Funded, Backoff
  <2>2. /\ call.attempt = 1 => /\ call.left > FirstWait
                               /\ call.left - FirstWait > retries * Portion - FirstWait
        /\ call.attempt = 2 => call.left > SecondWait
    BY <1>1, <2>1, BackoffFits
  <2>3. call.left > call.wait /\ wait \in Nat /\ wait <= call.wait
    BY <1>1, <2>1, <2>2
  <2>4. /\ wait = IF client.slow THEN call.wait ELSE 0
        /\ Spend(c, [call EXCEPT !.at = "attempt", !.attempt = @ + 1, !.left = @ - wait,
                                 !.wait = AtMost(2 * @, MaxBackoff)], wait)
    <3>1. ~(client.slow /\ call.left <= wait)
      BY <1>1, <2>3
    <3> QED
      BY <1>4, <3>1 DEF Backoff
  <2> DEFINE next == llm'[c]
  <2>5. /\ next.at = "attempt" /\ next.attempt = call.attempt + 1
        /\ next.left = call.left - wait /\ next.wait = AtMost(2 * call.wait, MaxBackoff)
    BY <1>1, <2>4 DEF Spend, CallTypes
  <2>6. \/ /\ next.attempt = 2 /\ retries >= 1
           /\ next.left > retries * Portion - FirstWait /\ next.wait = SecondWait
        \/ next.attempt = 3 /\ retries = 2
    <3>1. CASE call.attempt = 1
      <4>1. next.attempt = 2 /\ retries >= 1 /\ call.wait = FirstWait
        BY <2>1, <2>5, <3>1
      <4>2. next.wait = SecondWait
        BY <2>5, <4>1 DEF SecondWait
      <4>3. next.left > retries * Portion - FirstWait
        <5>1. PICK need \in Int : need = retries * Portion
          BY <1>1
        <5>2. call.left > need /\ wait <= FirstWait
          BY <2>1, <2>3, <3>1, <4>1, <5>1
        <5>3. call.left - wait > need - FirstWait
          BY <1>1, <2>3, <5>2
        <5> QED
          BY <2>5, <5>1, <5>3
      <4> QED
        BY <4>1, <4>2, <4>3
    <3>2. CASE call.attempt = 2
      BY <2>1, <2>5, <3>2
    <3> QED
      BY <2>1, <3>1, <3>2
  <2> QED
    BY <1>2, <2>5, <2>6 DEF Funded
<1>5. CASE Fallback(c, client)
  <2>1. llm'[c].fell /\ llm'[c].at = "done"
    BY <1>1, <1>5 DEF Fallback, Spend, CallTypes
  <2> QED
    BY <2>1 DEF Funded
<1> QED
  BY <1>3, <1>4, <1>5 DEF ClientStep

\* A call that begins has the whole deadline.
LEMMA CallFunded ==
  ASSUME Types, NEW c \in Caller, Call(c, setup.client), UNCHANGED setup, Roomy
  PROVE  Funded(c)'
<1>1. /\ llm'[c].at = "attempt" /\ llm'[c].attempt = 1
      /\ llm'[c].left = setup.client.budget /\ llm'[c].wait = FirstWait
  BY DEF Types, Call, NoCall, FirstWait
<1>2. UNCHANGED <<Portion, FirstWait, SecondWait>>
  BY DEF Portion, FirstWait, SecondWait, LongWait
<1> QED
  BY <1>1, <1>2 DEF Funded, Roomy

\* A call that stays as it is, or is forgotten.
LEMMA OldFunded ==
  ASSUME NEW c \in Caller, Roomy => Funded(c), UNCHANGED setup,
         llm'[c] = llm[c] \/ llm'[c] = NoCall
  PROVE  (Roomy => Funded(c))'
<1> SUFFICES ASSUME Roomy' PROVE Funded(c)'
  OBVIOUS
<1>1. UNCHANGED <<Portion, FirstWait, SecondWait>> /\ Roomy
  BY DEF Portion, FirstWait, SecondWait, LongWait, Roomy
<1>2. CASE llm'[c] = llm[c]
  BY <1>1, <1>2 DEF Funded
<1>3. CASE llm'[c] = NoCall
  BY <1>3 DEF Funded, NoCall
<1> QED
  BY <1>2, <1>3

\* The deadline pays for what comes next, after every step.
LEMMA FundedStep ==
  ASSUME FundInv, [Next]_vars, SlicesCover
  PROVE  \A c \in Caller : (Roomy => Funded(c))'
<1> SUFFICES ASSUME NEW c \in Caller PROVE (Roomy => Funded(c))'
  OBVIOUS
<1>0. Types /\ (Roomy => Funded(c))
  BY DEF FundInv
<1>1. CASE UNCHANGED vars
  BY <1>0, <1>1, OldFunded DEF vars, clientVars
<1>2. ASSUME NEW d \in Caller, Take(d) PROVE (Roomy => Funded(c))'
  BY <1>0, <1>2, OldFunded DEF Take, clientVars
<1>3. ASSUME NEW d \in Caller, CallerStep(d) PROVE (Roomy => Funded(c))'
  <2>1. ASSUME Call(d, setup.client), UNCHANGED setup PROVE (Roomy => Funded(c))'
    <3>1. CASE c = d
      <4>1. Roomy' => Roomy
        BY <2>1 DEF Roomy, Portion, LongWait
      <4> QED
        BY <1>0, <2>1, <3>1, <4>1, CallFunded
    <3>2. CASE c # d
      <4>1. llm'[c] = llm[c]
        BY <1>0, <2>1, <3>2 DEF Call, Types
      <4> QED
        BY <1>0, <2>1, <4>1, OldFunded
    <3> QED
      BY <3>1, <3>2
  <2>2. CASE Lock(d)
    BY <2>1, <2>2 DEF Lock
  <2>3. CASE Drafted(d)
    <3>1. CASE Call(d, setup.client)
      BY <2>1, <2>3, <3>1 DEF Drafted
    <3>2. CASE UNCHANGED llm
      BY <1>0, <2>3, <3>2, OldFunded DEF Drafted
    <3> QED
      BY <2>3, <3>1, <3>2, DraftedCases
  <2>4. CASE WaitForModel(d)
    <3>1. CASE c = d
      <4>1. Roomy' => Roomy
        BY <2>4 DEF WaitForModel, Roomy, Portion, LongWait
      <4> QED
        BY <1>0, <2>4, <3>1, <4>1, ClientFunded DEF WaitForModel
    <3>2. CASE c # d
      <4>1. llm'[c] = llm[c]
        BY <1>0, <2>4, <3>2, ClientTypes DEF WaitForModel, Types
      <4> QED
        BY <1>0, <2>4, <4>1, OldFunded DEF WaitForModel
    <3> QED
      BY <3>1, <3>2
  <2>5. CASE Rewrite(d) \/ Post(d) \/ LoadLessons(d)
    BY <1>0, <2>5, OldFunded DEF Rewrite, Post, LoadLessons, clientVars
  <2>6. ASSUME Clear({d}), UNCHANGED setup PROVE (Roomy => Funded(c))'
    BY <1>0, <2>6, OldFunded DEF Clear
  <2>7. CASE \/ GateClosed(d) \/ Notice(d) \/ PostFails(d) \/ SaveLessons(d) \/ CaptureFails(d)
    BY <2>6, <2>7 DEF GateClosed, Notice, PostFails, SaveLessons, CaptureFails, Leave
  <2>8. CASE AppendEvent(d)
    <3>1. CASE UNCHANGED llm
      BY <1>0, <2>8, <3>1, OldFunded DEF AppendEvent
    <3> QED
      BY <2>6, <2>8, <3>1 DEF AppendEvent, Leave, clientVars
  <2> QED
    BY <1>3, <2>2, <2>3, <2>4, <2>5, <2>7, <2>8 DEF CallerStep
<1>4. ASSUME NEW p \in Pod, Crash(p) PROVE (Roomy => Funded(c))'
  <2>1. PICK C \in SUBSET Caller : Clear(C)
    BY <1>4 DEF Crash
  <2> QED
    BY <1>0, <1>4, <2>1, OldFunded DEF Crash, Clear
<1>5. CASE Time
  BY <1>0, <1>5, OldFunded DEF Time, clientVars
<1> QED
  BY <1>1, <1>2, <1>3, <1>4, <1>5 DEF Next

\* A provider that stalls or is overloaded leads to the fallback, whatever the
\* outcomes and however long the calls take, when the longest backoff is at most
\* two minimal slices, as it is in the code.
THEOREM StallsFallBack ==
  ASSUME SlicesCover
  PROVE  Spec => []FallbackFollows
<1>1. Init => FundInv
  BY TypesInit DEF Init, FundInv, Funded, NoCall
<1>2. FundInv /\ [Next]_vars => FundInv'
  BY TypesStep, FundedStep DEF FundInv
<1>3. FundInv => FallbackFollows
  <2> SUFFICES ASSUME FundInv, NEW c \in Caller, llm[c].at = "done", Eligible(llm[c].err),
                      setup.client.fallback > 0, 1 + setup.client.retries <= 3,
                      setup.client.budget > (1 + setup.client.retries) * Portion
               PROVE  llm[c].fell
    BY Zenon DEF FallbackFollows, Portion, LongWait
  <2> QED
    BY DEF FundInv, Roomy, Funded
<1> QED
  BY <1>1, <1>2, <1>3, PTL DEF Spec
=============================================================================
