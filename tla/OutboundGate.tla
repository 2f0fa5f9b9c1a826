---------------------------- MODULE OutboundGate ----------------------------
(***************************************************************************)
(* The outbound rate limit of one pod: a rolling window of post times,     *)
(* consulted before the LLM is called and extended after Slack accepted    *)
(* the post.  Event loop, session and failover goroutines share it; b.mu   *)
(* is held from the look-up to the record.                                 *)
(*                                                                         *)
(* Time is counted in ticks that pass anywhere between two steps, so an    *)
(* LLM call or a Slack call may take arbitrarily long.                     *)
(***************************************************************************)
EXTENDS Integers, Sequences, FiniteSets

CONSTANTS
  Caller,    \* the goroutines that post
  Nobody,    \* b.mu is free
  Window,    \* SLACK_OUTBOUND_WINDOW_SEC
  MaxPosts,  \* SLACK_OUTBOUND_MAX_PER_WINDOW, 0 for no limit
  MaxTime,   \* bound: ticks
  MaxLost    \* bound: posts Slack made without saying so

ASSUME GateAssumption ==
  /\ Nobody \notin Caller
  /\ Window \in Nat \ {0}
  /\ MaxPosts \in Nat /\ MaxTime \in Nat /\ MaxLost \in Nat

VARIABLES
  now,    \* the clock
  times,  \* outboundGate.times
  mu,     \* who holds b.mu
  pc,     \* caller -> where it is
  posts,  \* when the pod's messages appeared in Slack, oldest first
  lost    \* how many of them were reported as failed

vars == <<now, times, mu, pc, posts, lost>>

\* prune: the leading times older than the window go.
Prune(ts) ==
  LET old == {i \in DOMAIN ts : \A j \in 1 .. i : ts[j] < now - Window}
  IN  SubSeq(ts, Cardinality(old) + 1, Len(ts))

\* Mutant: one post too many.
AllowOneMore(ts) == MaxPosts = 0 \/ Len(ts) <= MaxPosts

Allow(ts) == MaxPosts = 0 \/ Len(ts) < MaxPosts

-----------------------------------------------------------------------------
\* Mutant: the look-up does not wait for b.mu.
LockFree(c) ==
  /\ pc[c] = "idle"
  /\ mu' = c
  /\ pc' = [pc EXCEPT ![c] = "locked"]
  /\ UNCHANGED <<now, times, posts, lost>>

Lock(c) ==
  /\ pc[c] = "idle"
  /\ mu = Nobody
  /\ mu' = c
  /\ pc' = [pc EXCEPT ![c] = "locked"]
  /\ UNCHANGED <<now, times, posts, lost>>

\* allow(now): the reply is dropped when the window is full.
Check(c) ==
  /\ pc[c] = "locked"
  /\ times' = IF MaxPosts = 0 THEN times ELSE Prune(times)
  /\ \/ /\ Allow(times')
        /\ pc' = [pc EXCEPT ![c] = "posting"]
        /\ UNCHANGED mu
     \/ /\ ~Allow(times')
        /\ pc' = [pc EXCEPT ![c] = "idle"]
        /\ mu' = Nobody
  /\ UNCHANGED <<now, posts, lost>>

\* The LLM has answered and Slack shows the message.
Post(c) ==
  /\ pc[c] = "posting"
  /\ posts' = Append(posts, now)
  /\ pc' = [pc EXCEPT ![c] = "posted"]
  /\ UNCHANGED <<now, times, mu, lost>>

\* Slack refuses the message, or shows it while the call reports an error:
\* nothing is recorded.
PostFails(c) ==
  /\ pc[c] = "posting"
  /\ \/ UNCHANGED <<posts, lost>>
     \/ lost < MaxLost /\ lost' = lost + 1 /\ posts' = Append(posts, now)
  /\ pc' = [pc EXCEPT ![c] = "idle"]
  /\ mu' = Nobody
  /\ UNCHANGED <<now, times>>

\* record(time.Now()), then b.mu is released.
Record(c) ==
  /\ pc[c] = "posted"
  /\ times' = IF MaxPosts = 0 THEN times ELSE Append(Prune(times), now)
  /\ pc' = [pc EXCEPT ![c] = "idle"]
  /\ mu' = Nobody
  /\ UNCHANGED <<now, posts, lost>>

Tick ==
  /\ now < MaxTime
  /\ now' = now + 1
  /\ UNCHANGED <<times, mu, pc, posts, lost>>

-----------------------------------------------------------------------------
Init ==
  /\ now = 0
  /\ times = <<>>
  /\ mu = Nobody
  /\ pc = [c \in Caller |-> "idle"]
  /\ posts = <<>>
  /\ lost = 0

Next ==
  \/ \E c \in Caller :
       Lock(c) \/ Check(c) \/ Post(c) \/ PostFails(c) \/ Record(c)
  \/ Tick

Spec == Init /\ [][Next]_vars
-----------------------------------------------------------------------------
(***************************************************************************)
(* Properties.                                                             *)
(***************************************************************************)
\* The variables stay in their types.
TypeOK ==
  /\ now \in 0 .. MaxTime
  /\ times \in Seq(0 .. MaxTime)
  /\ mu \in Caller \cup {Nobody}
  /\ pc \in [Caller -> {"idle", "locked", "posting", "posted"}]
  /\ posts \in Seq(0 .. MaxTime)
  /\ lost \in 0 .. MaxLost

\* What readers of the channel see: no window of the configured length, both
\* ends included, ever holds more than MaxPosts messages of the pod, apart
\* from those whose success Slack never reported, however long each
\* reply takes between its look-up and its post.
WindowLimit ==
  MaxPosts > 0 =>
    \A t \in 0 .. now :
      Cardinality({i \in DOMAIN posts : posts[i] \in (t - Window) .. t})
        <= MaxPosts + lost

\* The look-up and the record of one reply are not interleaved with another
\* caller's: the gate never remembers more posts than it may allow.
GateBounded == MaxPosts > 0 => Len(times) <= MaxPosts
=============================================================================
