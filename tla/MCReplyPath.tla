----------------------------- MODULE MCReplyPath -----------------------------
(***************************************************************************)
(* Setups for model checking ReplyPath: how long a reply takes, what it    *)
(* says, and what is learned from it are looked at one by one.             *)
(***************************************************************************)
EXTENDS ReplyPath, TLC

CONSTANTS
  MaxDraft,  \* bound: tokens of a draft
  alex, ross, tim, loop, session, loop2, old, new

W == The("word")
S == The("stop")
Fine == <<W, W, S>>
Open == <<W, The("tail")>>

Quick == [budget |-> 35, retries |-> 0, backoff |-> 1, fallback |-> 0,
          calls |-> {"ok"}, slow |-> FALSE]

One(n) == loop :> n @@ session :> 0 @@ loop2 :> 0

Base ==
  [pod |-> loop :> old @@ session :> old @@ loop2 :> new, jobs |-> One(1),
   sources |-> {"plain"}, client |-> Quick, style |-> "open",
   handoffs |-> {FALSE}, known |-> NoLessons, apply |-> TRUE, maxActive |-> 3, ttl |-> 1,
   horizon |-> 1, kinds |-> {}, maxFaults |-> 0]

Words == {W, S, The("comma"), The("tail"), The("label"), The("me"), The("line"), The("mark"),
          Ping(alex), Ping(ross), Ping(tim), Name(alex), Name(tim)}
Trimmed(T) == {t \in T : t # <<>> => t[1].is # "line" /\ t[Len(t)].is # "line"}
Texts(n) == Trimmed(UNION {[1 .. i -> Words] : i \in 0 .. n})
TooLong == Trimmed([1 .. MaxLen + 1 -> {W, S, The("tail"), The("line")}])
DraftsOf == "open" :> {<<>>, Open} @@ "any" :> Texts(MaxDraft) \cup TooLong
            @@ "lessons" :> {<<The("ack"), W, S>>, <<W, The("blocked"), S>>}

\* A rewrite may still open with a label, or hide one.
Labels == <<The("label"), W, The("line"), The("mark"), The("label"), W>>
RewritesOf == "open" :> {<<>>, Open}
              @@ "any" :> {<<>>, Open, <<The("label"), The("me")>>, Labels, Fine}
              @@ "lessons" :> {Fine}

\* The defaults with a fallback, a tight deadline, a long backoff, the smallest
\* deadline; and a provider that is down, with the deadline that is just long
\* enough for two retries with the longest backoff.
Slow(budget, retries, backoff, fallback, calls) ==
  [budget |-> budget, retries |-> retries, backoff |-> backoff, fallback |-> fallback,
   calls |-> calls, slow |-> TRUE]
Timing ==
  {[Base EXCEPT !.client = client] :
     client \in {Slow(19, 2, 1, 3, Outcome), Slow(26, 1, 8, 2, Outcome),
                 Slow(5, 2, 1, 0, Outcome), Slow(37, 2, 8, 1, {"transient", "timeout"})}}

\* Two goroutines and a pod that may die.
Contention ==
  {[Base EXCEPT !.jobs = loop :> 2 @@ session :> 2 @@ loop2 :> 0,
                !.client = [Quick EXCEPT !.calls = Outcome, !.retries = 1, !.fallback = 8],
                !.horizon = 2, !.kinds = FaultKind, !.maxFaults = 1]}

Wording == {[Base EXCEPT !.style = "any", !.handoffs = BOOLEAN, !.apply = FALSE]}

\* One lesson is known, every draft teaches one, two pods overlap, and time passes.
Learning ==
  {[Base EXCEPT !.jobs = loop :> 1 @@ session :> 1 @@ loop2 :> 1,
                !.known = <<0, 0, 1>>, !.sources = {"availability", "kubernetes"},
                !.style = "lessons",
                !.maxActive = max, !.horizon = 2, !.kinds = {"redis"}, !.maxFaults = 1] :
     max \in {1, 2}}

All == Timing \cup Contention \cup Wording \cup Learning
=============================================================================
