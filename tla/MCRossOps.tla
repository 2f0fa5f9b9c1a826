------------------------------ MODULE MCRossOps ------------------------------
(***************************************************************************)
(* Setups for model checking RossOps: keys 1 and 2 are of the canonical    *)
(* waitlist, key 3 of the other one, key 4 is a thread owner.              *)
(***************************************************************************)
EXTENDS RossOps, TLC

CONSTANTS canonical, other, owners, home, Home, away, ceo, bot

Under4 == canonical :> {1, 2} @@ other :> {3} @@ owners :> {4}
Fold == home :> {home, Home} @@ Home :> {home, Home} @@ away :> {away}
Waitlists == <<canonical, other>>
Home1 == <<home>>
Default2 == [op \in Op |-> IF op \in {"waitlist_emails", "redis_read"} THEN 2 ELSE 1]
Max3 == [op \in Op |-> IF op = "waitlist_emails" THEN 3 ELSE 2]

Signup(m, t) == [type |-> "hash", mails |-> {m}, at |-> t]
Text(ms) == [type |-> "string", mails |-> ms, at |-> 0]
Owner == [type |-> "string", mails |-> {}, at |-> 0]

NoExtract == [query |-> FALSE, op |-> "none", question |-> "none", ns |-> NoNamespace,
              target |-> <<>>, key |-> 0, prefix |-> NoPrefix, full |-> FALSE, limit |-> 0]
Query(op) == [NoExtract EXCEPT !.query = TRUE, !.op = op]

Chat == [waitlist |-> FALSE, question |-> "list", full |-> FALSE, op |-> "none",
         target |-> <<>>, key |-> 0]
About(op) == [Chat EXCEPT !.op = op]

Base ==
  [prompt |-> Chat, by |-> ceo, extracts |-> {NoExtract},
   redis |-> (1 :> Signup(1, 2) @@ 2 :> Signup(2, 1) @@ 3 :> Missing @@ 4 :> Owner),
   moving |-> {}, values |-> {},
   kube |-> [deployed |-> TRUE, nodes |-> {1, 2}, pods |-> (1 :> 1 @@ 2 :> 2)],
   movingPods |-> {}, movingNodes |-> {},
   logOnly |-> FALSE, kinds |-> FaultKind, maxFaults |-> 1]

\* The waitlist: every small key space, one key of it moving.
Signups == {Missing, Signup(1, 0), Signup(1, 1), Signup(1, 2), Signup(2, 1), Text({1, 2})}
WaitlistSetups ==
  {[Base EXCEPT !.prompt = [Chat EXCEPT !.waitlist = TRUE, !.question = "latest"],
                !.extracts = {NoExtract, [Query("waitlist_emails") EXCEPT !.limit = 1]},
                !.redis = 1 :> a @@ 2 :> b @@ 3 :> c @@ 4 :> Owner,
                !.moving = m, !.values = {Missing, Signup(2, 2), Text({1})}] :
     a \in Signups, b \in {Missing, Signup(1, 1), Signup(2, 2)},
     c \in {Missing, Signup(2, 1), Text({2})}, m \in {{}, {1}}}

\* Whatever the LLM makes of it, for the operator and for a bot.
GuardSetups ==
  {[Base EXCEPT !.prompt = [Chat EXCEPT !.waitlist = w, !.op = "redis_read"], !.by = who,
                !.extracts = {Query(op) : op \in Op}
                             \cup {[Query("redis_read") EXCEPT !.prefix = canonical],
                                   [Query("none") EXCEPT !.ns = away],
                                   [Query("k8s_status") EXCEPT !.ns = Home]},
                !.logOnly = dry] :
     w \in BOOLEAN, who \in {ceo, bot}, dry \in BOOLEAN}

RedisSetups ==
  {[Base EXCEPT !.prompt = [About("redis_read") EXCEPT !.key = k],
                !.extracts = {NoExtract, [Query("redis_read") EXCEPT !.prefix = canonical]},
                !.moving = {1, 4}, !.values = {Missing, Text({}), Signup(1, 1)}] :
     k \in {0, 1, 4}}

KubeSetups ==
  {[Base EXCEPT !.prompt = [About(op) EXCEPT !.target = t],
                !.extracts = {NoExtract, Query("k8s_metrics")},
                !.kube.deployed = d, !.kube.pods[2] = on, !.movingPods = {1}, !.movingNodes = {1}] :
     op \in {"k8s_status", "k8s_metrics", "k8s_logs"},
     t \in {<<>>, <<"deployment">>, <<"pod", 1>>, <<"pod", 2>>}, d \in BOOLEAN, on \in {2, -1}}

All == WaitlistSetups \cup GuardSetups \cup RedisSetups \cup KubeSetups
=============================================================================
