------------------------------- MODULE RossOps -------------------------------
(***************************************************************************)
(* Ross's ops tool in front of the ops proxy: one message of the channel,  *)
(* classified by the LLM and by keywords, turned into an action, checked   *)
(* against Ross's own allowlists, executed through the proxy by a          *)
(* goroutine, and answered with one post.                                  *)
(***************************************************************************)
EXTENDS OpsProxy

CONSTANTS
  Setups,          \* the setups to start from
  Ceo,             \* CHAT_ALLOWED_USER_ID
  Writer,          \* who may write in the channel
  SameFold,        \* namespace -> those that differ from it in case only
  RossNamespaces,  \* ROSS_OPS_ALLOWED_NAMESPACES
  RossPrefixes,    \* ROSS_OPS_ALLOWED_REDIS_PREFIXES
  RossDefault,     \* ROSS_OPS_DEFAULT_NAMESPACE
  ThreadOwners     \* the prefix "thread_owner:"

\* waitlistQuestionNone is "none".
Question == {"none", "latest", "count", "list"}

\* A message: whether it speaks of waitlist emails, what kind of question its
\* words make it, whether they say "full" or "unmask", and the action its
\* other keywords stand for.
Prompt == [waitlist : BOOLEAN, question : Question \ {"none"}, full : BOOLEAN,
           op : Op \cup {"none"}, target : Target, key : Key \cup {0}]

\* What the LLM extracts: intent ops_query with anything in the fields, or
\* intent none.
Extract == [query : BOOLEAN, op : Op \cup {"none"}, question : Question,
            ns : Namespace \cup {NoNamespace}, target : Target,
            key : Key \cup {0}, prefix : Prefix \cup {NoPrefix}, full : BOOLEAN,
            limit : Nat]

\* A setup: the message and its author, what the LLM may make of it, the data,
\* how it may change while the proxy reads, ROSS_OPS_LOG_ONLY, and the faults.
Setup == [prompt : Prompt, by : Writer, extracts : SUBSET Extract,
          redis : [Key -> Value], moving : SUBSET Key, values : SUBSET Value,
          kube : [deployed : BOOLEAN, nodes : SUBSET Node,
                  pods : [Pod -> Node \cup {0, -1}]],
          movingPods : SUBSET Pod, movingNodes : SUBSET Node,
          logOnly : BOOLEAN, kinds : SUBSET FaultKind, maxFaults : Nat]

ASSUME RossAssumption ==
  /\ Ceo \in Writer
  /\ SameFold \in [Namespace -> SUBSET Namespace]
  /\ RossNamespaces \subseteq Namespace /\ RossPrefixes \subseteq Prefix
  /\ RossDefault \in Namespace \cup {NoNamespace}
  /\ ThreadOwners \in Prefix
  /\ Setups \subseteq Setup

VARIABLES
  ross,    \* "heard", "checking", "waiting", "answering", "ignored", "done"
  action,  \* the action: request, question and full reveal
  post     \* the post about it

vars == <<redis, kube, req, call, work, code, faults, setup, ross, action, post>>

NoAction == [request |-> NoRequest, question |-> "none", full |-> FALSE]
NoPost == [says |-> "nothing", mail |-> 0, at |-> 0, plain |-> FALSE]
Says(what) == [NoPost EXCEPT !.says = what]

-----------------------------------------------------------------------------
(***************************************************************************)
(* From the message to an action.                                          *)
(***************************************************************************)
\* parseRossOpsAction: waitlist first, then Redis, logs, metrics, status.
Parsed(p) ==
  LET op == IF p.waitlist THEN "waitlist_emails" ELSE p.op
      redisRead == op = "redis_read"
  IN  [request |-> [op |-> op, ns |-> NoNamespace,
                    target |-> IF op \in {"k8s_logs", "k8s_status"} THEN p.target ELSE <<>>,
                    key |-> IF redisRead THEN p.key ELSE 0,
                    prefix |-> IF redisRead /\ p.key = 0 THEN ThreadOwners ELSE NoPrefix,
                    limit |-> IF op = "waitlist_emails" THEN MaxLimit[op] ELSE 0],
       question |-> IF p.waitlist THEN p.question ELSE "none",
       full |-> p.waitlist /\ p.full]

Extracted(e, op, question, limit) ==
  [request |-> [op |-> op, ns |-> e.ns, target |-> e.target, key |-> e.key,
                prefix |-> e.prefix, limit |-> limit],
   question |-> question, full |-> e.full]

\* Mutant: what the LLM says goes, also about the waitlist.
ResolvedAsExtracted(p, e) ==
  IF e.query /\ e.op # "none"
  THEN {Extracted(e, e.op, IF e.question = "none" THEN p.question ELSE e.question, e.limit)}
  ELSE IF p.waitlist \/ p.op # "none" THEN {Parsed(p)} ELSE {}

\* resolveRossOpsAction: a question about waitlist emails is one, whatever the
\* LLM says; without the LLM the keywords decide.
Resolved(p, e) ==
  LET question == IF e.question = "none" THEN p.question ELSE e.question IN
  CASE e.query /\ p.waitlist ->
         {Extracted(e, "waitlist_emails", question,
                    IF e.limit = 0 THEN MaxLimit["waitlist_emails"] ELSE e.limit)}
    [] e.query /\ ~p.waitlist /\ e.op # "none" ->
         {Extracted(e, e.op, IF e.op = "waitlist_emails" THEN question ELSE e.question,
                    e.limit)}
    [] (e.query => ~p.waitlist /\ e.op = "none") /\ (p.waitlist \/ p.op # "none") ->
         {Parsed(p)}
    [] OTHER -> {}

\* tryHandleRossOps: not an ops question, or a dry run.
Ignore(e) ==
  /\ ross = "heard"
  /\ Resolved(setup.prompt, e) = {} \/ setup.logOnly
  /\ ross' = "ignored"
  /\ UNCHANGED <<redis, kube, req, call, work, code, setup, action, post>>

\* The router may swallow the message; otherwise a goroutine takes over.
Accept(e) ==
  /\ ross = "heard" /\ ~setup.logOnly
  /\ \E a \in Resolved(setup.prompt, e) : action' = a
  /\ ross' \in {"checking", "ignored"}
  /\ UNCHANGED <<redis, kube, req, call, work, code, setup, post>>

\* No answer from the LLM counts as no intent.
Understand ==
  \/ UNCHANGED faults /\ \E e \in setup.extracts : Ignore(e) \/ Accept(e)
  \/ /\ Fault("extract")
     /\ \E e \in {[x EXCEPT !.query = FALSE] : x \in setup.extracts} : Ignore(e) \/ Accept(e)

-----------------------------------------------------------------------------
(***************************************************************************)
(* handleRossOps.                                                          *)
(***************************************************************************)
Requested ==
  LET r == action.request IN
  IF r.op = "redis_read" THEN [r EXCEPT !.ns = NoNamespace, !.target = <<>>]
  ELSE IF r.op = "waitlist_emails"
  THEN [r EXCEPT !.ns = NoNamespace, !.target = <<>>, !.key = 0, !.prefix = NoPrefix]
  ELSE [r EXCEPT !.ns = IF @ = NoNamespace THEN RossDefault ELSE @,
                 !.key = 0, !.prefix = NoPrefix]

\* The namespace is checked for everything but Redis reads, without regard to
\* case, and not at all if neither the message nor the configuration names one.
NamespaceFits ==
  LET ns == IF action.request.ns = NoNamespace THEN RossDefault ELSE action.request.ns IN
  action.request.op # "redis_read" /\ ns # NoNamespace =>
    SameFold[ns] \cap RossNamespaces # {}

\* Key and prefix must both be allowed if both are given.
PrefixFits ==
  action.request.op = "redis_read" =>
    /\ action.request.key # 0 =>
         \E p \in RossPrefixes : action.request.key \in Under[p]
    /\ action.request.prefix # NoPrefix =>
         \E p \in RossPrefixes : Under[action.request.prefix] \subseteq Under[p]

\* Only the operator gets the waitlist.
WriterFits == action.request.op = "waitlist_emails" => setup.by = Ceo

Refuse ==
  /\ ross = "checking" /\ ~(NamespaceFits /\ PrefixFits /\ WriterFits)
  /\ post' = Says("refusal")
  /\ ross' = "answering"
  /\ UNCHANGED <<redis, kube, req, call, work, code, faults, setup, action>>

Ask ==
  /\ ross = "checking" /\ NamespaceFits /\ PrefixFits /\ WriterFits
  /\ Serve(Requested)
  /\ ross' = "waiting"
  /\ UNCHANGED <<faults, action, post>>

\* buildWaitlistAnswer, for the first of the sorted addresses.
LatestAnswer ==
  IF work.rows = {} \/ action.question # "latest" THEN Says("data")
  ELSE [Says("data") EXCEPT !.mail = Latest.mail, !.at = Latest.at]

Hear ==
  /\ ross = "waiting" /\ code # "none"
  /\ post' = IF code # "ok" THEN Says("error")
             ELSE IF req.op = "waitlist_emails"
             THEN [LatestAnswer EXCEPT !.plain = action.full] ELSE Says("data")
  /\ ross' = "answering"
  /\ UNCHANGED <<redis, kube, req, call, work, code, faults, setup, action>>

\* The client gives up after 12 of the goroutine's 20 seconds, and the proxy
\* drops the request with the connection.
GiveUp ==
  /\ ross = "waiting" /\ code = "none"
  /\ Fault("timeout")
  /\ post' = Says("error")
  /\ ross' = "answering"
  /\ Answer("failed")
  /\ UNCHANGED <<redis, kube, req, work, setup, action>>

Deliver ==
  /\ ross = "answering"
  /\ ross' = "done"
  /\ UNCHANGED <<redis, kube, req, call, work, code, faults, setup, action, post>>

\* A post that fails, or a panic anywhere in the goroutine, is only logged.
Lose ==
  /\ \/ ross = "answering" /\ Fault("post")
     \/ ross \in {"checking", "answering"} /\ Fault("panic")
  /\ ross' = "done"
  /\ post' = NoPost
  /\ UNCHANGED <<redis, kube, req, call, work, code, setup, action>>

-----------------------------------------------------------------------------
Init ==
  /\ setup \in Setups
  /\ redis = setup.redis /\ kube = setup.kube
  /\ req = NoRequest
  /\ call = "none" /\ work = NoWork /\ code = "none"
  /\ faults = 0
  /\ ross = "heard" /\ action = NoAction /\ post = NoPost

RossStep == Understand \/ Refuse \/ Ask \/ Hear \/ GiveUp \/ Deliver \/ Lose
ProxyStep == ProxyCall /\ UNCHANGED <<ross, action, post>>
WorldStep == World /\ UNCHANGED <<ross, action, post>>

Next == RossStep \/ ProxyStep \/ WorldStep

Spec == Init /\ [][Next]_vars

\* The goroutine and the proxy go on, and a scan of a finite key space ends.
FairSpec == Spec /\ WF_vars(RossStep) /\ WF_vars(ProxyStep)
-----------------------------------------------------------------------------
(***************************************************************************)
(* Properties.                                                             *)
(***************************************************************************)
\* The variables stay in their types, and the proxy never gathers more rows
\* than the operation's maximum.
TypeOK ==
  /\ setup \in Setups
  /\ redis \in [Key -> Value]
  /\ kube \in [deployed : BOOLEAN, nodes : SUBSET Node, pods : [Pod -> Node \cup {0, -1}]]
  /\ req \in Request
  /\ call \in {"none", "scan", "type", "read", "list_deployments", "get_deployment",
               "get_pod", "pods_of", "list_nodes", "list_pods", "usage", "stream"}
  /\ work.left \subseteq Key /\ work.page \subseteq Key
  /\ work.prefixes \in Seq(Prefix) /\ work.pages \in 0 .. MaxPages
  /\ work.key \in Key \cup {0} /\ work.type \in Type
  /\ work.items \in Seq(Key)
  /\ work.rows \subseteq [mail : Email, at : Time \cup {0}, key : Key]
  /\ Cardinality(work.rows) + Len(work.items) <= MaxLimit[req.op]
  /\ work.pods \subseteq Pod /\ work.nodes \subseteq Node
  /\ code \in {"none", "ok", "refused", "failed"}
  /\ faults \in Nat
  /\ ross \in {"heard", "checking", "waiting", "answering", "ignored", "done"}
  /\ action \in [request : Request, question : Question, full : BOOLEAN]
  /\ post \in [says : {"nothing", "refusal", "error", "data"}, mail : Email \cup {0},
               at : Time \cup {0}, plain : BOOLEAN]

\* "Guardrail: waitlist-email asks should never fall through" (ross_ops.go):
\* whatever the LLM extracts from a question about waitlist emails, it is
\* answered with the waitlist or not at all, to the operator only.
WaitlistGuarded ==
  setup.prompt.waitlist /\ post.says = "data" =>
    req.op = "waitlist_emails" /\ setup.by = Ceo

\* "The latest waitlist signup is ...": no address that was there all the time
\* is newer, unless the answer was full, the key could not be read, or the
\* address was met first under another key, with that key's time.
LatestIsNewest ==
  post.at # 0 /\ faults = 0 /\ Cardinality(work.rows) < Limit =>
    \A k \in SteadyKeys :
      redis[k].type = "hash" /\ Cardinality(redis[k].mails) = 1 =>
        \/ redis[k].at <= post.at
        \/ \E row \in work.rows : row.mail \in redis[k].mails /\ row.key # k

\* Every question the goroutine takes on is answered, unless Slack refuses the
\* post or the goroutine panics: no scan keeps the proxy busy for ever.
EveryQuestionAnswered ==
  (ross = "checking") ~> (ross = "done" /\ (post.says # "nothing" \/ faults > 0))
=============================================================================
