---------------------------- MODULE RossOpsProofs ----------------------------
(***************************************************************************)
(* The proxy and the tool in front of it for every key space, cluster,     *)
(* configuration and message, and whatever the LLM extracts: the types,    *)
(* the waitlist guardrail, answers that count no address twice and leave   *)
(* nothing out, the latest address, and the totals of the cluster.         *)
(***************************************************************************)
EXTENDS RossOps, Counting

USE RossAssumption, ProxyAssumption

-----------------------------------------------------------------------------
(***************************************************************************)
(* The guardrail.                                                          *)
(***************************************************************************)
IsWaitlist == action.request.op = "waitlist_emails"
AsPromised == req.op = "waitlist_emails" /\ setup.by = Ceo

\* What a question about waitlist emails has become at each place.
Guarded ==
  setup.prompt.waitlist =>
    /\ ross \in {"checking", "waiting"} => IsWaitlist
    /\ ross = "waiting" => AsPromised
    /\ post.says = "data" => ross \in {"answering", "done"} /\ AsPromised

Unanswered == ross \in {"heard", "checking", "waiting"} => post = NoPost

Typed == setup \in Setups /\ action.request \in Request

GuardInv == Typed /\ Guarded /\ Unanswered

\* resolveRossOpsAction: with and without the LLM, a question about waitlist
\* emails stays one.
LEMMA ResolvedWaitlist ==
  ASSUME NEW p \in Prompt, p.waitlist, NEW e \in Extract, NEW a \in Resolved(p, e)
  PROVE  a.request.op = "waitlist_emails"
<1>0. p.waitlist \in BOOLEAN /\ e.query \in BOOLEAN
  BY DEF Prompt, Extract
<1>1. Parsed(p).request.op = "waitlist_emails"
  BY DEF Parsed
<1>2. \A question, limit :
        Extracted(e, "waitlist_emails", question, limit).request.op = "waitlist_emails"
  BY DEF Extracted
<1>3. CASE e.query
  BY <1>0, <1>2, <1>3 DEF Resolved
<1>4. CASE ~e.query
  BY <1>0, <1>1, <1>4 DEF Resolved
<1> QED
  BY <1>3, <1>4

\* A step of the proxy or of the world leaves Ross, the question and the
\* request alone.
LEMMA OthersKeepRoss ==
  ASSUME ProxyStep \/ WorldStep
  PROVE  UNCHANGED <<ross, action, post, req, setup>>
<1>1. CASE ProxyStep
  BY <1>1 DEF ProxyStep, ProxyCall, Scan, ReadType, ReadValue, ListDeployments, GetDeployment,
              GetPod, PodsOf, ListNodes, ListPods, Stream, Usage, ReadFails, CallFails,
              PodsOfIgnored, Read, Done, Fails
<1>2. CASE WorldStep
  BY <1>2 DEF WorldStep, World, SignUp, Reschedule, Scale
<1> QED
  BY <1>1, <1>2

\* Whatever becomes an action holds a request.
LEMMA ResolvedType ==
  ASSUME NEW p \in Prompt, NEW e \in Extract, NEW a \in Resolved(p, e)
  PROVE  a.request \in Request
<1>1. ASSUME NEW op \in Op, NEW question, NEW limit \in Nat
      PROVE  Extracted(e, op, question, limit).request \in Request
  BY DEF Extracted, Request, Extract
<1>2. MaxLimit["waitlist_emails"] \in Nat /\ "waitlist_emails" \in Op
  BY DEF Op
<1>3. ASSUME p.waitlist \/ p.op # "none" PROVE Parsed(p).request \in Request
  <2> DEFINE op == IF p.waitlist THEN "waitlist_emails" ELSE p.op
  <2>1. op \in Op
    BY <1>2, <1>3 DEF Prompt
  <2>2. /\ (IF op \in {"k8s_logs", "k8s_status"} THEN p.target ELSE <<>>) \in Target
        /\ (IF op = "redis_read" THEN p.key ELSE 0) \in Key \cup {0}
        /\ (IF op = "redis_read" /\ p.key = 0 THEN ThreadOwners ELSE NoPrefix)
             \in Prefix \cup {NoPrefix}
        /\ (IF op = "waitlist_emails" THEN MaxLimit[op] ELSE 0) \in Nat
    BY <1>2, <2>1 DEF Prompt, Target
  <2> HIDE DEF op
  <2>3. Parsed(p).request =
          [op |-> op, ns |-> NoNamespace,
           target |-> IF op \in {"k8s_logs", "k8s_status"} THEN p.target ELSE <<>>,
           key |-> IF op = "redis_read" THEN p.key ELSE 0,
           prefix |-> IF op = "redis_read" /\ p.key = 0 THEN ThreadOwners ELSE NoPrefix,
           limit |-> IF op = "waitlist_emails" THEN MaxLimit[op] ELSE 0]
    BY DEF Parsed, op
  <2> QED
    BY <2>1, <2>2, <2>3 DEF Request
<1>4. e.limit \in Nat /\ e.op \in Op \cup {"none"} /\ e.query \in BOOLEAN
  BY DEF Extract
<1>5. CASE e.query /\ p.waitlist
  BY <1>1, <1>2, <1>4, <1>5 DEF Resolved
<1>6. CASE e.query /\ ~p.waitlist /\ e.op # "none"
  BY <1>1, <1>4, <1>6 DEF Resolved
<1>7. CASE ~(e.query /\ p.waitlist) /\ ~(e.query /\ ~p.waitlist /\ e.op # "none")
  BY <1>3, <1>4, <1>7 DEF Resolved, Prompt
<1> QED
  BY <1>5, <1>6, <1>7

\* What the LLM is heard to say.
Heard == setup.extracts \cup {[x EXCEPT !.query = FALSE] : x \in setup.extracts}

\* What the LLM extracts is an extraction.
LEMMA HeardType ==
  ASSUME setup \in Setups
  PROVE  Heard \subseteq Extract /\ setup.prompt \in Prompt
<1>1. setup \in Setup
  OBVIOUS
<1>2. setup.extracts \subseteq Extract /\ setup.prompt \in Prompt
  BY <1>1 DEF Setup
<1>3. ASSUME NEW x \in Extract PROVE [x EXCEPT !.query = FALSE] \in Extract
  BY DEF Extract
<1> QED
  BY <1>2, <1>3 DEF Heard

\* The LLM's word becomes an action, or the question is left alone.
LEMMA UnderstandGuarded ==
  ASSUME GuardInv, NEW e \in Heard, Ignore(e) \/ Accept(e)
  PROVE  GuardInv'
<1>1. e \in Extract /\ setup.prompt \in Prompt
  BY HeardType DEF GuardInv, Typed
<1>2. CASE Ignore(e)
  BY <1>2 DEF GuardInv, Typed, Guarded, Unanswered, Ignore, IsWaitlist, AsPromised
<1>3. CASE Accept(e)
  <2>1. PICK a \in Resolved(setup.prompt, e) : action' = a
    BY <1>3 DEF Accept
  <2>2. a.request \in Request
    BY <1>1, <2>1, ResolvedType
  <2>3. setup.prompt.waitlist => a.request.op = "waitlist_emails"
    BY <1>1, <2>1, ResolvedWaitlist
  <2>4. post = NoPost /\ UNCHANGED <<post, setup>> /\ ross' \in {"checking", "ignored"}
    BY <1>3 DEF GuardInv, Unanswered, Accept
  <2> QED
    BY <2>1, <2>2, <2>3, <2>4
    DEF GuardInv, Typed, Guarded, Unanswered, IsWaitlist, AsPromised, NoPost
<1> QED
  BY <1>2, <1>3

\* handleRossOps asks for what the action says.
LEMMA RequestedOp ==
  ASSUME action.request \in Request
  PROVE  Requested.op = action.request.op
  BY DEF Requested, Request

\* Every step keeps the guardrail.
LEMMA GuardStep == GuardInv /\ [Next]_vars => GuardInv'
<1> SUFFICES ASSUME GuardInv, [Next]_vars PROVE GuardInv'
  OBVIOUS
<1> USE DEF GuardInv, Typed, Guarded, Unanswered, IsWaitlist, AsPromised
<1>1. CASE UNCHANGED vars
  BY <1>1 DEF vars
<1>2. CASE Understand
  <2>1. PICK e \in Heard : Ignore(e) \/ Accept(e)
    BY <1>2 DEF Understand, Heard
  <2> QED
    BY <2>1, UnderstandGuarded
<1>3. CASE Refuse
  BY <1>3 DEF Refuse, Says, NoPost
<1>4. CASE Ask
  <2>1. /\ ross = "checking" /\ ross' = "waiting" /\ req' = Requested
        /\ UNCHANGED <<action, post, setup>> /\ WriterFits
    BY <1>4 DEF Ask, Serve
  <2>2. req'.op = action.request.op
    BY <2>1, RequestedOp
  <2> QED
    BY <2>1, <2>2 DEF WriterFits, NoPost
<1>5. CASE Hear
  BY <1>5 DEF Hear
<1>6. CASE GiveUp
  BY <1>6 DEF GiveUp, Says, NoPost
<1>7. CASE Deliver
  BY <1>7 DEF Deliver
<1>8. CASE Lose
  BY <1>8 DEF Lose, NoPost
<1>9. CASE ProxyStep \/ WorldStep
  BY <1>9, OthersKeepRoss
<1> QED
  BY <1>1, <1>2, <1>3, <1>4, <1>5, <1>6, <1>7, <1>8, <1>9 DEF Next, RossStep

\* "Guardrail: waitlist-email asks should never fall through": for every
\* message, author and extraction, and whatever Redis holds.
THEOREM Guardrail == Spec => []WaitlistGuarded
<1>1. Init => GuardInv
  BY DEF Init, GuardInv, Typed, Guarded, Unanswered, NoPost, NoAction, NoRequest, Request, Op,
         Target
<1>2. GuardInv => WaitlistGuarded
  BY DEF GuardInv, Guarded, WaitlistGuarded, AsPromised
<1> QED
  BY <1>1, <1>2, GuardStep, PTL DEF Spec
-----------------------------------------------------------------------------
(***************************************************************************)
(* No address twice.                                                       *)
(***************************************************************************)
Fields == {"left", "page", "last", "pages", "prefixes", "key", "type", "items", "rows",
           "deployments", "pods", "nodes", "total", "asked", "live", "from"}

\* A piece of work, and one without a double.
IsWork(w) == w = [f \in Fields |-> w[f]]
Single(rows) == \A a, b \in rows : a.mail = b.mail => a = b

RowsInv == IsWork(work) /\ Single(work.rows)

\* Continue may go to another prefix, but keeps the rows.
LEMMA ContinueRows ==
  ASSUME NEW w, IsWork(w), Continue(w)
  PROVE  IsWork(work') /\ work'.rows = w.rows
<1>1. work' = w \/ work' = StartScan(w, Tail(w.prefixes))
  BY DEF Continue
<1>2. IsWork(StartScan(w, Tail(w.prefixes))) /\ StartScan(w, Tail(w.prefixes)).rows = w.rows
  BY DEF StartScan, IsWork, Fields
<1> QED
  BY <1>1, <1>2

\* A request starts without rows.
LEMMA FirstRows ==
  ASSUME NEW r
  PROVE  IsWork(FirstWork(r)) /\ FirstWork(r).rows = {}
<1>1. IsWork(NoWork) /\ NoWork.rows = {}
  BY DEF NoWork, IsWork, Fields
<1>2. ASSUME NEW prefixes
      PROVE  IsWork(StartScan(NoWork, prefixes)) /\ StartScan(NoWork, prefixes).rows = {}
  BY <1>1 DEF StartScan, IsWork, Fields
<1>3. ASSUME NEW key, NEW type
      PROVE  LET w == [NoWork EXCEPT !.key = key, !.type = type] IN IsWork(w) /\ w.rows = {}
  BY <1>1 DEF IsWork, Fields
<1>4. ASSUME NEW from
      PROVE  LET w == [NoWork EXCEPT !.from = from] IN IsWork(w) /\ w.rows = {}
  BY <1>1 DEF IsWork, Fields
<1>5. CASE r.op = "waitlist_emails"
  BY <1>2, <1>5 DEF FirstWork
<1>6. CASE r.op = "redis_read" /\ r.key # 0
  BY <1>3, <1>6 DEF FirstWork
<1>7. CASE r.op = "redis_read" /\ r.key = 0
  BY <1>2, <1>7 DEF FirstWork
<1>8. CASE r.op = "k8s_logs" /\ Len(r.target) = 2
  BY <1>4, <1>8 DEF FirstWork
<1>9. CASE ~(r.op = "k8s_logs" /\ Len(r.target) = 2) /\ r.op \notin {"waitlist_emails", "redis_read"}
  BY <1>1, <1>9 DEF FirstWork
<1> QED
  BY <1>5, <1>6, <1>7, <1>8, <1>9

\* extractWaitlistCandidates and the set of seen addresses: new rows hold
\* addresses that are not listed yet, each once.
LEMMA NewRowsSingle ==
  ASSUME Single(work.rows), NEW rows \in NewRows
  PROVE  Single(work.rows \cup rows)
<1>1. rows \subseteq Rows(ReadMails) /\ \A row \in rows : row.mail \notin Listed(work)
  BY DEF NewRows
<1>2. ASSUME NEW a \in work.rows, NEW b \in rows PROVE a.mail # b.mail
  BY <1>1 DEF Listed
<1>3. Single(rows)
  <2> DEFINE at == IF work.type = "hash" /\ Cardinality(ReadMails) = 1
                   THEN redis[work.key].at ELSE 0
  <2>1. ASSUME NEW a \in rows PROVE a = [mail |-> a.mail, at |-> at, key |-> work.key]
    BY <1>1 DEF Rows
  <2> QED
    BY <2>1 DEF Single
<1> QED
  BY <1>2, <1>3 DEF Single

\* Every step keeps the rows, starts without any, or adds new ones.
LEMMA RowsStep == RowsInv /\ [Next]_vars => RowsInv'
<1> SUFFICES ASSUME RowsInv, [Next]_vars PROVE RowsInv'
  OBVIOUS
<1> USE DEF RowsInv
<1>1. CASE UNCHANGED vars
  BY <1>1 DEF vars, IsWork
<1>2. CASE RossStep
  <2>1. CASE Ask
    <3>1. work' = FirstWork(Requested) \/ UNCHANGED work
      BY <2>1 DEF Ask, Serve
    <3> QED
      BY <3>1, FirstRows DEF Single, IsWork
  <2>2. CASE Understand
    BY <2>2 DEF Understand, Ignore, Accept, IsWork
  <2>3. CASE Refuse \/ Hear \/ GiveUp \/ Deliver \/ Lose
    BY <2>3 DEF Refuse, Hear, GiveUp, Deliver, Lose, IsWork
  <2> QED
    BY <1>2, <2>1, <2>2, <2>3 DEF RossStep
<1>3. CASE WorldStep
  BY <1>3 DEF WorldStep, World, SignUp, Reschedule, Scale, IsWork
<1>4. CASE ProxyStep
  <2>1. ASSUME NEW page \in SUBSET Key, NEW last \in BOOLEAN, Scan(page, last) PROVE RowsInv'
    <3> DEFINE w == [work EXCEPT !.left = @ \ page, !.page = page, !.last = last,
                                 !.pages = @ + 1]
    <3>1. Continue(w)
      BY <2>1 DEF Scan
    <3>2. IsWork(w) /\ w.rows = work.rows
      BY DEF IsWork, Fields
    <3> QED
      BY <3>1, <3>2, ContinueRows
  <2>2. ASSUME NEW k \in work.page, ReadType(k) PROVE RowsInv'
    BY <2>2 DEF ReadType, IsWork, Fields
  <2>3. CASE ReadValue
    <3>1. CASE \E rows \in NewRows : Continue([work EXCEPT !.rows = @ \cup rows])
      <4>1. PICK rows \in NewRows : Continue([work EXCEPT !.rows = @ \cup rows])
        BY <3>1
      <4> DEFINE w == [work EXCEPT !.rows = @ \cup rows]
      <4>2. IsWork(w) /\ w.rows = work.rows \cup rows
        BY DEF IsWork, Fields
      <4> QED
        BY <4>1, <4>2, ContinueRows, NewRowsSingle
    <3>2. CASE work' = [work EXCEPT !.items = Append(@, work.key)]
      BY <3>2 DEF IsWork, Fields
    <3>3. CASE Continue([work EXCEPT !.items = Append(@, work.key)])
      <4> DEFINE w == [work EXCEPT !.items = Append(@, work.key)]
      <4>1. IsWork(w) /\ w.rows = work.rows
        BY DEF IsWork, Fields
      <4> QED
        BY <3>3, <4>1, ContinueRows
    <3> QED
      BY <2>3, <3>1, <3>2, <3>3 DEF ReadValue
  <2>4. CASE ReadFails
    BY <2>4, ContinueRows DEF ReadFails, IsWork
  <2>5. CASE CallFails
    BY <2>5 DEF CallFails, IsWork
  <2>6. CASE ListDeployments \/ GetDeployment \/ GetPod
    BY <2>6 DEF ListDeployments, GetDeployment, GetPod, Read, Done, Fails, IsWork, Fields
  <2>7. CASE PodsOf
    BY <2>7 DEF PodsOf, Read, Done, Fails, IsWork, Fields
  <2>8. CASE PodsOfIgnored \/ Stream
    BY <2>8 DEF PodsOfIgnored, Stream, Done, Fails, IsWork
  <2>9. CASE ListNodes \/ ListPods
    BY <2>9 DEF ListNodes, ListPods, Read, Done, IsWork, Fields
  <2>10. ASSUME NEW live \in BOOLEAN, Usage(live) PROVE RowsInv'
    BY <2>10 DEF Usage, Done, IsWork, Fields
  <2> QED
    BY <1>4, <2>1, <2>2, <2>3, <2>4, <2>5, <2>6, <2>7, <2>8, <2>9, <2>10
    DEF ProxyStep, ProxyCall
<1> QED
  BY <1>1, <1>2, <1>3, <1>4 DEF Next

\* "I found N waitlist emails": N different addresses, for every key space,
\* every way SCAN cuts and repeats it, and every limit.
THEOREM DistinctMails == Spec => []NoMailTwice
<1>1. Init => RowsInv
  BY DEF Init, NoWork, RowsInv, IsWork, Fields, Single
<1>2. RowsInv => NoMailTwice
  BY DEF RowsInv, Single, NoMailTwice
<1> QED
  BY <1>1, <1>2, RowsStep, PTL DEF Spec
-----------------------------------------------------------------------------
(***************************************************************************)
(* Types, and where the work stands between two calls.                     *)
(***************************************************************************)
Row == [mail : Email, at : Time \cup {0}, key : Key]

KubeState == [deployed : BOOLEAN, nodes : SUBSET Node, pods : [Pod -> Node \cup {0, -1}]]

CallName == {"none", "scan", "type", "read", "list_deployments", "get_deployment",
             "get_pod", "pods_of", "list_nodes", "list_pods", "usage", "stream"}

WorkTypes(w) ==
  /\ IsWork(w)
  /\ w.left \subseteq Key /\ w.page \subseteq Key /\ w.last \in BOOLEAN
  /\ w.prefixes \in Seq(Prefix) /\ w.pages \in 0 .. MaxPages
  /\ w.key \in Key \cup {0} /\ w.type \in Type
  /\ w.items \in Seq(Key) /\ w.rows \subseteq Row
  /\ w.pods \subseteq Pod /\ w.nodes \subseteq Node

DataTypes ==
  /\ setup \in Setups /\ faults \in Nat
  /\ redis \in [Key -> Value] /\ kube \in KubeState
  /\ req \in Request /\ call \in CallName /\ code \in {"none", "ok", "refused", "failed"}

Types == DataTypes /\ WorkTypes(work)

\* A call of a walk over the keys, not of a request for one key.
ScanCall == call \in {"scan", "type", "read"} /\ req.key = 0

\* Which calls serve which request, and what has been read before them.
Calls ==
  /\ call \in {"scan", "type", "read"} => req.op \in {"redis_read", "waitlist_emails"}
  /\ call \in {"scan", "type"} => req.key = 0
  /\ req.op = "waitlist_emails" => req.key = 0
  /\ call \in {"list_nodes", "usage"} => req.op = "k8s_metrics"
  /\ call = "list_deployments" => req.op = "k8s_status"
  /\ call = "list_pods" => req.op \in {"k8s_status", "k8s_metrics"}
  /\ call \in {"get_deployment", "pods_of"} => req.op \in {"k8s_status", "k8s_logs"}
  /\ call = "get_pod" => req.op = "k8s_status" /\ Len(req.target) = 2
  /\ call = "stream" => req.op = "k8s_logs"
  /\ call = "read" => work.key \in Key
  /\ ScanCall => work.prefixes # <<>> /\ SearchedPrefixes \subseteq Prefix
  /\ call = "read" /\ req.key # 0 => work.items = <<>> /\ work.rows = {}
  /\ call = "scan" => work.page = {}
  /\ call # "none" => code = "none"
  /\ call = "none" /\ code = "none" => work = NoWork
  /\ work.rows # {} => req.op = "waitlist_emails"
  /\ work.items # <<>> => req.op = "redis_read"

\* A walk goes on only while there is room.
Sizes ==
  /\ IsFiniteSet(work.rows) /\ Cardinality(work.rows) + Len(work.items) <= Limit
  /\ ScanCall => Cardinality(work.rows) + Len(work.items) < Limit

ProxyInv == Types /\ Calls /\ Sizes

\* What a setup says.
LEMMA SetupFields ==
  ASSUME setup \in Setups
  PROVE  /\ setup.prompt \in Prompt /\ setup.moving \subseteq Key /\ setup.values \subseteq Value
         /\ setup.movingPods \subseteq Pod /\ setup.movingNodes \subseteq Node
         /\ setup.redis \in [Key -> Value] /\ setup.kube \in KubeState
<1>1. setup \in Setup
  OBVIOUS
<1> QED
  BY <1>1 DEF Setup, KubeState

\* The limit of a request is positive and no larger than the maximum.
LEMMA LimitIs ==
  ASSUME NEW r \in Request
  PROVE  LimitOf(r) \in Nat \ {0} /\ LimitOf(r) <= MaxLimit[r.op]
<1>1. /\ r.op \in Op /\ r.limit \in Nat
      /\ DefaultLimit[r.op] \in Nat \ {0} /\ MaxLimit[r.op] \in Nat
      /\ DefaultLimit[r.op] <= MaxLimit[r.op]
  BY DEF Request
<1> QED
  BY <1>1 DEF LimitOf

\* The prefixes that are left after the first one.
LEMMA TailIs ==
  ASSUME NEW S, NEW s \in Seq(S), Len(s) > 1
  PROVE  Tail(s) \in Seq(S) /\ Tail(s) # <<>>
<1>1. Len(s) \in Nat /\ Tail(s) \in Seq(S) /\ Len(Tail(s)) = Len(s) - 1
  OBVIOUS
<1>2. Len(Tail(s)) # 0
  <2>0. Len(Tail(s)) \in Nat
    BY <1>1
  <2>1. PICK n \in Nat, k \in Nat : n = Len(s) /\ k = Len(Tail(s))
    BY <1>1, <2>0
  <2>2. n > 1 /\ k = n - 1
    BY <1>1, <2>1, Zenon
  <2>3. k # 0
    BY <2>2
  <2> QED
    BY <2>1, <2>3
<1>3. Len(<<>>) = 0
  OBVIOUS
<1> QED
  BY <1>1, <1>2, <1>3, Zenon

\* A walk that starts over has its prefixes before it and nothing read.
LEMMA StartTypes ==
  ASSUME DataTypes, NEW w, WorkTypes(w), NEW prefixes \in Seq(Prefix), prefixes # <<>>
  PROVE  /\ WorkTypes(StartScan(w, prefixes))
         /\ StartScan(w, prefixes).prefixes = prefixes
         /\ StartScan(w, prefixes).left = Steady(Head(prefixes))
         /\ StartScan(w, prefixes).page = {} /\ ~StartScan(w, prefixes).last
         /\ StartScan(w, prefixes).rows = w.rows /\ StartScan(w, prefixes).items = w.items
         /\ StartScan(w, prefixes).key = w.key /\ StartScan(w, prefixes).type = w.type
<1>1. Head(prefixes) \in Prefix
  OBVIOUS
<1>2. Steady(Head(prefixes)) \subseteq Key
  BY <1>1 DEF Steady
<1>3. 0 \in 0 .. MaxPages
  OBVIOUS
<1> QED
  BY <1>2, <1>3 DEF StartScan, WorkTypes, IsWork, Fields

\* What becomes of a page, or of a key of it.
LEMMA ContinueIs ==
  ASSUME DataTypes, NEW w, WorkTypes(w), Continue(w)
  PROVE  /\ WorkTypes(work')
         /\ work'.rows = w.rows /\ work'.items = w.items
         /\ work'.key = w.key /\ work'.type = w.type
         /\ \/ /\ call' = "type" /\ UNCHANGED code /\ work' = w /\ ~Full(w)
            \/ /\ call' = "scan" /\ UNCHANGED code /\ work' = w /\ ~Full(w)
               /\ w.page = {} /\ ~w.last
            \/ /\ call' = "scan" /\ UNCHANGED code /\ ~Full(w)
               /\ w.page = {} /\ w.last /\ Len(w.prefixes) > 1
               /\ work'.prefixes = Tail(w.prefixes) /\ work'.left = Steady(Head(Tail(w.prefixes)))
               /\ work'.page = {} /\ ~work'.last
            \/ /\ call' = "none" /\ code' = "ok" /\ work' = w
               /\ Full(w) \/ (w.page = {} /\ w.last /\ Len(w.prefixes) <= 1)
<1>0. w.prefixes \in Seq(Prefix) /\ w.last \in BOOLEAN /\ Len(w.prefixes) \in Nat
  BY DEF WorkTypes
<1>1. CASE ~Full(w) /\ w.page # {}
  BY <1>1 DEF Continue
<1>2. CASE ~Full(w) /\ w.page = {} /\ ~w.last
  BY <1>2 DEF Continue
<1>3. CASE ~Full(w) /\ w.page = {} /\ w.last /\ Len(w.prefixes) > 1
  <2>1. PICK rest \in Seq(Prefix) : rest = Tail(w.prefixes) /\ rest # <<>>
    BY <1>0, <1>3, TailIs
  <2>2. work' = StartScan(w, rest) /\ call' = "scan" /\ UNCHANGED code
    BY <1>3, <2>1 DEF Continue
  <2>3. /\ WorkTypes(work') /\ work'.prefixes = rest /\ work'.left = Steady(Head(rest))
        /\ work'.page = {} /\ ~work'.last /\ work'.rows = w.rows /\ work'.items = w.items
        /\ work'.key = w.key /\ work'.type = w.type
    <3>0. rest # <<>>
      BY <2>1
    <3>1. WorkTypes(StartScan(w, rest))
      BY <3>0, StartTypes
    <3>2. /\ StartScan(w, rest).prefixes = rest /\ StartScan(w, rest).left = Steady(Head(rest))
          /\ StartScan(w, rest).page = {} /\ ~StartScan(w, rest).last
          /\ StartScan(w, rest).rows = w.rows /\ StartScan(w, rest).items = w.items
          /\ StartScan(w, rest).key = w.key /\ StartScan(w, rest).type = w.type
      BY <3>0, StartTypes
    <3> QED
      BY <2>2, <3>1, <3>2, Zenon
  <2> QED
    BY <1>3, <2>1, <2>2, <2>3, Zenon
<1>4. CASE Full(w) \/ (w.page = {} /\ w.last /\ ~(Len(w.prefixes) > 1))
  <2>1. work' = w /\ call' = "none" /\ code' = "ok"
    BY <1>4 DEF Continue, Answer
  <2> QED
    BY <1>0, <1>4, <2>1
<1> QED
  BY <1>0, <1>1, <1>2, <1>3, <1>4

\* A call of a walk that leaves the rows and items w keeps everything.
LEMMA ContinueKeeps ==
  ASSUME ProxyInv, ScanCall, NEW w, WorkTypes(w), Continue(w), w.prefixes # <<>>,
         UNCHANGED <<redis, kube, req, setup>>, faults' \in Nat,
         IsFiniteSet(w.rows), Cardinality(w.rows) + Len(w.items) <= Limit,
         w.rows # {} => req.op = "waitlist_emails", w.items # <<>> => req.op = "redis_read"
  PROVE  ProxyInv'
<1>1. code = "none" /\ call # "none" /\ req.key = 0 /\ req.op \in {"redis_read", "waitlist_emails"}
  BY DEF ProxyInv, Calls, ScanCall
<1>2. DataTypes
  BY DEF ProxyInv, Types
<1>3. /\ WorkTypes(work') /\ work'.rows = w.rows /\ work'.items = w.items
      /\ \/ /\ call' = "type" /\ UNCHANGED code /\ work' = w /\ ~Full(w)
         \/ /\ call' = "scan" /\ UNCHANGED code /\ work' = w /\ ~Full(w)
            /\ w.page = {} /\ ~w.last
         \/ /\ call' = "scan" /\ UNCHANGED code /\ ~Full(w)
            /\ w.page = {} /\ w.last /\ Len(w.prefixes) > 1
            /\ work'.prefixes = Tail(w.prefixes) /\ work'.left = Steady(Head(Tail(w.prefixes)))
            /\ work'.page = {} /\ ~work'.last
         \/ /\ call' = "none" /\ code' = "ok" /\ work' = w
            /\ Full(w) \/ (w.page = {} /\ w.last /\ Len(w.prefixes) <= 1)
  BY <1>2, ContinueIs
<1>4. WorkTypes(work)' /\ DataTypes'
  BY <1>1, <1>2, <1>3 DEF DataTypes, CallName, WorkTypes
<1>5. work'.prefixes # <<>>
  <2>1. w.prefixes \in Seq(Prefix)
    BY DEF WorkTypes
  <2>2. Len(w.prefixes) > 1 => Tail(w.prefixes) # <<>>
    BY <2>1, TailIs
  <2> QED
    BY <1>3, <2>2
<1>6. /\ call' \in {"type", "scan", "none"} /\ (call' # "none" => code' = "none" /\ ~Full(w))
      /\ (call' = "none" => code' = "ok") /\ (call' = "scan" => work'.page = {})
  BY <1>1, <1>3
<1>7. Calls'
  <2>1. SearchedPrefixes' = SearchedPrefixes /\ SearchedPrefixes \subseteq Prefix
    BY DEF SearchedPrefixes, ProxyInv, Calls
  <2> QED
    BY <1>1, <1>3, <1>5, <1>6, <2>1 DEF Calls, ScanCall
<1>8. Limit' = Limit /\ Limit \in Nat
  BY <1>2, LimitIs DEF Limit, LimitOf, DataTypes
<1>9. Cardinality(w.rows) \in Nat /\ Len(w.items) \in Nat
  BY FS_CardinalityType DEF WorkTypes
<1>10. ~Full(w) => Cardinality(w.rows) + Len(w.items) < Limit
  BY <1>8, <1>9 DEF Full
<1>11. Sizes'
  BY <1>3, <1>6, <1>8, <1>10 DEF Sizes, ScanCall
<1> QED
  BY <1>4, <1>7, <1>11 DEF ProxyInv, Types

\* A request starts with a walk, with one key, or in Kubernetes.
LEMMA FirstIs ==
  ASSUME Types, work = NoWork, NEW r \in Request, Accepts(r), r.op = "waitlist_emails" => r.key = 0
  PROVE  /\ WorkTypes(FirstWork(r)) /\ FirstCall(r) \in CallName \ {"none"}
         /\ FirstWork(r).rows = {} /\ FirstWork(r).items = <<>> /\ FirstWork(r).page = {}
         /\ \/ /\ FirstCall(r) = "scan" /\ r.op \in {"redis_read", "waitlist_emails"} /\ r.key = 0
               /\ ~FirstWork(r).last
               /\ FirstWork(r).prefixes = IF r.op = "waitlist_emails" THEN Waitlist ELSE <<r.prefix>>
               /\ FirstWork(r).left = Steady(Head(FirstWork(r).prefixes))
               /\ FirstWork(r).prefixes \in Seq(Prefix) \ {<<>>}
               /\ r.op = "redis_read" => r.prefix \in Prefix
            \/ FirstCall(r) = "read" /\ r.op = "redis_read" /\ r.key # 0 /\ FirstWork(r).key \in Key
            \/ FirstCall(r) = "list_nodes" /\ r.op = "k8s_metrics"
            \/ FirstCall(r) = "list_deployments" /\ r.op = "k8s_status"
            \/ FirstCall(r) = "get_deployment" /\ r.op \in {"k8s_status", "k8s_logs"}
            \/ FirstCall(r) = "get_pod" /\ r.op = "k8s_status" /\ Len(r.target) = 2
            \/ FirstCall(r) = "stream" /\ r.op = "k8s_logs"
<1>1. DataTypes /\ WorkTypes(NoWork)
  BY DEF Types
<1>2. /\ NoWork.rows = {} /\ NoWork.items = <<>> /\ NoWork.page = {}
  BY DEF NoWork
<1>3. /\ r.op \in Op /\ r.target \in Target /\ r.key \in Key \cup {0}
      /\ r.prefix \in Prefix \cup {NoPrefix}
  BY DEF Request
<1>4. CASE r.op = "waitlist_emails"
  <2>1. FirstWork(r) = StartScan(NoWork, Waitlist) /\ FirstCall(r) = "scan" /\ r.key = 0
    BY <1>4 DEF FirstWork, FirstCall
  <2>2. Waitlist \in Seq(Prefix) /\ Waitlist # <<>>
    OBVIOUS
  <2>3. /\ WorkTypes(FirstWork(r)) /\ FirstWork(r).prefixes = Waitlist
        /\ FirstWork(r).left = Steady(Head(Waitlist))
        /\ FirstWork(r).page = {} /\ ~FirstWork(r).last
        /\ FirstWork(r).rows = NoWork.rows /\ FirstWork(r).items = NoWork.items
    <3> DEFINE prefixes == Waitlist
               w == StartScan(NoWork, prefixes)
    <3>1. prefixes \in Seq(Prefix) /\ prefixes # <<>>
      BY <2>2
    <3> HIDE DEF prefixes
    <3>2. /\ WorkTypes(w) /\ w.prefixes = prefixes /\ w.left = Steady(Head(prefixes))
          /\ w.page = {} /\ ~w.last /\ w.rows = NoWork.rows /\ w.items = NoWork.items
      BY <1>1, <3>1, StartTypes
    <3>3. FirstWork(r) = w /\ prefixes = Waitlist
      BY <2>1 DEF prefixes
    <3> HIDE DEF w
    <3> QED
      BY <3>2, <3>3
  <2> QED
    BY <1>2, <1>4, <2>1, <2>2, <2>3 DEF CallName
<1>5. CASE r.op = "redis_read" /\ r.key = 0
  <2>1. FirstWork(r) = StartScan(NoWork, <<r.prefix>>) /\ FirstCall(r) = "scan"
    BY <1>5 DEF FirstWork, FirstCall
  <2>2. r.prefix \in Prefix
    BY <1>3, <1>5 DEF Accepts, RedisAllowed
  <2>3. <<r.prefix>> \in Seq(Prefix) /\ <<r.prefix>> # <<>>
    BY <2>2
  <2>4. PICK prefixes \in Seq(Prefix) : prefixes = <<r.prefix>> /\ prefixes # <<>>
    BY <2>3
  <2>5. FirstWork(r) = StartScan(NoWork, prefixes)
    BY <2>1, <2>4
  <2> DEFINE w == StartScan(NoWork, prefixes)
  <2>6. /\ WorkTypes(w) /\ w.prefixes = prefixes /\ w.left = Steady(Head(prefixes))
        /\ w.page = {} /\ ~w.last /\ w.rows = {} /\ w.items = <<>>
    <3>0. prefixes # <<>>
      BY <2>4
    <3>1. /\ WorkTypes(w) /\ w.prefixes = prefixes /\ w.left = Steady(Head(prefixes))
          /\ w.page = {} /\ ~w.last /\ w.rows = NoWork.rows /\ w.items = NoWork.items
      BY <1>1, <3>0, StartTypes
    <3> QED
      BY <1>2, <3>1, Zenon
  <2>7. FirstWork(r) = w /\ prefixes = <<r.prefix>> /\ prefixes # <<>> /\ r.prefix \in Prefix
    BY <2>2, <2>4, <2>5
  <2> HIDE DEF w
  <2> QED
    BY <1>5, <2>1, <2>6, <2>7 DEF CallName
<1>6. CASE r.op = "redis_read" /\ r.key # 0
  <2> DEFINE w == [NoWork EXCEPT !.key = r.key, !.type = redis[r.key].type]
  <2>1. FirstWork(r) = w /\ FirstCall(r) = "read" /\ r.key \in Key
    BY <1>3, <1>6 DEF FirstWork, FirstCall
  <2>2. redis[r.key] \in Value
    BY <1>1, <2>1 DEF DataTypes
  <2>3. redis[r.key].type \in Type
    BY <2>2 DEF Value
  <2>4. /\ WorkTypes(w) /\ w.key = r.key /\ w.rows = {} /\ w.items = <<>> /\ w.page = {}
    BY <1>1, <1>2, <2>1, <2>3 DEF WorkTypes, IsWork, Fields
  <2> QED
    BY <1>6, <2>1, <2>4 DEF CallName
<1>7. CASE r.op = "k8s_logs"
  <2>1. FirstWork(r) = NoWork \/ FirstWork(r) = [NoWork EXCEPT !.from = r.target[2]]
    BY <1>7 DEF FirstWork
  <2>2. /\ WorkTypes(FirstWork(r)) /\ FirstWork(r).rows = {} /\ FirstWork(r).items = <<>>
        /\ FirstWork(r).page = {}
    BY <1>1, <1>2, <2>1 DEF WorkTypes, IsWork, Fields
  <2>3. r.target # <<>>
    BY <1>7 DEF Accepts
  <2> QED
    BY <1>7, <2>2, <2>3 DEF FirstCall, CallName
<1>8. CASE r.op = "k8s_metrics"
  BY <1>1, <1>2, <1>8 DEF FirstWork, FirstCall, CallName
<1>9. CASE r.op = "k8s_status"
  <2>1. FirstWork(r) = NoWork
    BY <1>9 DEF FirstWork
  <2>2. r.target = <<>> \/ r.target = <<"deployment">> \/ (r.target[1] = "pod" /\ Len(r.target) = 2)
    BY <1>3 DEF Target
  <2>3. \/ FirstCall(r) = "list_deployments" \/ FirstCall(r) = "get_deployment"
        \/ FirstCall(r) = "get_pod" /\ Len(r.target) = 2
    BY <1>9, <2>2 DEF FirstCall
  <2> QED
    BY <1>1, <1>2, <1>9, <2>1, <2>3 DEF CallName
<1> QED
  BY <1>3, <1>4, <1>5, <1>6, <1>7, <1>8, <1>9 DEF Op

\* Serve keeps it: only a request that nothing has been read for is refused.
LEMMA ServeKeeps ==
  ASSUME ProxyInv, NEW r \in Request, r.op = "waitlist_emails" => r.key = 0, Serve(r),
         UNCHANGED faults
  PROVE  ProxyInv'
<1>1. /\ call = "none" /\ code = "none" /\ req' = r /\ work = NoWork /\ Types
      /\ UNCHANGED <<redis, kube, setup, faults>>
  BY DEF ProxyInv, Calls, Serve
<1>2. Limit' \in Nat \ {0}
  BY <1>1, LimitIs DEF Limit, LimitOf
<1>3. CASE Accepts(r)
  <2>1. call' = FirstCall(r) /\ work' = FirstWork(r) /\ code' = "none"
    BY <1>1, <1>3 DEF Serve
  <2>2. Types'
    BY <1>1, <1>3, <2>1, FirstIs DEF Types, DataTypes, WorkTypes
  <2>3. Calls'
    <3>1. InSeq(Waitlist) \subseteq Prefix
      BY DEF InSeq
    <3>2. call' = "scan" => SearchedPrefixes' \subseteq Prefix
      BY <1>1, <1>3, <2>1, <3>1, FirstIs DEF SearchedPrefixes
    <3>3. call' = "read" => ~ScanCall'
      BY <1>1, <1>3, <2>1, FirstIs DEF ScanCall
    <3> QED
      BY <1>1, <1>3, <2>1, <3>2, <3>3, FirstIs DEF Calls, ScanCall
  <2>4. work'.rows = {} /\ work'.items = <<>>
    BY <1>1, <1>3, <2>1, FirstIs
  <2>5. IsFiniteSet(work'.rows) /\ Cardinality(work'.rows) = 0 /\ Len(work'.items) = 0
    <3>1. IsFiniteSet({}) /\ Cardinality({}) = 0
      BY FS_EmptySet, Zenon
    <3> QED
      BY <2>4, <3>1
  <2>6. Sizes'
    BY <1>2, <2>5 DEF Sizes
  <2> QED
    BY <2>2, <2>3, <2>6 DEF ProxyInv
<1>4. CASE ~Accepts(r)
  <2>1. call' = "none" /\ code' = "refused" /\ work' = NoWork
    BY <1>1, <1>4 DEF Serve
  <2>2. NoWork.rows = {} /\ NoWork.items = <<>>
    BY DEF NoWork
  <2>3. Types'
    BY <1>1, <2>1 DEF Types, DataTypes, WorkTypes, CallName
  <2>4. Calls'
    BY <1>1, <2>1, <2>2 DEF Calls, ScanCall
  <2>5. IsFiniteSet(work'.rows) /\ Cardinality(work'.rows) = 0 /\ Len(work'.items) = 0
    <3>1. IsFiniteSet({}) /\ Cardinality({}) = 0
      BY FS_EmptySet, Zenon
    <3> QED
      BY <2>1, <2>2, <3>1
  <2>6. Sizes'
    BY <1>2, <2>1, <2>5 DEF Sizes, ScanCall
  <2> QED
    BY <2>3, <2>4, <2>6 DEF ProxyInv
<1> QED
  BY <1>3, <1>4

\* The new rows of a key: all of them while there is room, and never more.
ReadAt == IF work.type = "hash" /\ Cardinality(ReadMails) = 1 THEN redis[work.key].at ELSE 0

\* What a value adds: its addresses, as long as there is room.
LEMMA NewRowsIs ==
  ASSUME Types, work.key \in Key, IsFiniteSet(work.rows), Cardinality(work.rows) <= Limit,
         NEW rows \in NewRows
  PROVE  /\ rows \subseteq Row /\ IsFiniteSet(work.rows \cup rows)
         /\ Cardinality(work.rows \cup rows) \in Nat
         /\ Cardinality(work.rows \cup rows) <= Limit
         /\ Cardinality(work.rows \cup rows) < Limit =>
              \A m \in ReadMails : \E row \in work.rows \cup rows : row.mail = m
         /\ \A row \in rows : row.key = work.key /\ row.at = ReadAt
<1> DEFINE new == ReadMails \ Listed(work)
<1>1. PICK some \in SUBSET new :
        /\ rows = {row \in Rows(ReadMails) : row.mail \in some}
        /\ IF Cardinality(new) <= Room THEN some = new ELSE Cardinality(some) = Room
  BY DEF NewRows
<1>2. ReadMails \subseteq Email /\ ReadAt \in Time \cup {0}
  <2>1. redis[work.key] \in Value
    BY DEF Types, DataTypes
  <2> QED
    BY <2>1 DEF ReadMails, ReadAt, Value
<1>3. Rows(ReadMails) = {[mail |-> m, at |-> ReadAt, key |-> work.key] : m \in ReadMails}
  BY DEF Rows, ReadAt
<1>4. Rows(ReadMails) \subseteq Row
  BY <1>2, <1>3 DEF Row
<1>5. \A row \in rows : /\ row.mail \in some /\ row.key = work.key /\ row.at = ReadAt
                       /\ row = [mail |-> row.mail, at |-> ReadAt, key |-> work.key]
  BY <1>1, <1>3
<1>6. \A m \in some : [mail |-> m, at |-> ReadAt, key |-> work.key] \in rows
  BY <1>1, <1>3
<1>7. IsFiniteSet(new) /\ IsFiniteSet(some) /\ Cardinality(some) \in Nat /\ Cardinality(new) \in Nat
  BY <1>2, Part
<1>8. IsFiniteSet(rows) /\ Cardinality(rows) \in Nat /\ Cardinality(rows) = Cardinality(some)
  <2>1. PICK f : f = [row \in rows |-> row.mail]
    OBVIOUS
  <2>2. f \in [rows -> some] /\ \A x, y \in rows : f[x] = f[y] => x = y
    <3>1. \A row \in rows : f[row] = row.mail
      BY <2>1
    <3>2. f \in [rows -> some]
      BY <1>5, <2>1
    <3>3. ASSUME NEW x \in rows, NEW y \in rows, f[x] = f[y] PROVE x = y
      BY <1>5, <3>1, <3>3
    <3> QED
      BY <3>2, <3>3
  <2>3. IsFiniteSet(rows) /\ Cardinality(rows) \in Nat /\ Cardinality(rows) <= Cardinality(some)
    BY <1>7, <2>2, Into
  <2>4. PICK g : g = [m \in some |-> [mail |-> m, at |-> ReadAt, key |-> work.key]]
    OBVIOUS
  <2>5. g \in [some -> rows] /\ \A x, y \in some : g[x] = g[y] => x = y
    <3>1. \A m \in some : g[m] = [mail |-> m, at |-> ReadAt, key |-> work.key] /\ g[m].mail = m
      BY <2>4
    <3>2. g \in [some -> rows]
      BY <1>6, <2>4
    <3>3. ASSUME NEW x \in some, NEW y \in some, g[x] = g[y] PROVE x = y
      BY <3>1, <3>3
    <3> QED
      BY <3>2, <3>3
  <2>6. Cardinality(some) <= Cardinality(rows)
    BY <2>3, <2>5, Into
  <2> QED
    BY <1>7, <2>3, <2>6
<1>9. work.rows \cap rows = {}
  BY <1>5 DEF Listed
<1>10. /\ IsFiniteSet(work.rows \cup rows)
       /\ Cardinality(work.rows \cup rows) = Cardinality(work.rows) + Cardinality(rows)
  <2>1. IsFiniteSet(work.rows \cup rows) /\ Cardinality(work.rows \cup rows) =
          Cardinality(work.rows) + Cardinality(rows) - Cardinality(work.rows \cap rows)
    BY <1>8, FS_Union
  <2>2. Cardinality(work.rows \cap rows) = 0
    BY <1>9, FS_EmptySet, Zenon
  <2>3. Cardinality(work.rows) \in Nat /\ Cardinality(rows) \in Nat
    BY <1>8, FS_CardinalityType
  <2> QED
    BY <2>1, <2>2, <2>3
<1>11. Limit \in Nat /\ Cardinality(work.rows) \in Nat
  BY LimitIs, FS_CardinalityType DEF Limit, LimitOf, Types, DataTypes
<1>12. CASE Cardinality(new) <= Room
  <2>1. some = new
    BY <1>1, <1>12
  <2>2. Cardinality(rows) <= Limit - Cardinality(work.rows)
    BY <1>8, <1>12, <2>1 DEF Room
  <2>3. ASSUME NEW m \in ReadMails PROVE \E row \in work.rows \cup rows : row.mail = m
    <3>1. CASE m \in Listed(work)
      BY <3>1 DEF Listed
    <3>2. CASE m \in some
      <4>1. PICK row : row = [mail |-> m, at |-> ReadAt, key |-> work.key]
        OBVIOUS
      <4>2. row \in rows /\ row.mail = m
        BY <1>6, <3>2, <4>1
      <4> QED
        BY <4>2
    <3> QED
      BY <2>1, <3>1, <3>2
  <2> QED
    BY <1>1, <1>4, <1>5, <1>8, <1>10, <1>11, <2>2, <2>3
<1>13. CASE ~(Cardinality(new) <= Room)
  <2>1. Cardinality(rows) = Limit - Cardinality(work.rows)
    BY <1>1, <1>8, <1>13 DEF Room
  <2>2. Cardinality(work.rows \cup rows) = Limit
    BY <1>8, <1>10, <1>11, <2>1
  <2> QED
    BY <1>1, <1>4, <1>5, <1>10, <1>11, <2>2
<1> QED
  BY <1>12, <1>13

\* What the steps of a walk do to the work.
Scanned(page, last) ==
  [work EXCEPT !.left = @ \ page, !.page = page, !.last = last, !.pages = @ + 1]

\* A page of SCAN is to be read.
LEMMA ScanKeeps ==
  ASSUME ProxyInv, NEW page \in SUBSET Key, NEW last \in BOOLEAN, Scan(page, last), UNCHANGED faults
  PROVE  ProxyInv'
<1>1. /\ Types /\ call = "scan" /\ ScanCall /\ work.prefixes # <<>>
  BY DEF ProxyInv, Calls, Scan, ScanCall
<1>2. Continue(Scanned(page, last)) /\ UNCHANGED <<redis, kube, req, setup>>
  BY DEF Scan, Scanned
<1>3. /\ WorkTypes(Scanned(page, last)) /\ Scanned(page, last).rows = work.rows
      /\ Scanned(page, last).items = work.items /\ Scanned(page, last).prefixes = work.prefixes
  <2>1. work.pages \in 0 .. MaxPages /\ work.pages < MaxPages
    BY <1>1 DEF Types, WorkTypes, Scan
  <2>2. work.pages + 1 \in 0 .. MaxPages
    BY <2>1
  <2> QED
    BY <1>1, <2>2 DEF Types, WorkTypes, IsWork, Fields, Scanned
<1>4. faults' \in Nat
  BY <1>1 DEF Types, DataTypes
<1>5. /\ IsFiniteSet(work.rows) /\ Cardinality(work.rows) + Len(work.items) <= Limit
      /\ work.rows # {} => req.op = "waitlist_emails"
      /\ work.items # <<>> => req.op = "redis_read"
  BY DEF ProxyInv, Sizes, Calls
<1> HIDE DEF Scanned
<1> QED
  BY <1>1, <1>2, <1>3, <1>4, <1>5, ContinueKeeps

\* A key whose type was read is read next, or has been read.
LEMMA ReadTypeKeeps ==
  ASSUME ProxyInv, NEW k \in work.page, ReadType(k), UNCHANGED faults
  PROVE  ProxyInv'
<1>1. /\ Types /\ call = "type" /\ call' = "read" /\ k \in Key
      /\ work' = [work EXCEPT !.page = @ \ {k}, !.key = k, !.type = redis[k].type]
      /\ UNCHANGED <<redis, kube, req, code, setup, faults>>
  BY DEF ProxyInv, Types, WorkTypes, ReadType
<1>2. redis[k].type \in Type
  <2>1. redis[k] \in Value
    BY <1>1 DEF Types, DataTypes
  <2> QED
    BY <2>1 DEF Value
<1>3. /\ WorkTypes(work)' /\ work'.rows = work.rows /\ work'.items = work.items
      /\ work'.key = k /\ work'.prefixes = work.prefixes
  BY <1>1, <1>2 DEF Types, WorkTypes, IsWork, Fields
<1>4. DataTypes'
  BY <1>1 DEF Types, DataTypes, CallName
<1>5. Calls'
  <2>1. SearchedPrefixes' = SearchedPrefixes
    BY <1>1 DEF SearchedPrefixes
  <2> QED
    BY <1>1, <1>3, <2>1 DEF ProxyInv, Calls, ScanCall
<1>6. Sizes'
  BY <1>1, <1>3 DEF ProxyInv, Calls, Sizes, ScanCall, Limit, LimitOf
<1> QED
  BY <1>3, <1>4, <1>5, <1>6 DEF ProxyInv, Types

WithRows(rows) == [work EXCEPT !.rows = @ \cup rows]
WithItem == [work EXCEPT !.items = Append(@, work.key)]

\* A key is listed.
LEMMA ItemIs ==
  ASSUME Types, work.key \in Key
  PROVE  /\ WorkTypes(WithItem) /\ WithItem.rows = work.rows
         /\ WithItem.items = Append(work.items, work.key)
         /\ WithItem.prefixes = work.prefixes /\ WithItem.left = work.left
         /\ WithItem.page = work.page /\ WithItem.last = work.last
         /\ WithItem.key = work.key /\ WithItem.type = work.type
         /\ Len(WithItem.items) = Len(work.items) + 1 /\ WithItem.items # <<>>
<1>1. work.items \in Seq(Key)
  BY DEF Types, WorkTypes
<1>2. PICK items \in Seq(Key) : /\ items = Append(work.items, work.key)
                                /\ Len(items) = Len(work.items) + 1
  <2>1. PICK old \in Seq(Key), k \in Key : old = work.items /\ k = work.key
    BY <1>1
  <2>2. Append(old, k) \in Seq(Key) /\ Len(Append(old, k)) = Len(old) + 1
    OBVIOUS
  <2> QED
    BY <2>1, <2>2, Zenon
<1>3. items # <<>>
  <2>1. Len(items) # 0
    BY <1>1, <1>2
  <2> QED
    BY <2>1
<1>4. WithItem = [work EXCEPT !.items = items]
  BY <1>2 DEF WithItem
<1>5. /\ WorkTypes([work EXCEPT !.items = items])
      /\ [work EXCEPT !.items = items].items = items
      /\ [work EXCEPT !.items = items].rows = work.rows
      /\ [work EXCEPT !.items = items].prefixes = work.prefixes
      /\ [work EXCEPT !.items = items].left = work.left
      /\ [work EXCEPT !.items = items].page = work.page
      /\ [work EXCEPT !.items = items].last = work.last
      /\ [work EXCEPT !.items = items].key = work.key
      /\ [work EXCEPT !.items = items].type = work.type
  BY DEF Types, WorkTypes, IsWork, Fields
<1> QED
  BY <1>2, <1>3, <1>4, <1>5, Zenon

\* Rows are added.
LEMMA RowsAre ==
  ASSUME Types, NEW rows \in SUBSET Row
  PROVE  /\ WorkTypes(WithRows(rows)) /\ WithRows(rows).rows = work.rows \cup rows
         /\ WithRows(rows).items = work.items
         /\ WithRows(rows).prefixes = work.prefixes /\ WithRows(rows).left = work.left
         /\ WithRows(rows).page = work.page /\ WithRows(rows).last = work.last
         /\ WithRows(rows).key = work.key /\ WithRows(rows).type = work.type
  BY DEF Types, WorkTypes, IsWork, Fields, WithRows

\* A value is read.
LEMMA ReadValueKeeps ==
  ASSUME ProxyInv, ReadValue, UNCHANGED faults
  PROVE  ProxyInv'
<1>1. /\ Types /\ call = "read" /\ work.key \in Key /\ UNCHANGED <<redis, kube, req, setup, faults>>
      /\ req.op \in {"redis_read", "waitlist_emails"} /\ faults' \in Nat
      /\ IsFiniteSet(work.rows) /\ req.key \in Key \cup {0}
      /\ req.op = "waitlist_emails" => req.key = 0
      /\ work.rows # {} => req.op = "waitlist_emails"
      /\ work.items # <<>> => req.op = "redis_read"
  BY DEF ProxyInv, Types, DataTypes, Calls, Sizes, ReadValue, Request
<1>2. Limit \in Nat \ {0} /\ Limit' = Limit /\ Cardinality(work.rows) \in Nat /\ Len(work.items) \in Nat
  <2>1. req \in Request /\ work.items \in Seq(Key)
    BY <1>1 DEF Types, DataTypes, WorkTypes
  <2>2. Limit \in Nat \ {0}
    BY <2>1, LimitIs DEF Limit
  <2>3. Limit' = Limit
    BY <1>1 DEF Limit
  <2>4. Cardinality(work.rows) \in Nat
    BY <1>1, FS_CardinalityType
  <2> QED
    BY <2>1, <2>2, <2>3, <2>4
<1>3. Cardinality({}) = 0 /\ Len(<<>>) = 0
  BY FS_EmptySet, Zenon
<1>4. CASE req.op = "waitlist_emails"
  <2>1. PICK rows \in NewRows : Continue(WithRows(rows))
    BY <1>4 DEF ReadValue, WithRows
  <2>2. ScanCall /\ work.prefixes # <<>> /\ Cardinality(work.rows) <= Limit /\ work.items = <<>>
    BY <1>1, <1>2, <1>4 DEF ProxyInv, Calls, Sizes, ScanCall
  <2>3. /\ rows \in SUBSET Row /\ IsFiniteSet(work.rows \cup rows)
        /\ Cardinality(work.rows \cup rows) \in Nat /\ Cardinality(work.rows \cup rows) <= Limit
    BY <1>1, <2>2, NewRowsIs
  <2>4. /\ WorkTypes(WithRows(rows)) /\ WithRows(rows).rows = work.rows \cup rows
        /\ WithRows(rows).items = <<>> /\ WithRows(rows).prefixes # <<>>
    BY <1>1, <2>2, <2>3, RowsAre
  <2>5. PICK w : w = WithRows(rows)
    OBVIOUS
  <2>6. /\ WorkTypes(w) /\ Continue(w) /\ w.prefixes # <<>> /\ w.items = <<>>
        /\ IsFiniteSet(w.rows) /\ Cardinality(w.rows) + Len(w.items) <= Limit
    <3>1. /\ WorkTypes(w) /\ Continue(w) /\ w.prefixes # <<>> /\ w.items = <<>>
          /\ w.rows = work.rows \cup rows
      BY <2>1, <2>4, <2>5
    <3>2. /\ IsFiniteSet(w.rows) /\ Cardinality(w.rows) \in Nat /\ Cardinality(w.rows) <= Limit
          /\ Len(w.items) = 0
      BY <1>3, <2>3, <3>1
    <3> QED
      BY <1>2, <3>1, <3>2
  <2> QED
    BY <1>1, <1>4, <2>2, <2>6, ContinueKeeps
<1>5. CASE req.op = "redis_read" /\ req.key # 0
  <2>1. work' = WithItem /\ call' = "none" /\ code' = "ok"
    BY <1>5 DEF ReadValue, Answer, WithItem
  <2>2. work.items = <<>> /\ work.rows = {}
    BY <1>1, <1>5 DEF ProxyInv, Calls
  <2>3. Types'
    BY <1>1, <2>1, ItemIs DEF Types, DataTypes, CallName, WorkTypes
  <2>4. Calls'
    BY <1>1, <1>5, <2>1, <2>2, ItemIs DEF Calls, ScanCall
  <2>5. Len(WithItem.items) = 1 /\ Cardinality(WithItem.rows) = 0 /\ IsFiniteSet(WithItem.rows)
    <3>1. WithItem.rows = {} /\ Len(WithItem.items) = Len(work.items) + 1
      BY <1>1, <2>2, ItemIs
    <3>2. IsFiniteSet(WithItem.rows) /\ Cardinality(WithItem.rows) = 0
      BY <3>1, FS_EmptySet, Zenon
    <3>3. Len(work.items) = 0
      BY <1>3, <2>2
    <3> QED
      BY <3>1, <3>2, <3>3
  <2>6. Sizes'
    BY <1>2, <2>1, <2>5 DEF Sizes, ScanCall
  <2> QED
    BY <2>3, <2>4, <2>6 DEF ProxyInv
<1>6. CASE req.op = "redis_read" /\ req.key = 0
  <2>1. Continue(WithItem)
    BY <1>6 DEF ReadValue, WithItem
  <2>2. /\ ScanCall /\ work.prefixes # <<>>
        /\ Cardinality(work.rows) + Len(work.items) < Limit /\ work.rows = {}
    BY <1>1, <1>6 DEF ProxyInv, Calls, Sizes, ScanCall
  <2>3. PICK w : w = WithItem
    OBVIOUS
  <2>4. /\ WorkTypes(w) /\ Continue(w) /\ w.prefixes # <<>> /\ w.rows = {}
        /\ Len(w.items) = Len(work.items) + 1
    BY <1>1, <2>1, <2>2, <2>3, ItemIs
  <2>5. IsFiniteSet(w.rows) /\ Cardinality(w.rows) + Len(w.items) <= Limit
    <3>1. IsFiniteSet(w.rows) /\ Cardinality(w.rows) = 0 /\ Cardinality(work.rows) = 0
      BY <1>1, <1>3, <2>2, <2>4
    <3> QED
      BY <1>2, <2>2, <2>4, <3>1
  <2> QED
    BY <1>1, <1>6, <2>2, <2>4, <2>5, ContinueKeeps
<1> QED
  BY <1>1, <1>4, <1>5, <1>6

\* A read that fails skips the key or ends the request.
LEMMA ReadFailsKeeps ==
  ASSUME ProxyInv, ReadFails
  PROVE  ProxyInv'
<1>1. /\ Types /\ call = "read" /\ UNCHANGED <<redis, kube, req, setup>> /\ faults' \in Nat
      /\ IsFiniteSet(work.rows) /\ Cardinality(work.rows) + Len(work.items) <= Limit
      /\ work.rows # {} => req.op = "waitlist_emails"
      /\ work.items # <<>> => req.op = "redis_read"
  BY DEF ProxyInv, Types, DataTypes, Calls, Sizes, ReadFails, Fault
<1>2. CASE req.key = 0
  <2>1. Continue(work) /\ ScanCall /\ work.prefixes # <<>> /\ WorkTypes(work)
    BY <1>1, <1>2 DEF ReadFails, ProxyInv, Types, Calls, ScanCall
  <2> QED
    BY <1>1, <2>1, ContinueKeeps
<1>3. CASE req.key # 0
  <2>1. UNCHANGED work /\ call' = "none" /\ code' = "failed"
    BY <1>3 DEF ReadFails, Answer
  <2> QED
    BY <1>1, <2>1 DEF ProxyInv, Types, DataTypes, WorkTypes, CallName, Calls, Sizes, ScanCall,
                      Limit, LimitOf
<1> QED
  BY <1>2, <1>3

\* The calls to Kubernetes read pods and nodes, and no rows.
LEMMA KubeKeeps ==
  ASSUME ProxyInv,
         \/ ListDeployments \/ GetDeployment \/ GetPod \/ PodsOf \/ PodsOfIgnored
         \/ ListNodes \/ ListPods \/ Stream \/ \E live \in BOOLEAN : Usage(live),
         faults' \in Nat
  PROVE  ProxyInv' /\ work'.rows = work.rows
<1>1. /\ Types /\ UNCHANGED <<redis, kube, req, setup>> /\ kube.nodes \subseteq Node
      /\ req \in Request /\ kube.pods \in [Pod -> Node \cup {0, -1}]
  BY DEF ProxyInv, Types, DataTypes, KubeState, ListDeployments, GetDeployment, GetPod, PodsOf,
         PodsOfIgnored, ListNodes, ListPods, Stream, Usage, Read, Done, Fails, Answer
<1>2. Alive \subseteq Pod /\ \A S, n : FirstNames(S, n) \subseteq S
  BY DEF Alive, FirstNames
<1>3. /\ \/ \E pods \in SUBSET Pod : work' = [work EXCEPT !.pods = pods]
         \/ \E nodes \in SUBSET Node : \E total :
              work' = [work EXCEPT !.nodes = nodes, !.total = total]
         \/ \E nodes \in SUBSET Node, live \in BOOLEAN :
              work' = [work EXCEPT !.live = live, !.nodes = nodes]
         \/ \E n : work' = [work EXCEPT !.deployments = n]
         \/ \E n : work' = [work EXCEPT !.asked = n]
         \/ \E p : work' = [work EXCEPT !.from = p]
         \/ UNCHANGED work
      /\ \/ call' = "none" /\ code' \in {"ok", "failed"}
         \/ call = "list_deployments" /\ call' = "list_pods" /\ UNCHANGED code
         \/ call = "get_deployment" /\ call' = "pods_of" /\ UNCHANGED code
         \/ /\ call = "pods_of" /\ req.op \notin {"k8s_status"}
            /\ call' = "stream" /\ UNCHANGED code
         \/ call = "list_nodes" /\ call' = "list_pods" /\ UNCHANGED code
         \/ /\ call = "list_pods" /\ req.op \notin {"k8s_status"}
            /\ call' = "usage" /\ UNCHANGED code
      /\ call \in CallName \ {"none", "scan", "type", "read"}
  <2>1. CASE ListDeployments
    BY <2>1 DEF ListDeployments, Read, CallName
  <2>2. CASE GetDeployment
    BY <2>2 DEF GetDeployment, Read, Fails, Answer, CallName
  <2>3. CASE GetPod
    <3>1. call = "get_pod" /\ call' = "none" /\ code' \in {"ok", "failed"}
      BY <2>3 DEF GetPod, Done, Fails, Answer
    <3>2. \/ \E pods \in SUBSET Pod : work' = [work EXCEPT !.pods = pods]
          \/ UNCHANGED work
      <4>1. CASE req.target[2] \in Alive
        BY <1>2, <2>3, <4>1 DEF GetPod, Done
      <4>2. CASE req.target[2] \notin Alive
        BY <2>3, <4>2 DEF GetPod, Fails
      <4> QED
        BY <4>1, <4>2
    <3> QED
      BY <3>1, <3>2 DEF CallName
  <2>4. CASE PodsOf
    <3>1. PICK pods \in SUBSET Pod : pods = FirstNames(Alive, IF req.op = "k8s_logs" THEN 1 ELSE Limit)
      BY <1>2
    <3>2. CASE req.op = "k8s_status"
      BY <2>4, <3>1, <3>2 DEF PodsOf, Done, Answer, CallName
    <3>3. CASE req.op # "k8s_status"
      BY <2>4, <3>1, <3>3 DEF PodsOf, Read, Fails, Answer, CallName
    <3> QED
      BY <3>2, <3>3
  <2>5. CASE PodsOfIgnored \/ Stream
    BY <2>5 DEF PodsOfIgnored, Stream, Done, Fails, Answer, CallName
  <2>6. CASE ListNodes
    BY <1>1, <2>6 DEF ListNodes, Read, CallName
  <2>7. CASE ListPods
    <3>1. FirstNames(Alive, Limit) \in SUBSET Pod
      BY <1>2
    <3>2. CASE req.op = "k8s_status"
      BY <2>7, <3>1, <3>2 DEF ListPods, Done, Answer, CallName
    <3>3. CASE req.op # "k8s_status"
      BY <2>7, <3>3 DEF ListPods, Read, CallName
    <3> QED
      BY <3>2, <3>3
  <2>8. ASSUME NEW live \in BOOLEAN, Usage(live)
        PROVE  /\ \E nodes \in SUBSET Node : work' = [work EXCEPT !.live = live, !.nodes = nodes]
               /\ call = "usage" /\ call' = "none" /\ code' = "ok"
    <3>1. FirstNames(work.nodes, Limit) \in SUBSET Node
      BY <1>1, <1>2 DEF Types, WorkTypes
    <3> QED
      BY <2>8, <3>1 DEF Usage, Done, Answer
  <2> QED
    BY <2>1, <2>2, <2>3, <2>4, <2>5, <2>6, <2>7, <2>8 DEF CallName
<1>4. /\ WorkTypes(work)' /\ work'.rows = work.rows /\ work'.items = work.items
  <2> DEFINE Goal == /\ WorkTypes(work)' /\ work'.rows = work.rows /\ work'.items = work.items
  <2> USE DEF Types, WorkTypes, IsWork, Fields
  <2>1. ASSUME NEW pods \in SUBSET Pod, work' = [work EXCEPT !.pods = pods] PROVE Goal
    BY <1>1, <2>1
  <2>2. ASSUME NEW nodes \in SUBSET Node, NEW total,
               work' = [work EXCEPT !.nodes = nodes, !.total = total] PROVE Goal
    BY <1>1, <2>2
  <2>3. ASSUME NEW nodes \in SUBSET Node, NEW live,
               work' = [work EXCEPT !.live = live, !.nodes = nodes] PROVE Goal
    BY <1>1, <2>3
  <2>4. ASSUME NEW n, work' = [work EXCEPT !.deployments = n] PROVE Goal
    BY <1>1, <2>4
  <2>5. ASSUME NEW n, work' = [work EXCEPT !.asked = n] PROVE Goal
    BY <1>1, <2>5
  <2>6. ASSUME NEW n, work' = [work EXCEPT !.from = n] PROVE Goal
    BY <1>1, <2>6
  <2>7. ASSUME UNCHANGED work PROVE Goal
    BY <1>1, <2>7
  <2> HIDE DEF Goal, Types, WorkTypes, IsWork, Fields
  <2>8. Goal
    BY <1>3, <2>1, <2>2, <2>3, <2>4, <2>5, <2>6, <2>7
  <2> QED
    BY <2>8 DEF Goal
<1>5. DataTypes'
  BY <1>1, <1>3 DEF Types, DataTypes, CallName
<1>6. Calls'
  BY <1>1, <1>3, <1>4 DEF ProxyInv, Calls, ScanCall
<1>7. Sizes'
  BY <1>1, <1>3, <1>4 DEF ProxyInv, Sizes, ScanCall, Limit, LimitOf
<1> QED
  BY <1>4, <1>5, <1>6, <1>7 DEF ProxyInv, Types

\* The data moves within its types.
LEMMA WorldKeeps ==
  ASSUME ProxyInv, World
  PROVE  ProxyInv'
<1>1. /\ Types /\ UNCHANGED <<req, call, work, code, faults, setup>>
      /\ redis \in [Key -> Value] /\ kube \in KubeState
      /\ setup.moving \subseteq Key /\ setup.values \subseteq Value
      /\ setup.movingPods \subseteq Pod /\ setup.movingNodes \subseteq Node
  BY SetupFields DEF World, SignUp, Reschedule, Scale, ProxyInv, Types, DataTypes
<1>2. redis' \in [Key -> Value] /\ kube' \in KubeState
  <2>1. ASSUME NEW k \in setup.moving, NEW v \in setup.values, SignUp(k, v)
        PROVE  redis' \in [Key -> Value] /\ UNCHANGED kube
    BY <1>1, <2>1 DEF SignUp
  <2>2. ASSUME NEW p \in setup.movingPods, NEW n \in Node \cup {0, -1}, Reschedule(p, n)
        PROVE  kube' \in KubeState /\ UNCHANGED redis
    <3>1. kube' = [kube EXCEPT !.pods = [kube.pods EXCEPT ![p] = n]] /\ UNCHANGED redis
      BY <2>2 DEF Reschedule
    <3>2. [kube.pods EXCEPT ![p] = n] \in [Pod -> Node \cup {0, -1}]
      BY <1>1 DEF KubeState
    <3> QED
      BY <1>1, <3>1, <3>2 DEF KubeState
  <2>3. ASSUME NEW n \in setup.movingNodes, Scale(n)
        PROVE  kube' \in KubeState /\ UNCHANGED redis
    <3>1. PICK nodes, pods :
            /\ nodes = IF n \in kube.nodes THEN kube.nodes \ {n} ELSE kube.nodes \cup {n}
            /\ pods = [p \in Pod |-> IF kube.pods[p] = n THEN -1 ELSE kube.pods[p]]
      OBVIOUS
    <3>2. kube' = [kube EXCEPT !.nodes = nodes, !.pods = pods] /\ UNCHANGED redis
      BY <2>3, <3>1 DEF Scale
    <3>3. nodes \subseteq Node /\ pods \in [Pod -> Node \cup {0, -1}]
      BY <1>1, <3>1 DEF KubeState
    <3> QED
      BY <1>1, <3>2, <3>3 DEF KubeState
  <2> QED
    BY <1>1, <2>1, <2>2, <2>3 DEF World
<1>3. Types'
  BY <1>1, <1>2 DEF Types, DataTypes, WorkTypes
<1>4. SearchedPrefixes' = SearchedPrefixes
  BY <1>1 DEF SearchedPrefixes
<1> QED
  BY <1>1, <1>3, <1>4 DEF ProxyInv, Calls, Sizes, ScanCall, Limit, LimitOf

\* What Ross asks for is a request.
LEMMA RequestedType ==
  ASSUME action.request \in Request
  PROVE  /\ Requested \in Request
         /\ Requested.op = "waitlist_emails" => Requested.key = 0
<1>1. PICK r \in Request : r = action.request
  OBVIOUS
<1>2. NoPrefix \in Prefix \cup {NoPrefix} /\ <<>> \in Target
  BY DEF Target
<1> QED
  BY <1>1, <1>2 DEF Requested, Request

\* Every step keeps the proxy's types and sizes.
LEMMA ProxyKeeps == ProxyInv /\ action.request \in Request /\ [Next]_vars => ProxyInv'
<1> SUFFICES ASSUME ProxyInv, action.request \in Request, [Next]_vars PROVE ProxyInv'
  OBVIOUS
<1>0. faults \in Nat
  BY DEF ProxyInv, Types, DataTypes
<1>1. CASE UNCHANGED <<redis, kube, req, call, work, code, setup>> /\ faults' \in Nat
  <2>1. SearchedPrefixes' = SearchedPrefixes /\ Limit' = Limit /\ (ScanCall' <=> ScanCall)
    BY <1>1 DEF SearchedPrefixes, Limit, LimitOf, ScanCall
  <2>2. Types'
    BY <1>1 DEF ProxyInv, Types, DataTypes, WorkTypes
  <2>3. Calls'
    BY <1>1, <2>1 DEF ProxyInv, Calls
  <2>4. Sizes'
    BY <1>1, <2>1 DEF ProxyInv, Sizes
  <2> QED
    BY <2>2, <2>3, <2>4 DEF ProxyInv
<1>2. CASE UNCHANGED vars
  BY <1>0, <1>1, <1>2 DEF vars
<1>3. CASE RossStep
  <2>1. CASE Ask
    BY <2>1, RequestedType, ServeKeeps DEF Ask
  <2>2. CASE GiveUp
    <3>1. UNCHANGED <<redis, kube, req, work, setup>> /\ faults' \in Nat /\ call' = "none" /\ code' = "failed"
      BY <1>0, <2>2 DEF GiveUp, Answer, Fault
    <3> QED
      BY <3>1 DEF ProxyInv, Types, DataTypes, WorkTypes, Calls, Sizes, ScanCall, Limit, LimitOf, CallName
  <2>3. CASE Understand \/ Refuse \/ Hear \/ Deliver \/ Lose
    BY <1>0, <1>1, <2>3 DEF Understand, Ignore, Accept, Refuse, Hear, Deliver, Lose, Fault
  <2> QED
    BY <1>3, <2>1, <2>2, <2>3 DEF RossStep
<1>4. CASE WorldStep
  BY <1>4, WorldKeeps DEF WorldStep
<1>5. CASE ProxyStep
  <2>1. CASE CallFails
    <3>1. UNCHANGED <<redis, kube, req, work, setup>> /\ faults' \in Nat /\ call' = "none" /\ code' = "failed"
      BY <1>0, <2>1 DEF CallFails, Answer, Fault
    <3> QED
      BY <3>1 DEF ProxyInv, Types, DataTypes, WorkTypes, Calls, Sizes, ScanCall, Limit, LimitOf, CallName
  <2>2. CASE PodsOfIgnored \/ \E live \in BOOLEAN : Usage(live)
    <3>1. UNCHANGED faults \/ Fault("usage") \/ Fault("call")
      BY <2>2 DEF PodsOfIgnored, Usage
    <3>2. faults' \in Nat
      BY <1>0, <3>1 DEF Fault
    <3> QED
      BY <2>2, <3>2, KubeKeeps
  <2>3. CASE UNCHANGED faults /\ (ListDeployments \/ GetDeployment \/ GetPod \/ PodsOf
                                  \/ ListNodes \/ ListPods \/ Stream)
    BY <1>0, <2>3, KubeKeeps
  <2> QED
    BY <1>5, <2>1, <2>2, <2>3, ScanKeeps, ReadTypeKeeps, ReadValueKeeps, ReadFailsKeeps
    DEF ProxyStep, ProxyCall
<1> QED
  BY <1>2, <1>3, <1>4, <1>5 DEF Next

\* Rows with different addresses have a newest one.
NewerRows(a, rows) == {b \in rows : Newer(b, a)}

\* Rows with one per address have a newest one, when there are any.
LEMMA NewestIs ==
  ASSUME NEW rows \in SUBSET Row, IsFiniteSet(rows), rows # {}, Single(rows)
  PROVE  \E a \in rows : \A b \in rows \ {a} : Newer(a, b)
<1>1. \A a \in rows : a.at \in Nat /\ a.key \in Nat /\ a.mail \in Nat
  <2>1. Time \cup {0} \subseteq Nat /\ Key \subseteq Nat /\ Email \subseteq Nat
    BY ProxyAssumption
  <2>2. \A a \in Row : a.at \in Time \cup {0} /\ a.key \in Key /\ a.mail \in Email
    BY DEF Row
  <2> QED
    BY <2>1, <2>2, Zenon
<1>2. \A a \in rows : /\ IsFiniteSet(NewerRows(a, rows))
                     /\ Cardinality(NewerRows(a, rows)) \in Nat
  BY Part DEF NewerRows
<1> DEFINE sizes == {Cardinality(NewerRows(a, rows)) : a \in rows}
<1>3. sizes \in SUBSET Nat /\ sizes # {}
  BY <1>2
<1>4. PICK n \in sizes : \A k \in sizes : n <= k
  <2> HIDE DEF sizes
  <2> QED
    BY <1>3, Smallest
<1>5. PICK a \in rows : \A b \in rows :
        Cardinality(NewerRows(a, rows)) <= Cardinality(NewerRows(b, rows))
  BY <1>4
<1>6. NewerRows(a, rows) = {}
  <2> SUFFICES ASSUME NEW b \in NewerRows(a, rows) PROVE FALSE
    OBVIOUS
  <2>1. b \in rows /\ Newer(b, a)
    BY DEF NewerRows
  <2>2. NewerRows(b, rows) \in SUBSET (NewerRows(a, rows) \ {b})
    <3>1. ASSUME NEW c \in rows, Newer(c, b) PROVE Newer(c, a) /\ c # b
      <4>1. /\ a.at \in Nat /\ b.at \in Nat /\ c.at \in Nat
            /\ a.key \in Nat /\ b.key \in Nat /\ c.key \in Nat
            /\ a.mail \in Nat /\ b.mail \in Nat /\ c.mail \in Nat
        BY <1>1, <2>1
      <4> QED
        BY ONLY <2>1, <3>1, <4>1 DEF Newer
    <3> QED
      BY <3>1 DEF NewerRows
  <2>3. /\ Cardinality(NewerRows(b, rows)) + 1 <= Cardinality(NewerRows(a, rows))
        /\ Cardinality(NewerRows(b, rows)) \in Nat /\ Cardinality(NewerRows(a, rows)) \in Nat
    BY <1>2, <2>1, <2>2, OneLess
  <2>4. Cardinality(NewerRows(a, rows)) <= Cardinality(NewerRows(b, rows))
    BY <1>5, <2>1
  <2> QED
    BY <2>3, <2>4
<1>7. ASSUME NEW b \in rows \ {a} PROVE Newer(a, b)
  <2>1. ~Newer(b, a)
    BY <1>6 DEF NewerRows
  <2>2. a.mail # b.mail
    BY DEF Single
  <2> QED
    BY <1>1, <2>1, <2>2 DEF Newer
<1> QED
  BY <1>7

\* The row the answer shows is the newest.
LEMMA LatestIs ==
  ASSUME work.rows \subseteq Row, IsFiniteSet(work.rows), work.rows # {}, Single(work.rows)
  PROVE  Latest \in work.rows /\ \A b \in work.rows \ {Latest} : Newer(Latest, b)
<1> DEFINE First(a) == \A b \in work.rows \ {a} : Newer(a, b)
<1>0. work.rows \in SUBSET Row
  OBVIOUS
<1>1. \E a \in work.rows : First(a)
  BY <1>0, NewestIs, Zenon
<1>2. Latest = CHOOSE a \in work.rows : First(a)
  BY DEF Latest
<1> HIDE DEF First
<1>3. Latest \in work.rows /\ First(Latest)
  BY <1>1, <1>2, Zenon
<1> QED
  BY <1>3 DEF First

-----------------------------------------------------------------------------
PostType == [says : {"nothing", "refusal", "error", "data"}, mail : Email \cup {0},
             at : Time \cup {0}, plain : BOOLEAN]

RossTypes ==
  /\ ross \in {"heard", "checking", "waiting", "answering", "ignored", "done"}
  /\ action \in [request : Request, question : Question, full : BOOLEAN]
  /\ post \in PostType

OpsInv == ProxyInv /\ RowsInv /\ RossTypes

\* Whatever becomes an action is one.
LEMMA ActionType ==
  ASSUME NEW p \in Prompt, NEW e \in Extract, NEW a \in Resolved(p, e)
  PROVE  a \in [request : Request, question : Question, full : BOOLEAN]
<1>1. a.request \in Request
  BY ResolvedType
<1>2. /\ p.question \in Question /\ e.question \in Question /\ p.full \in BOOLEAN
      /\ e.full \in BOOLEAN /\ p.waitlist \in BOOLEAN /\ "none" \in Question
      /\ e.query \in BOOLEAN
  BY DEF Prompt, Extract, Question
<1>3. \/ \E op, limit : \E question \in Question : a = Extracted(e, op, question, limit)
      \/ a = Parsed(p)
  <2>1. CASE e.query /\ p.waitlist
    <3>1. \E question \in Question : \E limit :
            a = Extracted(e, "waitlist_emails", question, limit)
      BY <1>2, <2>1 DEF Resolved
    <3> QED
      BY <3>1
  <2>2. CASE e.query /\ ~p.waitlist /\ e.op # "none"
    <3>1. PICK question \in Question : a = Extracted(e, e.op, question, e.limit)
      BY <1>2, <2>2 DEF Resolved
    <3> QED
      BY <3>1
  <2>3. CASE ~(e.query /\ p.waitlist) /\ ~(e.query /\ ~p.waitlist /\ e.op # "none")
    BY <1>2, <2>3 DEF Resolved
  <2> QED
    BY <2>1, <2>2, <2>3
<1>4. /\ a = [request |-> a.request, question |-> a.question, full |-> a.full]
      /\ a.question \in Question /\ a.full \in BOOLEAN
  <2>1. ASSUME NEW op, NEW question \in Question, NEW limit, a = Extracted(e, op, question, limit)
        PROVE  /\ a = [request |-> a.request, question |-> a.question, full |-> a.full]
               /\ a.question \in Question /\ a.full \in BOOLEAN
    BY <1>2, <2>1 DEF Extracted
  <2>2. ASSUME a = Parsed(p)
        PROVE  /\ a = [request |-> a.request, question |-> a.question, full |-> a.full]
               /\ a.question \in Question /\ a.full \in BOOLEAN
    BY <1>2, <2>2 DEF Parsed
  <2> QED
    BY <1>3, <2>1, <2>2
<1> QED
  BY <1>1, <1>4

\* Every step keeps Ross's types; the answer names a row of the waitlist.
LEMMA RossKeeps == OpsInv /\ [Next]_vars => RossTypes'
<1> SUFFICES ASSUME OpsInv, [Next]_vars PROVE RossTypes'
  OBVIOUS
<1>1. CASE UNCHANGED vars
  BY <1>1 DEF vars, OpsInv, RossTypes
<1>2. CASE Understand
  <2>1. PICK e \in Heard : Ignore(e) \/ Accept(e)
    BY <1>2 DEF Understand, Heard
  <2>2. e \in Extract /\ setup.prompt \in Prompt
    BY HeardType DEF OpsInv, ProxyInv, Types, DataTypes
  <2> QED
    BY <2>1, <2>2, ActionType DEF Ignore, Accept, OpsInv, RossTypes
<1>3. \A what \in {"nothing", "refusal", "error", "data"} : Says(what) \in PostType
  BY DEF Says, NoPost, PostType
<1>4. CASE Refuse \/ Ask \/ GiveUp \/ Deliver
  BY <1>3, <1>4 DEF Refuse, Ask, GiveUp, Deliver, OpsInv, RossTypes
<1>5. CASE Lose
  BY <1>5 DEF Lose, NoPost, PostType, OpsInv, RossTypes
<1>6. CASE Hear
  <2>1. LatestAnswer \in PostType
    <3>1. CASE work.rows = {} \/ action.question # "latest"
      BY <1>3, <3>1 DEF LatestAnswer
    <3>2. CASE work.rows # {} /\ action.question = "latest"
      <4>1. Latest \in Row
        BY <3>2, LatestIs DEF OpsInv, ProxyInv, Types, WorkTypes, Sizes, RowsInv
      <4>2. LatestAnswer = [Says("data") EXCEPT !.mail = Latest.mail, !.at = Latest.at]
        BY <3>2 DEF LatestAnswer
      <4>3. Latest.mail \in Email /\ Latest.at \in Time \cup {0}
        BY <4>1 DEF Row
      <4> QED
        BY <1>3, <4>2, <4>3 DEF PostType
    <3> QED
      BY <3>1, <3>2
  <2>2. [LatestAnswer EXCEPT !.plain = action.full] \in PostType
    BY <2>1 DEF PostType, OpsInv, RossTypes
  <2>3. post' \in PostType
    BY <1>3, <1>6, <2>2 DEF Hear
  <2> QED
    BY <1>6, <2>3 DEF Hear, OpsInv, RossTypes
<1>7. CASE ProxyStep \/ WorldStep
  BY <1>7, OthersKeepRoss DEF OpsInv, RossTypes
<1> QED
  BY <1>1, <1>2, <1>4, <1>5, <1>6, <1>7 DEF Next, RossStep

\* Every step keeps the types and sizes.
LEMMA OpsStep == OpsInv /\ [Next]_vars => OpsInv'
<1> SUFFICES ASSUME OpsInv, [Next]_vars PROVE OpsInv'
  OBVIOUS
<1>1. action.request \in Request
  BY DEF OpsInv, RossTypes
<1> QED
  BY <1>1, ProxyKeeps, RowsStep, RossKeeps DEF OpsInv

\* They hold at first.
LEMMA OpsInit == Init => OpsInv
<1> SUFFICES ASSUME Init PROVE OpsInv
  OBVIOUS
<1>1. /\ setup \in Setups /\ redis = setup.redis /\ kube = setup.kube /\ req = NoRequest
      /\ call = "none" /\ work = NoWork /\ code = "none" /\ faults = 0
      /\ ross = "heard" /\ action = NoAction /\ post = NoPost
  BY DEF Init
<1>2. NoRequest \in Request
  BY DEF NoRequest, Request, Op, Target
<1>3. WorkTypes(NoWork) /\ NoWork.rows = {} /\ NoWork.items = <<>>
  <2>1. /\ IsWork(NoWork) /\ NoWork.rows = {} /\ NoWork.items = <<>> /\ NoWork.left = {}
        /\ NoWork.page = {} /\ NoWork.last = FALSE /\ NoWork.pages = 0 /\ NoWork.prefixes = <<>>
        /\ NoWork.key = 0 /\ NoWork.type = "none" /\ NoWork.pods = {} /\ NoWork.nodes = {}
    BY DEF NoWork, IsWork, Fields
  <2>2. "none" \in Type /\ 0 \in 0 .. MaxPages /\ <<>> \in Seq(Prefix) /\ <<>> \in Seq(Key)
    BY DEF Type
  <2> QED
    BY <2>1, <2>2 DEF WorkTypes
<1>4. Types
  BY <1>1, <1>2, <1>3, SetupFields DEF Types, DataTypes, CallName
<1>5. Calls
  BY <1>1, <1>3 DEF Calls, ScanCall, NoRequest
<1>6. Sizes
  <2>1. Limit \in Nat
    BY <1>1, <1>2, LimitIs DEF Limit, LimitOf
  <2>2. IsFiniteSet(work.rows) /\ Cardinality(work.rows) = 0 /\ Len(work.items) = 0
    <3>1. IsFiniteSet({}) /\ Cardinality({}) = 0
      BY FS_EmptySet, Zenon
    <3> QED
      BY <1>1, <1>3, <3>1
  <2> QED
    BY <1>1, <2>1, <2>2 DEF Sizes, ScanCall
<1>7. RossTypes
  BY <1>1, <1>2 DEF RossTypes, NoAction, NoPost, PostType, Question
<1>8. RowsInv
  BY <1>1, <1>3 DEF RowsInv, Single, WorkTypes
<1> QED
  BY <1>4, <1>5, <1>6, <1>7, <1>8 DEF OpsInv, ProxyInv

\* Everything stays in its type, and the proxy never gathers more rows than the
\* operation's maximum, however SCAN cuts its pages and however full a key is.
THEOREM TypeCorrect == Spec => []TypeOK
<1>1. OpsInv => TypeOK
  <2> SUFFICES ASSUME OpsInv PROVE TypeOK
    OBVIOUS
  <2>1. /\ Types /\ RossTypes /\ IsFiniteSet(work.rows)
        /\ Cardinality(work.rows) + Len(work.items) <= Limit
    BY DEF OpsInv, ProxyInv, Sizes
  <2>2. Cardinality(work.rows) + Len(work.items) <= MaxLimit[req.op]
    <3>1. Limit \in Nat /\ Limit <= MaxLimit[req.op] /\ MaxLimit[req.op] \in Nat
      BY <2>1, LimitIs DEF Types, DataTypes, Limit, LimitOf, Request
    <3>2. Cardinality(work.rows) \in Nat /\ Len(work.items) \in Nat
      BY <2>1, FS_CardinalityType DEF Types, WorkTypes
    <3> QED
      BY <2>1, <3>1, <3>2
  <2> QED
    BY <2>1, <2>2 DEF TypeOK, Types, DataTypes, WorkTypes, RossTypes, PostType, KubeState,
                      CallName, Row
<1> QED
  BY <1>1, OpsInit, OpsStep, PTL DEF Spec
-----------------------------------------------------------------------------
(***************************************************************************)
(* Nothing that was there all the time is left out of a Redis answer.      *)
(***************************************************************************)
\* What a walk has gathered of key k, and where the key is if it has not.
Got(w, k) ==
  IF req.op = "waitlist_emails"
  THEN redis[k].type \in {"string", "hash"} => redis[k].mails \subseteq Listed(w)
  ELSE k \in InSeq(w.items)

Ahead(w, k) == k \in w.left \/ k \in w.page

HasRoom(w) == Cardinality(w.rows) + Len(w.items) < Limit

Walk == req.op \in {"redis_read", "waitlist_emails"} /\ req.key = 0 /\ faults = 0

\* While there is room, every steady key of the prefixes that the walk has come
\* to is gathered, in the page at hand, or still promised by SCAN; the walk ends
\* when neither page nor promise nor prefix is left.  A steady key still has the
\* type it was read by.
Covered(w, k) == Got(w, k) \/ Ahead(w, k) \/ (call = "read" /\ k = w.key)

WalkInv ==
  /\ Walk /\ (call # "none" \/ code = "ok") /\ HasRoom(work) =>
       \A p \in SearchedPrefixes \ InSeq(Tail(work.prefixes)) :
         \A k \in Steady(p) : Covered(work, k)
  /\ Walk /\ call # "none" /\ work.last => work.left = {}
  /\ Walk /\ code = "ok" /\ HasRoom(work) =>
       work.page = {} /\ work.left = {} /\ Len(work.prefixes) = 1
  /\ call = "read" /\ req.key = 0 /\ work.key \notin setup.moving =>
       work.type = redis[work.key].type

\* The first prefix and the later ones.
LEMMA HeadAndTail ==
  ASSUME NEW S, NEW s \in Seq(S), s # <<>>
  PROVE  /\ InSeq(s) \subseteq {Head(s)} \cup InSeq(Tail(s))
         /\ Len(s) = 1 => InSeq(Tail(s)) = {}
<1>1. /\ Len(s) \in Nat /\ DOMAIN s = 1 .. Len(s) /\ Head(s) = s[1]
      /\ Len(Tail(s)) = Len(s) - 1 /\ DOMAIN Tail(s) = 1 .. Len(s) - 1
      /\ \A i \in 1 .. Len(s) - 1 : Tail(s)[i] = s[i + 1]
  OBVIOUS
<1>2. ASSUME NEW i \in DOMAIN s, i # 1 PROVE s[i] \in InSeq(Tail(s))
  <2>1. i - 1 \in DOMAIN Tail(s) /\ Tail(s)[i - 1] = s[i]
    BY <1>1, <1>2
  <2> QED
    BY <2>1 DEF InSeq
<1>3. InSeq(s) \subseteq {Head(s)} \cup InSeq(Tail(s))
  <2> SUFFICES ASSUME NEW x \in InSeq(s), x # Head(s) PROVE x \in InSeq(Tail(s))
    OBVIOUS
  <2>1. PICK i \in DOMAIN s : x = s[i]
    BY DEF InSeq
  <2> QED
    BY <1>1, <1>2, <2>1
<1>4. Len(s) = 1 => InSeq(Tail(s)) = {}
  BY <1>1 DEF InSeq
<1> QED
  BY <1>3, <1>4

\* A call that leaves the work w keeps it.
LEMMA ContinueWalks ==
  ASSUME DataTypes, NEW w, WorkTypes(w), Continue(w), w.prefixes # <<>>, IsFiniteSet(w.rows),
         code = "none",
         UNCHANGED <<redis, kube, req, setup>>,
         req.key = 0, req.op \in {"redis_read", "waitlist_emails"},
         faults' = 0 /\ HasRoom(w) =>
           \A p \in SearchedPrefixes \ InSeq(Tail(w.prefixes)) :
             \A k \in Steady(p) : Got(w, k) \/ Ahead(w, k),
         faults' = 0 /\ w.last => w.left = {}
  PROVE  WalkInv'
<1>1. /\ work'.rows = w.rows /\ work'.items = w.items
      /\ \/ /\ call' = "type" /\ UNCHANGED code /\ work' = w
         \/ /\ call' = "scan" /\ UNCHANGED code /\ work' = w
         \/ /\ call' = "scan" /\ UNCHANGED code
            /\ w.page = {} /\ w.last /\ Len(w.prefixes) > 1
            /\ work'.prefixes = Tail(w.prefixes) /\ work'.left = Steady(Head(Tail(w.prefixes)))
            /\ work'.page = {} /\ ~work'.last
         \/ /\ call' = "none" /\ code' = "ok" /\ work' = w
            /\ Full(w) \/ (w.page = {} /\ w.last /\ Len(w.prefixes) <= 1)
  BY ContinueIs
<1>2. /\ \A p : Steady(p)' = Steady(p)
      /\ SearchedPrefixes' = SearchedPrefixes /\ Limit' = Limit
      /\ \A k : Got(work, k)' = Got(w, k)
      /\ HasRoom(work)' = HasRoom(w)
  BY <1>1 DEF Steady, SearchedPrefixes, Limit, LimitOf, Got, Listed, HasRoom
<1>3. call' # "read"
  BY <1>1
<1>4. w.prefixes \in Seq(Prefix) /\ Len(w.prefixes) \in Nat /\ Len(w.prefixes) # 0
  <2>1. w.prefixes \in Seq(Prefix)
    BY DEF WorkTypes
  <2> QED
    BY <2>1
<1>5. ASSUME Walk', HasRoom(w)
      PROVE  \A p \in SearchedPrefixes \ InSeq(Tail(work'.prefixes)) :
               \A k \in Steady(p) : Got(w, k) \/ Ahead(work', k)
  <2>1. \A p \in SearchedPrefixes \ InSeq(Tail(w.prefixes)) :
          \A k \in Steady(p) : Got(w, k) \/ Ahead(w, k)
    BY <1>5 DEF Walk
  <2>2. CASE work' = w
    BY <2>1, <2>2
  <2>3. CASE /\ w.page = {} /\ w.last /\ Len(w.prefixes) > 1
             /\ work'.prefixes = Tail(w.prefixes) /\ work'.left = Steady(Head(Tail(w.prefixes)))
    <3>1. w.left = {}
      BY <1>5, <2>3 DEF Walk
    <3>2. PICK rest \in Seq(Prefix) : rest = Tail(w.prefixes) /\ rest # <<>>
      BY <1>4, <2>3, TailIs
    <3>3. InSeq(rest) \subseteq {Head(rest)} \cup InSeq(Tail(rest))
      BY <3>2, HeadAndTail
    <3>4. ASSUME NEW p \in SearchedPrefixes \ InSeq(Tail(rest)), NEW k \in Steady(p)
          PROVE  Got(w, k) \/ k \in work'.left
      <4>1. CASE p = Head(rest)
        BY <2>3, <3>2, <4>1
      <4>2. CASE p \notin InSeq(rest)
        BY <2>1, <2>3, <3>1, <3>2, <4>2 DEF Ahead
      <4> QED
        BY <3>3, <4>1, <4>2
    <3> QED
      BY <2>3, <3>2, <3>4 DEF Ahead
  <2> QED
    BY <1>1, <2>2, <2>3
<1>6. ASSUME Walk', call' # "none", work'.last PROVE work'.left = {}
  BY <1>1, <1>6 DEF Walk
<1>7. ASSUME Walk', code' = "ok", HasRoom(w)
      PROVE  work'.page = {} /\ work'.left = {} /\ Len(work'.prefixes) = 1
  <2>1. work' = w /\ (Full(w) \/ (w.page = {} /\ w.last /\ Len(w.prefixes) <= 1))
    BY <1>1, <1>7
  <2>2. ~Full(w)
    <3>1. Limit \in Nat /\ Cardinality(w.rows) + Len(w.items) < Limit
      BY <1>7, LimitIs DEF HasRoom, Limit, LimitOf, DataTypes
    <3>2. Len(w.items) \in Nat /\ Cardinality(w.rows) \in Nat
      BY FS_CardinalityType DEF WorkTypes
    <3> QED
      BY <3>1, <3>2 DEF Full
  <2>3. w.page = {} /\ w.last /\ Len(w.prefixes) <= 1
    BY <2>1, <2>2
  <2>4. Len(w.prefixes) = 1
    <3>1. PICK n \in Nat : n = Len(w.prefixes)
      BY <1>4
    <3>2. n # 0 /\ n <= 1
      BY <1>4, <2>3, <3>1, Zenon
    <3>3. n = 1
      BY <3>2
    <3> QED
      BY <3>1, <3>3
  <2>5. w.left = {}
    BY <1>7, <2>3 DEF Walk
  <2> QED
    BY <2>1, <2>3, <2>4, <2>5
<1>8. \A k : Ahead(work', k) => Ahead(work, k)'
  BY DEF Ahead
<1> QED
  BY <1>2, <1>3, <1>5, <1>6, <1>7, <1>8 DEF WalkInv, Covered

\* What every call of a walk may rely on.
LEMMA WalkIs ==
  ASSUME ProxyInv, WalkInv, ScanCall
  PROVE  /\ Types /\ DataTypes /\ code = "none" /\ req.key = 0 /\ HasRoom(work)
         /\ req.op \in {"redis_read", "waitlist_emails"} /\ work.prefixes # <<>>
         /\ IsFiniteSet(work.rows) /\ Cardinality(work.rows) <= Limit
         /\ faults = 0 =>
              /\ \A p \in SearchedPrefixes \ InSeq(Tail(work.prefixes)) :
                   \A k \in Steady(p) : Covered(work, k)
              /\ work.last => work.left = {}
<1>1. /\ Types /\ DataTypes /\ code = "none" /\ req.key = 0 /\ call # "none"
      /\ req.op \in {"redis_read", "waitlist_emails"} /\ work.prefixes # <<>>
      /\ IsFiniteSet(work.rows) /\ Cardinality(work.rows) + Len(work.items) < Limit
  BY DEF ProxyInv, Types, Calls, Sizes, ScanCall
<1>2. HasRoom(work)
  BY <1>1 DEF HasRoom
<1>3. Cardinality(work.rows) <= Limit
  <2>1. Cardinality(work.rows) \in Nat /\ Len(work.items) \in Nat /\ Limit \in Nat
    BY <1>1, LimitIs, FS_CardinalityType DEF Types, WorkTypes, DataTypes, Limit, LimitOf
  <2> QED
    BY <1>1, <2>1
<1> QED
  BY <1>1, <1>2, <1>3 DEF WalkInv, Walk

\* A page of SCAN leaves out no key that stays: it is read or still to come.
LEMMA ScanWalks ==
  ASSUME ProxyInv, WalkInv, NEW page \in SUBSET Key, NEW last \in BOOLEAN, Scan(page, last),
         UNCHANGED faults
  PROVE  WalkInv'
<1>1. ScanCall /\ call = "scan" /\ work.page = {}
  BY DEF ProxyInv, Calls, Scan, ScanCall
<1>2. /\ Types /\ DataTypes /\ code = "none" /\ req.key = 0 /\ HasRoom(work)
      /\ req.op \in {"redis_read", "waitlist_emails"} /\ work.prefixes # <<>>
      /\ IsFiniteSet(work.rows)
      /\ faults = 0 =>
           /\ \A p \in SearchedPrefixes \ InSeq(Tail(work.prefixes)) :
                \A k \in Steady(p) : Covered(work, k)
           /\ work.last => work.left = {}
  BY <1>1, WalkIs
<1>3. PICK w : w = Scanned(page, last)
  OBVIOUS
<1>4. /\ Continue(w) /\ UNCHANGED <<redis, kube, req, setup>>
      /\ (last => work.left \subseteq page)
  BY <1>3 DEF Scan, Scanned
<1>5. /\ WorkTypes(w) /\ w.rows = work.rows /\ w.items = work.items
      /\ w.prefixes = work.prefixes /\ w.left = work.left \ page /\ w.page = page /\ w.last = last
  <2>1. work.pages \in 0 .. MaxPages /\ work.pages < MaxPages
    BY <1>2 DEF Types, WorkTypes, Scan
  <2>2. work.pages + 1 \in 0 .. MaxPages
    BY <2>1
  <2> QED
    BY <1>2, <1>3, <2>2 DEF Types, WorkTypes, IsWork, Fields, Scanned
<1>6. ASSUME faults' = 0, NEW p \in SearchedPrefixes \ InSeq(Tail(w.prefixes)), NEW k \in Steady(p)
      PROVE  Got(w, k) \/ Ahead(w, k)
  <2>1. Covered(work, k)
    BY <1>2, <1>5, <1>6
  <2> QED
    BY <1>1, <1>5, <2>1 DEF Covered, Ahead, Got, Listed
<1>7. w.last => w.left = {}
  BY <1>4, <1>5
<1> QED
  BY <1>2, <1>4, <1>5, <1>6, <1>7, ContinueWalks

\* A key that leaves the page is listed, counted or about to be read.
LEMMA ReadTypeWalks ==
  ASSUME ProxyInv, WalkInv, NEW k \in work.page, ReadType(k), UNCHANGED faults
  PROVE  WalkInv'
<1>1. /\ ScanCall /\ call = "type" /\ call' = "read" /\ code' = "none"
      /\ work' = [work EXCEPT !.page = @ \ {k}, !.key = k, !.type = redis[k].type]
      /\ UNCHANGED <<redis, kube, req, setup>>
  BY DEF ProxyInv, Calls, ReadType, ScanCall
<1>2. /\ Types /\ HasRoom(work)
      /\ faults = 0 =>
           /\ \A p \in SearchedPrefixes \ InSeq(Tail(work.prefixes)) :
                \A j \in Steady(p) : Covered(work, j)
           /\ work.last => work.left = {}
  BY <1>1, WalkIs
<1>3. /\ work'.rows = work.rows /\ work'.items = work.items /\ work'.prefixes = work.prefixes
      /\ work'.left = work.left /\ work'.page = work.page \ {k} /\ work'.last = work.last
      /\ work'.key = k /\ work'.type = redis[k].type
  BY <1>1, <1>2 DEF Types, WorkTypes, IsWork, Fields
<1>4. /\ \A p : Steady(p)' = Steady(p)
      /\ SearchedPrefixes' = SearchedPrefixes
      /\ \A j : Got(work, j)' = Got(work, j)
  BY <1>1, <1>3 DEF Steady, SearchedPrefixes, Got, Listed
<1>5. ASSUME faults = 0, NEW p \in SearchedPrefixes \ InSeq(Tail(work.prefixes)), NEW j \in Steady(p)
      PROVE  Got(work, j) \/ j \in work'.left \/ j \in work'.page \/ j = k
  <2>1. Covered(work, j)
    BY <1>2, <1>5
  <2> QED
    BY <1>1, <1>3, <2>1 DEF Covered, Ahead
<1>6. \A j : j \in work'.left \/ j \in work'.page => Ahead(work, j)'
  BY DEF Ahead
<1> QED
  BY <1>1, <1>2, <1>3, <1>4, <1>5, <1>6 DEF WalkInv, Walk, Covered

\* A key that was read is gathered, unless there was no room for all of it.
LEMMA ReadValueWalks ==
  ASSUME ProxyInv, WalkInv, ReadValue, UNCHANGED faults
  PROVE  WalkInv'
<1>1. /\ call = "read" /\ work.key \in Key /\ UNCHANGED <<redis, kube, req, setup, faults>>
      /\ req.op \in {"redis_read", "waitlist_emails"}
      /\ req.op = "waitlist_emails" => req.key = 0
      /\ work.items # <<>> => req.op = "redis_read"
  BY DEF ProxyInv, Calls, ReadValue
<1>2. CASE req.key # 0
  <2>1. call' = "none" /\ code' = "ok" /\ UNCHANGED req
    BY <1>1, <1>2 DEF ReadValue, Answer
  <2> QED
    BY <1>2, <2>1 DEF WalkInv, Walk
<1>3. CASE req.key = 0
  <2>1. /\ Types /\ DataTypes /\ code = "none" /\ HasRoom(work) /\ work.prefixes # <<>>
        /\ IsFiniteSet(work.rows) /\ Cardinality(work.rows) <= Limit
        /\ faults = 0 =>
             /\ \A p \in SearchedPrefixes \ InSeq(Tail(work.prefixes)) :
                  \A k \in Steady(p) : Covered(work, k)
             /\ work.last => work.left = {}
    BY <1>1, <1>3, WalkIs DEF ScanCall
  <2>2. \A p : \A k \in Steady(p) : k \notin setup.moving
    BY DEF Steady
  <2>3. work.key \notin setup.moving => work.type = redis[work.key].type
    BY <1>1, <1>3 DEF WalkInv
  <2>4. CASE req.op = "waitlist_emails"
    <3>1. PICK rows \in NewRows : Continue(WithRows(rows))
      BY <2>4 DEF ReadValue, WithRows
    <3>2. /\ rows \in SUBSET Row /\ IsFiniteSet(work.rows \cup rows)
          /\ Cardinality(work.rows \cup rows) < Limit =>
               \A m \in ReadMails : \E row \in work.rows \cup rows : row.mail = m
      BY <1>1, <2>1, NewRowsIs
    <3>3. PICK w : w = WithRows(rows)
      OBVIOUS
    <3>4. /\ WorkTypes(w) /\ w.rows = work.rows \cup rows /\ w.items = <<>>
          /\ w.prefixes = work.prefixes /\ w.left = work.left
          /\ w.page = work.page /\ w.last = work.last /\ Continue(w)
      BY <1>1, <2>1, <2>4, <3>1, <3>2, <3>3, RowsAre
    <3>5. ASSUME faults' = 0, HasRoom(w),
                 NEW p \in SearchedPrefixes \ InSeq(Tail(w.prefixes)), NEW k \in Steady(p)
          PROVE  Got(w, k) \/ Ahead(w, k)
      <4>1. Covered(work, k)
        BY <1>1, <2>1, <3>4, <3>5
      <4>2. CASE Ahead(work, k)
        BY <3>4, <4>2 DEF Ahead
      <4>3. CASE Got(work, k)
        BY <2>4, <3>4, <4>3 DEF Got, Listed
      <4>4. CASE k = work.key
        <5>1. Cardinality(work.rows \cup rows) < Limit
          <6>1. Cardinality(w.rows) + Len(w.items) < Limit /\ Len(w.items) = 0
            BY <3>4, <3>5 DEF HasRoom
          <6>2. Cardinality(w.rows) \in Nat /\ Limit \in Nat
            BY <2>1, <3>2, <3>4, FS_CardinalityType, LimitIs DEF DataTypes, Limit, LimitOf
          <6>3. Cardinality(w.rows) < Limit
            BY <6>1, <6>2
          <6> QED
            BY <3>4, <6>3
        <5>2. \A m \in ReadMails : m \in Listed(w)
          BY <3>2, <3>4, <5>1 DEF Listed
        <5>3. work.type = redis[k].type
          BY <2>2, <2>3, <4>4
        <5>4. redis[k].type \in {"string", "hash"} => ReadMails = redis[k].mails
          BY <4>4, <5>3 DEF ReadMails
        <5> QED
          BY <2>4, <5>2, <5>4 DEF Got
      <4> QED
        BY <4>1, <4>2, <4>3, <4>4 DEF Covered
    <3>6. faults' = 0 /\ w.last => w.left = {}
      BY <1>1, <2>1, <3>4
    <3> QED
      BY <1>1, <1>3, <2>1, <3>2, <3>4, <3>5, <3>6, ContinueWalks
  <2>5. CASE req.op = "redis_read"
    <3>1. PICK w : w = WithItem
      OBVIOUS
    <3>2. /\ WorkTypes(w) /\ w.rows = work.rows /\ w.items = Append(work.items, work.key)
          /\ w.prefixes = work.prefixes /\ w.left = work.left
          /\ w.page = work.page /\ w.last = work.last
      BY <1>1, <2>1, <3>1, ItemIs
    <3>3. Continue(w)
      BY <1>3, <2>5, <3>1 DEF ReadValue, WithItem
    <3>4. InSeq(work.items) \cup {work.key} \subseteq InSeq(w.items)
      <4>1. PICK items \in Seq(Key), key \in Key : items = work.items /\ key = work.key
        BY <1>1, <2>1 DEF Types, WorkTypes
      <4>2. InSeq(items) \cup {key} \subseteq InSeq(Append(items, key))
        <5>1. /\ Len(items) \in Nat /\ Len(Append(items, key)) = Len(items) + 1
              /\ DOMAIN Append(items, key) = 1 .. Len(items) + 1 /\ DOMAIN items = 1 .. Len(items)
              /\ \A i \in 1 .. Len(items) : Append(items, key)[i] = items[i]
              /\ Append(items, key)[Len(items) + 1] = key
          OBVIOUS
        <5>2. /\ \A i \in DOMAIN items : i \in DOMAIN Append(items, key)
              /\ Len(items) + 1 \in DOMAIN Append(items, key)
          BY <5>1
        <5> QED
          BY <5>1, <5>2 DEF InSeq
      <4> QED
        BY <3>2, <4>1, <4>2
    <3>5. ASSUME faults' = 0, HasRoom(w),
                 NEW p \in SearchedPrefixes \ InSeq(Tail(w.prefixes)), NEW k \in Steady(p)
          PROVE  Got(w, k) \/ Ahead(w, k)
      <4>1. Covered(work, k)
        BY <1>1, <2>1, <3>2, <3>5
      <4>2. CASE Ahead(work, k)
        BY <3>2, <4>2 DEF Ahead
      <4>3. CASE Got(work, k) \/ k = work.key
        BY <2>5, <3>4, <4>3 DEF Got
      <4> QED
        BY <4>1, <4>2, <4>3 DEF Covered
    <3>6. faults' = 0 /\ w.last => w.left = {}
      BY <1>1, <2>1, <3>2
    <3> QED
      BY <1>1, <1>3, <2>1, <3>2, <3>3, <3>5, <3>6, ContinueWalks
  <2> QED
    BY <1>1, <2>4, <2>5
<1> QED
  BY <1>2, <1>3

\* A key that can not be read although nothing failed is not a steady one.
LEMMA ReadFailsWalks ==
  ASSUME ProxyInv, WalkInv, ReadFails
  PROVE  WalkInv'
<1>1. call = "read" /\ UNCHANGED <<redis, kube, req, setup>> /\ faults \in Nat
  BY DEF ProxyInv, Types, DataTypes, ReadFails
<1>2. CASE req.key # 0
  BY <1>1, <1>2 DEF ReadFails, WalkInv, Walk, Answer
<1>3. CASE req.key = 0
  <2>1. /\ Types /\ DataTypes /\ code = "none" /\ HasRoom(work) /\ work.prefixes # <<>>
        /\ IsFiniteSet(work.rows) /\ req.op \in {"redis_read", "waitlist_emails"}
        /\ faults = 0 =>
             /\ \A p \in SearchedPrefixes \ InSeq(Tail(work.prefixes)) :
                  \A k \in Steady(p) : Covered(work, k)
             /\ work.last => work.left = {}
    BY <1>1, <1>3, WalkIs DEF ScanCall
  <2>2. WorkTypes(work) /\ Continue(work)
    BY <1>3, <2>1 DEF ReadFails, Types
  <2>3. faults' = 0 => faults = 0 /\ ~Readable
    BY <1>1 DEF ReadFails, Fault
  <2>4. ASSUME faults' = 0, NEW p \in SearchedPrefixes \ InSeq(Tail(work.prefixes)), NEW k \in Steady(p)
        PROVE  Got(work, k) \/ Ahead(work, k)
    <3>1. Covered(work, k)
      BY <2>1, <2>3, <2>4
    <3>2. k # work.key
      <4>1. ~Readable
        BY <2>3, <2>4
      <4>2. work.key \notin setup.moving => Readable
        BY <1>1, <1>3 DEF WalkInv, Readable
      <4> QED
        BY <4>1, <4>2 DEF Steady
    <3> QED
      BY <3>1, <3>2 DEF Covered
  <2>5. faults' = 0 /\ work.last => work.left = {}
    BY <2>1, <2>3
  <2> QED
    BY <1>1, <1>3, <2>1, <2>2, <2>4, <2>5, ContinueWalks
<1> QED
  BY <1>2, <1>3

\* What moves was never promised.
LEMMA SteadySame ==
  ASSUME ProxyInv, World
  PROVE  /\ \A k \in Key \ setup.moving : redis'[k] = redis[k]
         /\ \A p \in Prefix : Steady(p)' = Steady(p)
         /\ UNCHANGED <<req, call, work, code, faults, setup>> /\ call # "none"
         /\ UNCHANGED redis \/ req.op \in {"redis_read", "waitlist_emails"}
<1>1. /\ UNCHANGED <<req, call, work, code, faults, setup>>
      /\ redis \in [Key -> Value] /\ setup.moving \subseteq Key /\ call # "none"
      /\ UNCHANGED redis \/ req.op \in {"redis_read", "waitlist_emails"}
  BY SetupFields DEF World, SignUp, Reschedule, Scale, ProxyInv, Types, DataTypes
<1>2. UNCHANGED redis \/ \E k \in setup.moving : \E v : redis' = [redis EXCEPT ![k] = v]
  BY DEF World, SignUp, Reschedule, Scale
<1>3. \A k \in Key \ setup.moving : redis'[k] = redis[k]
  BY <1>1, <1>2
<1>4. \A p \in Prefix : Under[p] \subseteq Key
  OBVIOUS
<1>5. \A p \in Prefix : Steady(p)' = Steady(p)
  BY <1>1, <1>3, <1>4 DEF Steady
<1> QED
  BY <1>1, <1>3, <1>5

\* The data moves, and the keys that stay do not.
LEMMA WorldWalks ==
  ASSUME ProxyInv, WalkInv, World
  PROVE  WalkInv'
<1>1. /\ \A p \in Prefix : Steady(p)' = Steady(p)
      /\ \A k \in Key \ setup.moving : redis'[k] = redis[k]
      /\ UNCHANGED <<req, call, work, code, faults, setup>>
  BY SteadySame
<1>2. CASE UNCHANGED redis
  BY <1>1, <1>2 DEF WalkInv, Walk, HasRoom, SearchedPrefixes, Steady, Covered, Got, Ahead, Listed,
                    Limit, LimitOf
<1>3. CASE req.op \in {"redis_read", "waitlist_emails"}
  <2>1. call \in {"scan", "type", "read"} /\ code = "none" /\ (call = "read" => work.key \in Key)
    <3>1. call # "none" /\ call \in CallName
      BY SteadySame DEF ProxyInv, Types, DataTypes
    <3> QED
      BY <1>3, <3>1 DEF ProxyInv, Calls, CallName
  <2>2. req.key = 0 => SearchedPrefixes \subseteq Prefix
    BY <2>1 DEF ProxyInv, Calls, ScanCall
  <2>3. \A p \in Prefix : \A k \in Steady(p) : k \in Key \ setup.moving
    <3>1. \A p \in Prefix : Under[p] \subseteq Key
      OBVIOUS
    <3> QED
      BY <3>1 DEF Steady
  <2>4. ASSUME NEW p \in Prefix, NEW k \in Steady(p) PROVE Covered(work, k)' <=> Covered(work, k)
    <3>1. redis'[k] = redis[k]
      BY <1>1, <2>3
    <3> QED
      BY <1>1, <3>1 DEF Covered, Got, Ahead, Listed
  <2>5. /\ SearchedPrefixes' = SearchedPrefixes /\ HasRoom(work)' = HasRoom(work) /\ Walk' = Walk
    BY <1>1 DEF SearchedPrefixes, HasRoom, Walk, Limit, LimitOf
  <2>6. ASSUME Walk, HasRoom(work), NEW p \in SearchedPrefixes \ InSeq(Tail(work.prefixes)),
               NEW k \in Steady(p)'
        PROVE  Covered(work, k)'
    <3>1. p \in Prefix /\ k \in Steady(p)
      BY <1>1, <2>2, <2>6 DEF Walk
    <3>2. Covered(work, k)
      BY <2>1, <2>6, <3>1 DEF WalkInv
    <3> QED
      BY <2>4, <3>1, <3>2
  <2>7. call = "read" /\ req.key = 0 /\ work.key \notin setup.moving =>
          work.type = redis'[work.key].type
    BY <1>1, <2>1 DEF WalkInv
  <2>8. Walk /\ work.last => work.left = {}
    BY <2>1 DEF WalkInv
  <2> QED
    BY <1>1, <2>1, <2>5, <2>6, <2>7, <2>8 DEF WalkInv
<1> QED
  BY <1>2, <1>3, SteadySame

\* A walk starts with every steady key of its first prefix promised.
LEMMA ServeWalks ==
  ASSUME ProxyInv, NEW r \in Request, r.op = "waitlist_emails" => r.key = 0, Serve(r)
  PROVE  WalkInv'
<1>1. /\ call = "none" /\ code = "none" /\ req' = r /\ work = NoWork /\ Types
      /\ UNCHANGED <<redis, kube, setup>>
  BY DEF ProxyInv, Calls, Serve
<1>2. CASE Accepts(r)
  <2>1. call' = FirstCall(r) /\ work' = FirstWork(r) /\ code' = "none"
    BY <1>1, <1>2 DEF Serve
  <2>2. CASE /\ call' = "scan" /\ r.op \in {"redis_read", "waitlist_emails"} /\ r.key = 0
             /\ ~work'.last
             /\ work'.prefixes = IF r.op = "waitlist_emails" THEN Waitlist ELSE <<r.prefix>>
             /\ work'.left = Steady(Head(work'.prefixes))
    <3>1. PICK prefixes : prefixes = work'.prefixes
      OBVIOUS
    <3>2. SearchedPrefixes' \subseteq {Head(prefixes)} \cup InSeq(Tail(prefixes))
      <4>1. CASE r.op = "waitlist_emails"
        <5>1. InSeq(Waitlist) \subseteq {Head(Waitlist)} \cup InSeq(Tail(Waitlist))
          BY HeadAndTail
        <5> QED
          BY <1>1, <2>2, <3>1, <4>1, <5>1 DEF SearchedPrefixes
      <4>2. CASE r.op = "redis_read"
        <5>1. prefixes = <<r.prefix>> /\ SearchedPrefixes' = {r.prefix}
          BY <1>1, <2>2, <3>1, <4>2 DEF SearchedPrefixes
        <5>2. Head(<<r.prefix>>) = r.prefix
          OBVIOUS
        <5> QED
          BY <5>1, <5>2
      <4> QED
        BY <2>2, <4>1, <4>2
    <3>3. \A p : Steady(p)' = Steady(p)
      BY <1>1 DEF Steady
    <3>4. ASSUME NEW p \in SearchedPrefixes' \ InSeq(Tail(work'.prefixes)), NEW k \in Steady(p)'
          PROVE  Covered(work, k)'
      <4>1. p = Head(prefixes)
        BY <3>1, <3>2, <3>4
      <4>2. k \in work'.left
        BY <2>2, <3>1, <3>3, <3>4, <4>1
      <4> QED
        BY <4>2 DEF Covered, Ahead
    <3> QED
      BY <1>1, <2>1, <2>2, <3>4 DEF WalkInv
  <2>3. CASE call' = "read" /\ r.key # 0
    BY <1>1, <2>1, <2>3 DEF WalkInv, Walk
  <2>4. CASE call' # "read" /\ r.op \notin {"redis_read", "waitlist_emails"}
    BY <1>1, <2>1, <2>4 DEF WalkInv, Walk
  <2> QED
    BY <1>1, <1>2, <2>1, <2>2, <2>3, <2>4, FirstIs
<1>3. CASE ~Accepts(r)
  BY <1>1, <1>3 DEF Serve, WalkInv
<1> QED
  BY <1>2, <1>3

\* Where the calls to Kubernetes leave the request alone.
LEMMA KubeCalls ==
  ASSUME ProxyInv,
         \/ ListDeployments \/ GetDeployment \/ GetPod \/ PodsOf \/ PodsOfIgnored
         \/ ListNodes \/ ListPods \/ Stream \/ \E live \in BOOLEAN : Usage(live)
  PROVE  /\ UNCHANGED <<redis, kube, req, setup>> /\ req.op \notin {"redis_read", "waitlist_emails"}
         /\ call' \notin {"scan", "type", "read"}
<1>1. /\ UNCHANGED <<redis, kube, req, setup>>
      /\ call' \in {"none", "list_pods", "pods_of", "stream", "usage"}
  BY DEF ListDeployments, GetDeployment, GetPod, PodsOf,
         PodsOfIgnored, ListNodes, ListPods, Stream, Usage, Read, Done, Fails, Answer
<1>2. call \in {"list_deployments", "get_deployment", "get_pod", "pods_of", "list_nodes",
                "list_pods", "stream", "usage"}
  BY DEF ListDeployments, GetDeployment, GetPod, PodsOf,
         PodsOfIgnored, ListNodes, ListPods, Stream, Usage
<1>3. req.op \notin {"redis_read", "waitlist_emails"}
  BY <1>2 DEF ProxyInv, Calls
<1> QED
  BY <1>1, <1>3

\* Every step keeps account of the keys.
LEMMA WalkStep == OpsInv /\ WalkInv /\ [Next]_vars => WalkInv'
<1> SUFFICES ASSUME OpsInv, WalkInv, [Next]_vars PROVE WalkInv'
  OBVIOUS
<1>0. ProxyInv /\ faults \in Nat /\ action.request \in Request
  BY DEF OpsInv, RossTypes, ProxyInv, Types, DataTypes
<1>1. ASSUME UNCHANGED <<redis, req, call, work, code, setup>>, faults' = 0 => faults = 0
      PROVE  WalkInv'
  BY <1>1 DEF WalkInv, Walk, HasRoom, SearchedPrefixes, Steady, Covered, Got, Ahead, Listed,
              Limit, LimitOf
<1>2. ASSUME NEW kind, Fault(kind) PROVE faults' # 0
  BY <1>0, <1>2 DEF Fault
<1>3. CASE UNCHANGED vars
  BY <1>1, <1>3 DEF vars
<1>4. CASE RossStep
  <2>1. CASE Ask
    BY <1>0, <2>1, RequestedType, ServeWalks DEF Ask
  <2>2. CASE GiveUp
    BY <1>2, <2>2 DEF GiveUp, Answer, WalkInv, Walk
  <2>3. CASE Understand \/ Refuse \/ Hear \/ Deliver \/ Lose
    BY <1>1, <1>2, <2>3 DEF Understand, Ignore, Accept, Refuse, Hear, Deliver, Lose
  <2> QED
    BY <1>4, <2>1, <2>2, <2>3 DEF RossStep
<1>5. CASE WorldStep
  BY <1>0, <1>5, WorldWalks DEF WorldStep
<1>6. CASE ProxyStep
  <2>1. CASE CallFails
    BY <1>2, <2>1 DEF CallFails, Answer, WalkInv, Walk
  <2>2. CASE \/ ListDeployments \/ GetDeployment \/ GetPod \/ PodsOf \/ PodsOfIgnored
             \/ ListNodes \/ ListPods \/ Stream \/ \E live \in BOOLEAN : Usage(live)
    BY <1>0, <2>2, KubeCalls DEF WalkInv, Walk
  <2> QED
    BY <1>0, <1>6, <2>1, <2>2, ScanWalks, ReadTypeWalks, ReadValueWalks, ReadFailsWalks
    DEF ProxyStep, ProxyCall
<1> QED
  BY <1>3, <1>4, <1>5, <1>6 DEF Next

\* Before the walk there is nothing to account for.
LEMMA WalkInit == Init => WalkInv
  BY DEF Init, WalkInv

\* A Redis answer shorter than its limit holds every key, and of the waitlist
\* every address, that was there all the time, however SCAN cuts its pages,
\* repeats keys or returns empty pages, and whatever else comes and goes.
THEOREM NothingMissed == Spec => []NothingLeftOut
<1>2. OpsInv /\ WalkInv => NothingLeftOut
  <2> SUFFICES ASSUME OpsInv, WalkInv, code = "ok", faults = 0 PROVE NothingLeftOut
    BY DEF NothingLeftOut
  <2>1. /\ Types /\ IsFiniteSet(work.rows) /\ call = "none"
        /\ work.rows # {} => req.op = "waitlist_emails"
        /\ work.items # <<>> => req.op = "redis_read"
        /\ req.op = "waitlist_emails" => req.key = 0
    BY DEF OpsInv, ProxyInv, Calls, Sizes
  <2>2. Cardinality(work.rows) \in Nat /\ Len(work.items) \in Nat /\ Limit \in Nat
    BY <2>1, FS_CardinalityType, LimitIs DEF Types, DataTypes, WorkTypes, Limit, LimitOf
  <2>3. work.rows = {} => Cardinality(work.rows) = 0
    BY FS_EmptySet, Zenon
  <2>4. work.items = <<>> => Len(work.items) = 0
    OBVIOUS
  <2>5. ASSUME Walk, HasRoom(work), NEW k \in SteadyKeys PROVE Got(work, k)
    <3>1. PICK p \in SearchedPrefixes : k \in Steady(p)
      BY <2>5 DEF SteadyKeys
    <3>2. work.page = {} /\ work.left = {} /\ Len(work.prefixes) = 1
      BY <2>5 DEF WalkInv
    <3>3. PICK s \in Seq(Prefix) : s = work.prefixes /\ Len(s) = 1
      BY <2>1, <3>2 DEF Types, WorkTypes
    <3>4. InSeq(Tail(s)) = {}
      <4>1. s # <<>>
        <5>1. Len(<<>>) = 0 /\ 0 # 1
          OBVIOUS
        <5> QED
          BY <3>3, <5>1, Zenon
      <4> QED
        BY <3>3, <4>1, HeadAndTail
    <3>5. Covered(work, k)
      BY <2>5, <3>1, <3>3, <3>4 DEF WalkInv
    <3> QED
      BY <2>1, <3>2, <3>5 DEF Covered, Ahead
  <2>6. ASSUME req.op = "waitlist_emails", Cardinality(work.rows) < Limit PROVE Walk /\ HasRoom(work)
    BY <2>1, <2>2, <2>4, <2>6 DEF Walk, HasRoom
  <2>7. ASSUME req.op = "redis_read", req.key = 0, Len(work.items) < Limit PROVE Walk /\ HasRoom(work)
    BY <2>1, <2>2, <2>3, <2>7 DEF Walk, HasRoom
  <2> QED
    BY <2>5, <2>6, <2>7 DEF NothingLeftOut, Got
<1> QED
  BY <1>2, WalkInit, OpsInit, OpsStep, WalkStep, PTL DEF Spec
-----------------------------------------------------------------------------
(***************************************************************************)
(* The latest signup is the newest one.                                    *)
(***************************************************************************)
\* The time of a key that does not move, of a row that was read from it.
Timed(row) ==
  row.key \notin setup.moving /\ redis[row.key].type = "hash"
    /\ Cardinality(redis[row.key].mails) = 1 => row.at = redis[row.key].at

TimesInv == \A row \in work.rows : Timed(row)

\* A post with a time tells that of the first row of a complete answer.
PostInv ==
  post.at # 0 =>
    /\ code = "ok" /\ req.op = "waitlist_emails"
    /\ work.rows # {} /\ post.at = Latest.at

\* A request that has been answered stays as it is.
LEMMA AnsweredStays ==
  ASSUME ProxyInv, code = "ok", [Next]_vars
  PROVE  UNCHANGED <<redis, kube, req, call, work, code, setup>>
<1>1. call = "none"
  BY DEF ProxyInv, Calls
<1>2. CASE UNCHANGED vars
  BY <1>2 DEF vars
<1>3. CASE RossStep
  <2>1. ~Ask /\ ~GiveUp
    BY DEF Ask, Serve, GiveUp
  <2> QED
    BY <1>3, <2>1 DEF RossStep, Understand, Ignore, Accept, Refuse, Hear, Deliver, Lose
<1>4. ~WorldStep
  BY <1>1, SteadySame DEF WorldStep
<1>5. ~ProxyStep
  <2>1. /\ \A page, last : ~Scan(page, last)
        /\ \A k : ~ReadType(k)
        /\ \A live : ~Usage(live)
    BY <1>1 DEF Scan, ReadType, Usage
  <2>2. ~ReadValue /\ ~ReadFails /\ ~CallFails
    BY <1>1 DEF ReadValue, ReadFails, CallFails
  <2>3. /\ ~ListDeployments /\ ~GetDeployment /\ ~GetPod /\ ~PodsOf /\ ~PodsOfIgnored
        /\ ~ListNodes /\ ~ListPods /\ ~Stream
    BY <1>1 DEF ListDeployments, GetDeployment, GetPod, PodsOf, PodsOfIgnored, ListNodes,
                ListPods, Stream
  <2> QED
    BY <2>1, <2>2, <2>3 DEF ProxyStep, ProxyCall
<1> QED
  BY <1>2, <1>3, <1>4, <1>5 DEF Next

\* The setup never changes, and neither does a key that does not move.
LEMMA DataSame ==
  ASSUME ProxyInv, [Next]_vars
  PROVE  UNCHANGED setup /\ \A k \in Key \ setup.moving : redis'[k] = redis[k]
<1>1. CASE UNCHANGED vars
  BY <1>1 DEF vars
<1>2. CASE RossStep
  BY <1>2 DEF RossStep, Understand, Ignore, Accept, Refuse, Ask, Serve, Hear, GiveUp, Deliver, Lose
<1>3. CASE WorldStep
  BY <1>3, SteadySame DEF WorldStep
<1>4. CASE ProxyStep
  <2>1. CASE \/ ListDeployments \/ GetDeployment \/ GetPod \/ PodsOf \/ PodsOfIgnored
             \/ ListNodes \/ ListPods \/ Stream \/ \E live \in BOOLEAN : Usage(live)
    BY <2>1, KubeCalls
  <2>2. CASE \/ \E page \in SUBSET Key, last \in BOOLEAN : Scan(page, last)
             \/ \E k \in work.page : ReadType(k)
             \/ ReadValue \/ ReadFails \/ CallFails
    BY <2>2 DEF Scan, ReadType, ReadValue, ReadFails, CallFails
  <2> QED
    BY <1>4, <2>1, <2>2 DEF ProxyStep, ProxyCall
<1> QED
  BY <1>1, <1>2, <1>3, <1>4 DEF Next

\* Where a row comes from.
LEMMA RowFrom ==
  ASSUME ProxyInv, action.request \in Request, [Next]_vars, NEW row \in work'.rows
  PROVE  \/ row \in work.rows
         \/ /\ call = "read" /\ req.key = 0 /\ work.key \in Key
            /\ row.key = work.key /\ row.at = ReadAt
<1>0. Types /\ faults \in Nat /\ DataTypes
  BY DEF ProxyInv, Types, DataTypes
<1>1. CASE UNCHANGED work
  BY <1>1
<1>2. CASE RossStep
  <2>1. CASE Ask
    <3>1. PICK r \in Request : /\ Serve(r) /\ (r.op = "waitlist_emails" => r.key = 0)
      BY <2>1, RequestedType DEF Ask
    <3>2. UNCHANGED work \/ (work = NoWork /\ Accepts(r) /\ work' = FirstWork(r))
      BY <3>1 DEF Serve, ProxyInv, Calls
    <3>3. UNCHANGED work \/ work'.rows = {}
      BY <1>0, <3>1, <3>2, FirstIs
    <3> QED
      BY <3>3
  <2>2. CASE Understand \/ Refuse \/ Hear \/ GiveUp \/ Deliver \/ Lose
    BY <1>1, <2>2 DEF Understand, Ignore, Accept, Refuse, Hear, GiveUp, Deliver, Lose
  <2> QED
    BY <1>2, <2>1, <2>2 DEF RossStep
<1>3. CASE WorldStep
  BY <1>1, <1>3, SteadySame DEF WorldStep
<1>4. CASE ProxyStep
  <2>1. CASE \/ ListDeployments \/ GetDeployment \/ GetPod \/ PodsOf \/ PodsOfIgnored
             \/ ListNodes \/ ListPods \/ Stream \/ \E live \in BOOLEAN : Usage(live)
    <3>1. UNCHANGED faults \/ \E kind : Fault(kind)
      BY <1>4, <2>1 DEF ProxyStep, ProxyCall, PodsOfIgnored, Usage, ReadFails, CallFails
    <3>2. faults' \in Nat
      BY <1>0, <3>1 DEF Fault
    <3> QED
      BY <2>1, <3>2, KubeKeeps
  <2>2. ASSUME NEW page \in SUBSET Key, NEW last \in BOOLEAN, Scan(page, last)
        PROVE  work'.rows = work.rows
    <3>1. work.pages \in 0 .. MaxPages /\ work.pages < MaxPages
      BY <1>0, <2>2 DEF Types, WorkTypes, Scan
    <3>2. work.pages + 1 \in 0 .. MaxPages
      BY <3>1
    <3>3. WorkTypes(Scanned(page, last)) /\ Scanned(page, last).rows = work.rows
      BY <1>0, <3>2 DEF Types, WorkTypes, IsWork, Fields, Scanned
    <3>4. Continue(Scanned(page, last))
      BY <2>2 DEF Scan, Scanned
    <3> QED
      BY <1>0, <3>3, <3>4, ContinueIs
  <2>3. ASSUME NEW k \in work.page, ReadType(k) PROVE work'.rows = work.rows
    BY <1>0, <2>3 DEF ReadType, Types, WorkTypes, IsWork, Fields
  <2>4. CASE ReadValue
    <3>1. call = "read" /\ work.key \in Key /\ (req.op = "waitlist_emails" => req.key = 0)
      BY <2>4 DEF ReadValue, ProxyInv, Calls
    <3>2. CASE req.op = "waitlist_emails"
      <4>1. PICK rows \in NewRows : Continue(WithRows(rows))
        BY <2>4, <3>2 DEF ReadValue, WithRows
      <4>2. IsFiniteSet(work.rows) /\ Cardinality(work.rows) <= Limit
        <5>1. IsFiniteSet(work.rows) /\ Cardinality(work.rows) + Len(work.items) <= Limit
          BY DEF ProxyInv, Sizes
        <5>2. Cardinality(work.rows) \in Nat /\ Len(work.items) \in Nat /\ Limit \in Nat
          BY <1>0, <5>1, LimitIs, FS_CardinalityType DEF Types, WorkTypes, DataTypes, Limit, LimitOf
        <5> QED
          BY <5>1, <5>2
      <4>3. rows \in SUBSET Row /\ \A x \in rows : x.key = work.key /\ x.at = ReadAt
        BY <1>0, <3>1, <4>2, NewRowsIs
      <4>4. WorkTypes(WithRows(rows)) /\ WithRows(rows).rows = work.rows \cup rows
        BY <1>0, <4>3, RowsAre
      <4>5. work'.rows = work.rows \cup rows
        BY <1>0, <4>1, <4>4, ContinueIs
      <4> QED
        BY <3>1, <3>2, <4>3, <4>5
    <3>3. CASE req.op # "waitlist_emails"
      <4>1. WorkTypes(WithItem) /\ WithItem.rows = work.rows
        BY <1>0, <3>1, ItemIs
      <4>2. work' = WithItem \/ Continue(WithItem)
        BY <2>4, <3>3 DEF ReadValue, WithItem
      <4>3. work'.rows = work.rows
        BY <1>0, <4>1, <4>2, ContinueIs
      <4> QED
        BY <4>3
    <3> QED
      BY <3>2, <3>3
  <2>5. CASE ReadFails
    <3>1. UNCHANGED work \/ Continue(work)
      BY <2>5 DEF ReadFails
    <3>2. work'.rows = work.rows
      BY <1>0, <3>1, ContinueIs DEF Types
    <3> QED
      BY <3>2
  <2>6. CASE CallFails
    BY <1>1, <2>6 DEF CallFails
  <2> QED
    BY <1>4, <2>1, <2>2, <2>3, <2>4, <2>5, <2>6 DEF ProxyStep, ProxyCall
<1> QED
  BY <1>1, <1>2, <1>3, <1>4 DEF Next, vars

\* Every step keeps the times of rows those of their keys.
LEMMA TimesStep == OpsInv /\ WalkInv /\ TimesInv /\ [Next]_vars => TimesInv'
<1> SUFFICES ASSUME OpsInv, WalkInv, TimesInv, [Next]_vars, NEW row \in work'.rows
             PROVE  Timed(row)'
  BY DEF TimesInv
<1>1. ProxyInv /\ action.request \in Request
  BY DEF OpsInv, RossTypes
<1>2. UNCHANGED setup /\ \A k \in Key \ setup.moving : redis'[k] = redis[k]
  BY <1>1, DataSame
<1>3. \/ row \in work.rows
      \/ /\ call = "read" /\ req.key = 0 /\ work.key \in Key
         /\ row.key = work.key /\ row.at = ReadAt
  BY <1>1, RowFrom
<1>4. row.key \in Key
  BY <1>1, <1>3 DEF ProxyInv, Types, WorkTypes, Row
<1>5. Timed(row)
  <2>1. CASE row \in work.rows
    BY <2>1 DEF TimesInv
  <2>2. CASE /\ call = "read" /\ req.key = 0
             /\ row.key = work.key /\ row.at = ReadAt
    <3>1. work.key \notin setup.moving => work.type = redis[work.key].type
      BY <2>2 DEF WalkInv
    <3> QED
      BY <2>2, <3>1 DEF Timed, ReadAt, ReadMails
  <2> QED
    BY <1>3, <2>1, <2>2
<1> QED
  BY <1>2, <1>4, <1>5 DEF Timed

\* Every step keeps what the answer says about the newest row.
LEMMA PostStep == OpsInv /\ PostInv /\ [Next]_vars => PostInv'
<1> SUFFICES ASSUME OpsInv, PostInv, [Next]_vars, post'.at # 0 PROVE PostInv'
  BY DEF PostInv
<1>1. ProxyInv
  BY DEF OpsInv
<1>2. CASE UNCHANGED post
  <2>1. code = "ok"
    BY <1>2 DEF PostInv
  <2>2. UNCHANGED <<req, work, code>>
    BY <1>1, <2>1, AnsweredStays
  <2> QED
    BY <1>2, <2>2 DEF PostInv, Latest
<1>3. \A what : Says(what).at = 0 /\ Says(what) = [NoPost EXCEPT !.says = what]
  BY DEF Says, NoPost
<1>4. CASE Hear
  <2>1. code = "ok" /\ req.op = "waitlist_emails" /\ post' = [LatestAnswer EXCEPT !.plain = action.full]
    BY <1>3, <1>4 DEF Hear
  <2>2. work.rows # {} /\ LatestAnswer = [Says("data") EXCEPT !.mail = Latest.mail, !.at = Latest.at]
    <3>1. CASE work.rows = {} \/ action.question # "latest"
      <4>1. LatestAnswer = Says("data")
        BY <3>1 DEF LatestAnswer
      <4>2. post'.at = 0
        BY <1>3, <2>1, <4>1 DEF NoPost
      <4> QED
        BY <4>2
    <3> QED
      BY <3>1 DEF LatestAnswer
  <2>3. post'.at = Latest.at
    BY <1>3, <2>1, <2>2 DEF NoPost
  <2>4. UNCHANGED <<req, work, code>>
    BY <1>4 DEF Hear
  <2>5. Latest' = Latest
    BY <2>4 DEF Latest
  <2> QED
    BY <2>1, <2>2, <2>3, <2>4, <2>5 DEF PostInv
<1>5. ~Refuse /\ ~GiveUp /\ ~Lose
  BY <1>3 DEF Refuse, GiveUp, Lose, NoPost
<1>6. CASE Understand \/ Ask \/ Deliver
  BY <1>2, <1>6 DEF Understand, Ignore, Accept, Ask, Deliver
<1>7. CASE ProxyStep \/ WorldStep \/ UNCHANGED vars
  BY <1>2, <1>7 DEF ProxyStep, WorldStep, vars
<1> QED
  BY <1>4, <1>5, <1>6, <1>7 DEF Next, RossStep

\* "The latest waitlist signup is ...": no address that was there all the time
\* is newer, unless the answer was full, the key could not be read, or the
\* address was met first under another key, with that key's time.
THEOREM LatestOfAll == Spec => []LatestIsNewest
<1>1. Init => TimesInv /\ PostInv
  BY DEF Init, NoWork, TimesInv, PostInv, NoPost
<1>2. OpsInv /\ TimesInv /\ PostInv /\ NothingLeftOut => LatestIsNewest
  <2> SUFFICES ASSUME OpsInv, TimesInv, PostInv, NothingLeftOut,
                      post.at # 0, faults = 0, Cardinality(work.rows) < Limit,
                      NEW k \in SteadyKeys, redis[k].type = "hash",
                      Cardinality(redis[k].mails) = 1,
                      \A row \in work.rows : row.mail \in redis[k].mails => row.key = k
               PROVE  redis[k].at <= post.at
    BY DEF LatestIsNewest
  <2>1. /\ code = "ok" /\ req.op = "waitlist_emails"
        /\ work.rows # {} /\ post.at = Latest.at
    BY DEF PostInv
  <2>2. redis[k].mails # {} /\ redis[k].mails \subseteq Listed(work)
    <3>1. Cardinality({}) = 0
      BY FS_EmptySet, Zenon
    <3>2. redis[k].mails # {}
      <4>1. 0 # 1
        OBVIOUS
      <4> QED
        BY <3>1, <4>1, Zenon
    <3> QED
      BY <2>1, <3>2 DEF NothingLeftOut
  <2>3. PICK row \in work.rows : row.mail \in redis[k].mails
    <3>1. PICK m \in redis[k].mails : m \in Listed(work)
      BY <2>2
    <3> QED
      BY <3>1 DEF Listed
  <2>4. row.key = k /\ k \notin setup.moving
    BY <2>3 DEF SteadyKeys, Steady
  <2>5. row.at = redis[k].at
    BY <2>3, <2>4 DEF TimesInv, Timed
  <2>6. work.rows \subseteq Row /\ IsFiniteSet(work.rows) /\ Single(work.rows)
    BY DEF OpsInv, ProxyInv, Types, WorkTypes, Sizes, RowsInv
  <2>7. Latest \in work.rows /\ \A b \in work.rows \ {Latest} : Newer(Latest, b)
    BY <2>1, <2>6, LatestIs
  <2>8. row.at \in Nat /\ Latest.at \in Nat
    <3>1. Time \cup {0} \subseteq Nat
      OBVIOUS
    <3>2. \A a \in Row : a.at \in Time \cup {0}
      BY DEF Row
    <3> QED
      BY <2>3, <2>6, <2>7, <3>1, <3>2, Zenon
  <2>9. row = Latest \/ Newer(Latest, row)
    BY <2>3, <2>7
  <2>10. Latest.at >= row.at
    BY <2>8, <2>9 DEF Newer
  <2> QED
    BY <2>1, <2>5, <2>8, <2>10
<1> QED
  BY <1>1, <1>2, OpsInit, OpsStep, TimesStep, PostStep, WalkStep, NothingMissed, WalkInit, PTL DEF Spec
-----------------------------------------------------------------------------
(***************************************************************************)
(* What was there all the time is in the answers about the cluster.        *)
(***************************************************************************)
SteadyLoad == {p \in SteadyPods : kube.pods[p] \in SteadyNodes}

\* The nodes are cut to the limit by the last call only.
NodesTold ==
  faults = 0 /\ req.op = "k8s_metrics" /\ (call \in {"list_pods", "usage"} \/ code = "ok") =>
    /\ work.total >= Cardinality(SteadyNodes)
    /\ \/ SteadyNodes \subseteq work.nodes
       \/ code = "ok" /\ Cardinality(work.nodes) = Limit

LoadTold ==
  faults = 0 /\ req.op = "k8s_metrics" /\ (call = "usage" \/ code = "ok") =>
    work.asked >= Cardinality(SteadyLoad)

PodsTold ==
  faults = 0 /\ req.op = "k8s_status" /\ Len(req.target) < 2 /\ code = "ok" =>
    SteadyPods \subseteq work.pods \/ Cardinality(work.pods) = Limit

KubeInv == NodesTold /\ LoadTold /\ PodsTold

\* The first names of a list: all of them, or as many as asked for.
Before(S, x) == {y \in S : y < x}

\* The first names are all there are, or as many as asked for.
LEMMA FirstNamesAre ==
  ASSUME NEW S \in SUBSET Nat, IsFiniteSet(S), NEW n \in Nat
  PROVE  FirstNames(S, n) = S \/ Cardinality(FirstNames(S, n)) = n
<1> SUFFICES ASSUME FirstNames(S, n) # S PROVE Cardinality(FirstNames(S, n)) = n
  OBVIOUS
<1>1. FirstNames(S, n) = {x \in S : Cardinality(Before(S, x)) < n}
  BY DEF FirstNames, Before
<1>2. \A x : IsFiniteSet(Before(S, x)) /\ Cardinality(Before(S, x)) \in Nat
  BY Part DEF Before
<1>3. PICK x \in S \ FirstNames(S, n) : \A y \in S \ FirstNames(S, n) : x <= y
  <2>1. S \ FirstNames(S, n) \in SUBSET Nat /\ S \ FirstNames(S, n) # {}
    BY <1>1
  <2> QED
    BY <2>1, Smallest
<1>4. Cardinality(Before(S, x)) >= n
  BY <1>1, <1>2, <1>3
<1>5. FirstNames(S, n) = Before(S, x)
  <2>1. ASSUME NEW y \in Before(S, x) PROVE y \in FirstNames(S, n)
    <3>1. y \in S /\ y < x
      BY DEF Before
    <3> QED
      BY <1>3, <3>1
  <2>2. ASSUME NEW y \in FirstNames(S, n) PROVE y \in Before(S, x)
    <3>1. y \in S /\ Cardinality(Before(S, y)) < n /\ y # x
      BY <1>1, <1>3
    <3>2. ASSUME y > x PROVE FALSE
      <4>1. Before(S, x) \in SUBSET Before(S, y)
        <5>1. ASSUME NEW z \in S, z < x PROVE z < y
          <6>1. x \in Nat /\ y \in Nat /\ z \in Nat
            BY <3>1
          <6> QED
            BY <3>2, <5>1, <6>1
        <5> QED
          BY <5>1 DEF Before
      <4>2. Cardinality(Before(S, x)) <= Cardinality(Before(S, y))
        BY <1>2, <4>1, Part
      <4> QED
        BY <1>2, <1>4, <3>1, <4>2
    <3>3. y \in Nat /\ x \in Nat
      BY <3>1
    <3>4. y < x
      BY <3>1, <3>2, <3>3
    <3> QED
      BY <3>1, <3>4 DEF Before
  <2> QED
    BY <2>1, <2>2
<1>6. Cardinality(Before(S, x)) <= n
  <2>1. CASE Before(S, x) = {}
    <3>1. Cardinality(Before(S, x)) = 0
      BY <2>1, FS_EmptySet, Zenon
    <3> QED
      BY <3>1
  <2>2. CASE Before(S, x) # {}
    <3>1. PICK m \in Before(S, x) : \A k \in Before(S, x) : k <= m
      <4>1. Before(S, x) \in SUBSET Nat
        BY DEF Before
      <4> QED
        BY <1>2, <2>2, <4>1, Greatest
    <3>2. m \in S /\ m \in FirstNames(S, n) /\ m < x
      BY <1>5 DEF Before
    <3>3. Cardinality(Before(S, m)) < n
      BY <1>1, <3>2
    <3>4. Before(S, x) \in SUBSET (Before(S, m) \cup {m})
      <4>1. ASSUME NEW z \in Before(S, x), z # m PROVE z \in S /\ z < m
        <5>1. z \in S /\ z \in Nat /\ m \in Nat /\ z <= m
          BY <3>1, <3>2 DEF Before
        <5> QED
          BY <4>1, <5>1
      <4> QED
        BY <4>1 DEF Before
    <3>5. Cardinality(Before(S, x)) <= Cardinality(Before(S, m)) + 1
      BY <1>2, <3>4, OneMore
    <3> QED
      BY <1>2, <3>3, <3>5
  <2> QED
    BY <2>1, <2>2
<1> QED
  BY <1>2, <1>4, <1>5, <1>6

\* What moves was never counted.
LEMMA SteadyCluster ==
  ASSUME ProxyInv, World
  PROVE  UNCHANGED <<SteadyNodes, SteadyPods, SteadyLoad>>
<1>1. /\ UNCHANGED setup /\ kube \in KubeState
      /\ setup.movingPods \subseteq Pod /\ setup.movingNodes \subseteq Node
  BY SetupFields DEF World, SignUp, Reschedule, Scale, ProxyInv, Types, DataTypes
<1>2. /\ SteadyNodes' = SteadyNodes /\ SteadyPods' = SteadyPods
      /\ \A p \in SteadyPods : kube'.pods[p] = kube.pods[p]
  <2>1. CASE UNCHANGED kube
    BY <1>1, <2>1 DEF SteadyNodes, SteadyPods, Alive
  <2>2. ASSUME NEW q \in setup.movingPods, NEW n \in Node \cup {0, -1}, Reschedule(q, n)
        PROVE  /\ SteadyNodes' = SteadyNodes /\ SteadyPods' = SteadyPods
               /\ \A p \in SteadyPods : kube'.pods[p] = kube.pods[p]
    <3>1. /\ kube'.nodes = kube.nodes /\ kube'.pods[q] = n
          /\ \A p \in Pod \ {q} : kube'.pods[p] = kube.pods[p]
      BY <1>1, <2>2 DEF Reschedule, KubeState
    <3> QED
      BY <1>1, <3>1 DEF SteadyNodes, SteadyPods, Alive
  <2>3. ASSUME NEW n \in setup.movingNodes, Scale(n)
        PROVE  /\ SteadyNodes' = SteadyNodes /\ SteadyPods' = SteadyPods
               /\ \A p \in SteadyPods : kube'.pods[p] = kube.pods[p]
    <3>1. PICK nodes, pods :
            /\ nodes = IF n \in kube.nodes THEN kube.nodes \ {n} ELSE kube.nodes \cup {n}
            /\ pods = [p \in Pod |-> IF kube.pods[p] = n THEN -1 ELSE kube.pods[p]]
      OBVIOUS
    <3>2. kube' = [kube EXCEPT !.nodes = nodes, !.pods = pods]
      BY <2>3, <3>1 DEF Scale
    <3>3. kube'.nodes = nodes /\ kube'.pods = pods
      BY <1>1, <3>2 DEF KubeState
    <3> QED
      BY <1>1, <3>1, <3>3 DEF SteadyNodes, SteadyPods, Alive
  <2>4. \/ UNCHANGED kube
        \/ \E q \in setup.movingPods, n \in Node \cup {0, -1} : Reschedule(q, n)
        \/ \E n \in setup.movingNodes : Scale(n)
    BY DEF World, SignUp
  <2> QED
    BY <2>1, <2>2, <2>3, <2>4
<1> QED
  BY <1>2 DEF SteadyLoad

\* Each call to Kubernetes tells what its part of the answer needs.
LEMMA KubeTells ==
  ASSUME ProxyInv, KubeInv,
         \/ ListDeployments \/ GetDeployment \/ GetPod \/ PodsOf \/ PodsOfIgnored
         \/ ListNodes \/ ListPods \/ Stream \/ \E live \in BOOLEAN : Usage(live),
         PodsOfIgnored \/ (\E live \in BOOLEAN : Usage(live)) \/ UNCHANGED faults
  PROVE  KubeInv'
<1>1. /\ Types /\ WorkTypes(work) /\ faults \in Nat /\ kube.nodes \subseteq Node
      /\ UNCHANGED <<redis, kube, req, setup>> /\ IsWork(work)
  BY KubeCalls DEF ProxyInv, Types, DataTypes, KubeState, WorkTypes
<1>2. /\ Limit' = Limit /\ Limit \in Nat
      /\ UNCHANGED <<SteadyNodes, SteadyPods, SteadyLoad, Alive>>
  BY <1>1, LimitIs DEF Types, DataTypes, Limit, LimitOf, SteadyNodes, SteadyPods, SteadyLoad, Alive
<1>3. /\ SteadyNodes \subseteq kube.nodes /\ SteadyPods \subseteq Alive /\ Alive \subseteq Pod
      /\ IsFiniteSet(Alive) /\ Alive \in SUBSET Nat
  <2>1. Alive \subseteq Pod
    BY DEF Alive
  <2> QED
    BY <2>1, Part DEF SteadyNodes, SteadyPods
<1>4. CASE ListNodes
  <2>1. /\ call = "list_nodes" /\ call' = "list_pods" /\ code' = code /\ code = "none"
        /\ req.op = "k8s_metrics"
    BY <1>4 DEF ListNodes, Read, ProxyInv, Calls
  <2>2. work'.nodes = kube.nodes /\ work'.total = Cardinality(kube.nodes)
    BY <1>1, <1>4 DEF ListNodes, Read, TotalsOf, IsWork, Fields
  <2>3. Cardinality(SteadyNodes) <= Cardinality(kube.nodes)
        /\ Cardinality(SteadyNodes) \in Nat /\ Cardinality(kube.nodes) \in Nat
    <3>1. IsFiniteSet(kube.nodes)
      BY <1>1, Part
    <3> QED
      BY <1>3, <3>1, Part
  <2>4. work'.total >= Cardinality(SteadyNodes)
    BY <2>2, <2>3
  <2> QED
    BY <1>1, <1>2, <1>3, <2>1, <2>2, <2>4 DEF KubeInv, NodesTold, LoadTold, PodsTold
<1>5. CASE ListPods
  <2>1. call = "list_pods" /\ code = "none" /\ req.op \in {"k8s_status", "k8s_metrics"}
    BY <1>5 DEF ListPods, ProxyInv, Calls
  <2>2. CASE req.op = "k8s_status"
    <3>1. work'.pods = FirstNames(Alive, Limit)
      BY <1>1, <1>5, <2>2 DEF ListPods, Done, IsWork, Fields
    <3>2. work'.pods = Alive \/ Cardinality(work'.pods) = Limit
      BY <1>2, <1>3, <3>1, FirstNamesAre
    <3> QED
      BY <1>1, <1>2, <1>3, <2>2, <3>2 DEF KubeInv, NodesTold, LoadTold, PodsTold
  <2>3. CASE req.op = "k8s_metrics"
    <3> DEFINE on == {p \in Pod : kube.pods[p] \in work.nodes}
    <3>1. /\ work'.asked = Cardinality(on) /\ work'.nodes = work.nodes /\ work'.total = work.total
          /\ call' = "usage" /\ code' = code
      BY <1>1, <1>5, <2>3 DEF ListPods, Read, TotalsOf, IsWork, Fields
    <3>2. faults = 0 => work.total >= Cardinality(SteadyNodes) /\ SteadyNodes \subseteq work.nodes
      BY <2>1, <2>3 DEF KubeInv, NodesTold
    <3>3. faults' = faults
      BY <1>5, <2>1 DEF PodsOfIgnored, Usage
    <3>4. ASSUME faults = 0 PROVE work'.asked >= Cardinality(SteadyLoad)
      <4>1. SteadyLoad \in SUBSET on /\ on \in SUBSET Pod
        BY <1>3, <3>2, <3>4 DEF SteadyLoad
      <4> HIDE DEF on
      <4>2. IsFiniteSet(on)
        BY <4>1, Part
      <4>3. /\ Cardinality(SteadyLoad) <= Cardinality(on)
            /\ Cardinality(SteadyLoad) \in Nat /\ Cardinality(on) \in Nat
        BY <4>1, <4>2, Part
      <4> QED
        BY <3>1, <4>3
    <3> HIDE DEF on
    <3> QED
      BY <1>1, <1>2, <2>1, <2>3, <3>1, <3>2, <3>3, <3>4 DEF KubeInv, NodesTold, LoadTold, PodsTold
  <2> QED
    BY <2>1, <2>2, <2>3
<1>6. ASSUME NEW live \in BOOLEAN, Usage(live) PROVE KubeInv'
  <2>1. call = "usage" /\ code = "none" /\ req.op = "k8s_metrics"
    BY <1>6 DEF Usage, ProxyInv, Calls
  <2>2. /\ work'.nodes = FirstNames(work.nodes, Limit) /\ work'.total = work.total
        /\ work'.asked = work.asked /\ code' = "ok"
    BY <1>1, <1>6 DEF Usage, Done, Answer, IsWork, Fields
  <2>3. faults' = 0 => faults = 0
    <3>1. UNCHANGED faults \/ faults' = faults + 1
      BY <1>6 DEF Usage, Fault
    <3> QED
      BY <1>1, <3>1
  <2>4. faults = 0 => /\ work.total >= Cardinality(SteadyNodes) /\ SteadyNodes \subseteq work.nodes
                      /\ work.asked >= Cardinality(SteadyLoad)
    BY <2>1 DEF KubeInv, NodesTold, LoadTold
  <2>5. work'.nodes = work.nodes \/ Cardinality(work'.nodes) = Limit
    <3>1. work.nodes \in SUBSET Nat /\ IsFiniteSet(work.nodes)
      BY <1>1, Part DEF WorkTypes
    <3> QED
      BY <1>2, <2>2, <3>1, FirstNamesAre
  <2> QED
    BY <1>1, <1>2, <2>1, <2>2, <2>3, <2>4, <2>5 DEF KubeInv, NodesTold, LoadTold, PodsTold
<1>7. CASE PodsOf /\ req.op = "k8s_status"
  <2>1. work'.pods = FirstNames(Alive, Limit)
    BY <1>1, <1>7 DEF PodsOf, Done, IsWork, Fields
  <2>2. work'.pods = Alive \/ Cardinality(work'.pods) = Limit
    BY <1>2, <1>3, <2>1, FirstNamesAre
  <2> QED
    BY <1>1, <1>2, <1>3, <1>7, <2>2 DEF KubeInv, NodesTold, LoadTold, PodsTold
<1>8. CASE PodsOfIgnored
  <2>1. faults' # 0
    BY <1>1, <1>8 DEF PodsOfIgnored, Fault
  <2> QED
    BY <2>1 DEF KubeInv, NodesTold, LoadTold, PodsTold
<1>9. CASE GetPod
  <2>1. req.op = "k8s_status" /\ Len(req.target) = 2 /\ ~(2 < 2)
    BY <1>9 DEF GetPod, ProxyInv, Calls
  <2>2. ~(Len(req.target) < 2)
    BY <2>1, Zenon
  <2> QED
    BY <1>1, <2>1, <2>2 DEF KubeInv, NodesTold, LoadTold, PodsTold
<1>10. CASE ListDeployments \/ GetDeployment \/ Stream \/ (PodsOf /\ req.op # "k8s_status")
  <2>1. /\ req.op \in {"k8s_status", "k8s_logs"} /\ (code' = "ok" => req.op = "k8s_logs")
    BY <1>10 DEF ListDeployments, GetDeployment, Stream, PodsOf, Read, Fails, Done, Answer,
                 ProxyInv, Calls
  <2> QED
    BY <1>1, <2>1 DEF KubeInv, NodesTold, LoadTold, PodsTold
<1> QED
  BY <1>4, <1>5, <1>6, <1>7, <1>8, <1>9, <1>10

\* Every step keeps what was told of the cluster.
LEMMA KubeStep == OpsInv /\ KubeInv /\ [Next]_vars => KubeInv'
<1> SUFFICES ASSUME OpsInv, KubeInv, [Next]_vars PROVE KubeInv'
  OBVIOUS
<1>0. ProxyInv /\ Types /\ faults \in Nat /\ action.request \in Request
  BY DEF OpsInv, RossTypes, ProxyInv, Types, DataTypes
<1> USE DEF KubeInv, NodesTold, LoadTold, PodsTold
<1>1. ASSUME UNCHANGED <<req, call, work, code, setup, SteadyNodes, SteadyPods, SteadyLoad>>,
             faults' = 0 => faults = 0
      PROVE  KubeInv'
  BY <1>1 DEF Limit, LimitOf
<1>2. ASSUME NEW kind, Fault(kind) PROVE faults' # 0
  BY <1>0, <1>2 DEF Fault
<1>3. UNCHANGED <<kube, setup>> => UNCHANGED <<SteadyNodes, SteadyPods, SteadyLoad>>
  BY DEF SteadyNodes, SteadyPods, SteadyLoad, Alive
<1> HIDE DEF KubeInv, NodesTold, LoadTold, PodsTold
<1>4. CASE UNCHANGED vars
  BY <1>1, <1>3, <1>4 DEF vars
<1>5. CASE RossStep
  <2>1. CASE Ask
    <3>1. PICK r : r = Requested
      OBVIOUS
    <3>2. Serve(r) /\ r \in Request /\ (r.op = "waitlist_emails" => r.key = 0)
      BY <1>0, <2>1, <3>1, RequestedType DEF Ask
    <3>3. call = "none" /\ code = "none" /\ work = NoWork
      BY <1>0, <3>2 DEF Serve, ProxyInv, Calls
    <3>4. \/ code' = "refused" /\ call' = "none"
          \/ code' = "none" /\ Accepts(r) /\ call' = FirstCall(r)
      BY <3>2, <3>3 DEF Serve
    <3>5. call' \notin {"list_pods", "usage"}
      BY <1>0, <3>2, <3>3, <3>4, FirstIs
    <3> QED
      BY <3>4, <3>5 DEF KubeInv, NodesTold, LoadTold, PodsTold
  <2>2. CASE GiveUp
    BY <1>2, <2>2 DEF GiveUp, KubeInv, NodesTold, LoadTold, PodsTold
  <2>3. CASE Understand \/ Refuse \/ Hear \/ Deliver \/ Lose
    BY <1>1, <1>2, <1>3, <2>3 DEF Understand, Ignore, Accept, Refuse, Hear, Deliver, Lose
  <2> QED
    BY <1>5, <2>1, <2>2, <2>3 DEF RossStep
<1>6. CASE WorldStep
  BY <1>0, <1>1, <1>6, SteadySame, SteadyCluster DEF WorldStep
<1>7. CASE ProxyStep
  <2>1. CASE CallFails
    BY <1>2, <2>1 DEF CallFails, KubeInv, NodesTold, LoadTold, PodsTold
  <2>2. CASE /\ \/ ListDeployments \/ GetDeployment \/ GetPod \/ PodsOf \/ PodsOfIgnored
                \/ ListNodes \/ ListPods \/ Stream \/ \E live \in BOOLEAN : Usage(live)
             /\ PodsOfIgnored \/ (\E live \in BOOLEAN : Usage(live)) \/ UNCHANGED faults
    BY <1>0, <2>2, KubeTells
  <2>3. CASE \/ \E page \in SUBSET Key, last \in BOOLEAN : Scan(page, last)
             \/ \E k \in work.page : ReadType(k)
             \/ ReadValue \/ ReadFails
    <3>1. call \in {"scan", "type", "read"} /\ UNCHANGED req
      BY <2>3 DEF Scan, ReadType, ReadValue, ReadFails
    <3>2. req'.op \in {"redis_read", "waitlist_emails"}
      BY <1>0, <3>1 DEF ProxyInv, Calls
    <3> QED
      BY <3>2 DEF KubeInv, NodesTold, LoadTold, PodsTold
  <2> QED
    BY <1>7, <2>1, <2>2, <2>3 DEF ProxyStep, ProxyCall
<1> QED
  BY <1>4, <1>5, <1>6, <1>7 DEF Next

\* The cluster totals cover every node and the pods on it that were there all
\* the time, shown or not, and a list shorter than its limit leaves none out.
THEOREM ClusterTold == Spec => []KubeTellsAll
<1>1. Init => KubeInv
  BY DEF Init, KubeInv, NodesTold, LoadTold, PodsTold
<1>2. KubeInv => KubeTellsAll
  BY DEF KubeInv, NodesTold, LoadTold, PodsTold, KubeTellsAll, SteadyLoad
<1> QED
  BY <1>1, <1>2, OpsInit, OpsStep, KubeStep, PTL DEF Spec
=============================================================================
