------------------------------ MODULE OpsProxy ------------------------------
(***************************************************************************)
(* The read-only ops proxy: one HTTP request, answered by a series of      *)
(* calls to Redis or to the Kubernetes API while the data behind them      *)
(* changes.  Requests share nothing but that data, so one at a time is     *)
(* enough.                                                                 *)
(*                                                                         *)
(* Redis keys, mail addresses, nodes and pods are numbers, in the order    *)
(* their names sort.  "steady" data does not change while the request      *)
(* runs; all other data may change at any time, any number of times.       *)
(***************************************************************************)
EXTENDS Integers, Sequences, FiniteSets

CONSTANTS
  Key, Email, Node, Pod, Time,
  Prefix,          \* key prefixes
  Under,           \* prefix -> the keys that start with it
  Namespace,
  NoPrefix, NoNamespace,
  RedisPrefixes,   \* OPS_PROXY_ALLOWED_REDIS_PREFIXES
  Waitlist,        \* OPS_PROXY_WAITLIST_PREFIXES, canonical ones first
  Namespaces,      \* OPS_PROXY_ALLOWED_NAMESPACES, in order
  DefaultLimit,    \* operation -> its default and maximal number of rows
  MaxLimit,
  MaxPages         \* bound: SCAN calls to walk the key space once

Type == {"none", "string", "hash", "stream"}

\* A value: its type, the mail addresses in it, and updatedAt of a hash with
\* an email field (0 if missing or not a time).  Lists and sets are read like
\* hashes without that field.
Value == [type : Type, mails : SUBSET Email, at : Time \cup {0}]
Missing == [type |-> "none", mails |-> {}, at |-> 0]

Op == {"k8s_status", "k8s_metrics", "k8s_logs", "redis_read", "waitlist_emails"}

\* A target names a deployment, a pod, or nothing.
Target == {<<>>, <<"deployment">>} \cup {<<"pod", p>> : p \in Pod}

Request == [op : Op, ns : Namespace \cup {NoNamespace}, target : Target,
            key : Key \cup {0}, prefix : Prefix \cup {NoPrefix}, limit : Nat]

FaultKind == {"call",      \* a call to the Kubernetes API, or SCAN, fails
              "key",       \* a key of a scan can not be read
              "usage",     \* the metrics API is not there
              "timeout",   \* Ross's call runs out of time
              "extract",   \* the LLM does not classify Ross's question
              "post",      \* Slack refuses Ross's answer
              "panic"}     \* the goroutine that answers panics

ASSUME ProxyAssumption ==
  /\ Key \subseteq Nat \ {0} /\ Email \subseteq Nat /\ Node \subseteq Nat
  /\ Pod \subseteq Nat /\ Time \subseteq Nat \ {0}
  /\ IsFiniteSet(Email) /\ IsFiniteSet(Pod) /\ IsFiniteSet(Node)
  /\ Under \in [Prefix -> SUBSET Key] /\ NoPrefix \notin Prefix
  /\ RedisPrefixes \subseteq Prefix
  /\ Waitlist \in Seq(Prefix) /\ Waitlist # <<>>
  /\ Namespaces \in Seq(Namespace) /\ Namespaces # <<>>
  /\ NoNamespace \notin Namespace
  /\ DefaultLimit \in [Op -> Nat \ {0}]
  /\ MaxLimit \in [Op -> Nat] /\ \A op \in Op : DefaultLimit[op] <= MaxLimit[op]
  /\ MaxPages \in Nat \ {0}

VARIABLES
  redis,   \* key -> its value
  kube,    \* [deployed, nodes, pods: pod -> its node, 0 while pending, -1 if gone]
  req,     \* the request
  call,    \* the proxy's next call, "none" if it serves no request
  work,    \* what it has read so far
  code,    \* how it answered: "none" yet, "ok", "refused" or "failed"
  faults,
  setup    \* what may change and fail

proxyVars == <<redis, kube, req, call, work, code>>

Fault(kind) ==
  /\ kind \in setup.kinds
  /\ faults < setup.maxFaults
  /\ faults' = faults + 1

NoWork ==
  [left |-> {}, page |-> {}, last |-> FALSE, pages |-> 0, prefixes |-> <<>>,
   key |-> 0, type |-> "none", items |-> <<>>, rows |-> {},
   deployments |-> 0, pods |-> {}, nodes |-> {}, total |-> 0, asked |-> 0,
   live |-> FALSE, from |-> -1]

NoRequest == [op |-> "k8s_status", ns |-> NoNamespace, target |-> <<>>,
              key |-> 0, prefix |-> NoPrefix, limit |-> 0]

LimitOf(r) ==
  IF r.limit = 0 THEN DefaultLimit[r.op]
  ELSE IF r.limit > MaxLimit[r.op] THEN MaxLimit[r.op] ELSE r.limit
Limit == LimitOf(req)

-----------------------------------------------------------------------------
(***************************************************************************)
(* Accepting a request.                                                    *)
(***************************************************************************)
InSeq(s) == {s[i] : i \in DOMAIN s}

NamespaceOf(r) == IF r.ns = NoNamespace THEN Namespaces[1] ELSE r.ns
NamespaceAllowed(r) == NamespaceOf(r) \in InSeq(Namespaces)

\* A key, or a prefix at least as long as an allowed one.
RedisAllowed(r) ==
  \E p \in RedisPrefixes :
    IF r.key # 0 THEN r.key \in Under[p]
    ELSE r.prefix # NoPrefix /\ Under[r.prefix] \subseteq Under[p]

Accepts(r) ==
  CASE r.op \in {"k8s_status", "k8s_metrics"} -> NamespaceAllowed(r)
    [] r.op = "k8s_logs" -> NamespaceAllowed(r) /\ r.target # <<>>
    [] r.op = "redis_read" -> RedisAllowed(r)
    [] OTHER -> TRUE

FirstCall(r) ==
  IF r.op = "k8s_metrics" THEN "list_nodes"
  ELSE IF r.op = "redis_read" /\ r.key # 0 THEN "read"
  ELSE IF r.op \in {"redis_read", "waitlist_emails"} THEN "scan"
  ELSE IF r.target = <<>> THEN "list_deployments"
  ELSE IF r.target[1] = "deployment" THEN "get_deployment"
  ELSE IF r.op = "k8s_logs" THEN "stream" ELSE "get_pod"

Steady(p) == {k \in Under[p] \ setup.moving : redis[k] # Missing}

\* A SCAN that starts promises to return every key that stays.
StartScan(w, prefixes) ==
  [w EXCEPT !.prefixes = prefixes, !.left = Steady(Head(prefixes)),
            !.page = {}, !.last = FALSE, !.pages = 0]

FirstWork(r) ==
  CASE r.op = "waitlist_emails" -> StartScan(NoWork, Waitlist)
    [] r.op = "redis_read" /\ r.key # 0 ->
         [NoWork EXCEPT !.key = r.key, !.type = redis[r.key].type]
    [] r.op = "redis_read" /\ r.key = 0 -> StartScan(NoWork, <<r.prefix>>)
    [] r.op = "k8s_logs" /\ Len(r.target) = 2 -> [NoWork EXCEPT !.from = r.target[2]]
    [] OTHER -> NoWork

Serve(r) ==
  /\ call = "none" /\ code = "none"
  /\ req' = r
  /\ IF Accepts(r)
     THEN call' = FirstCall(r) /\ work' = FirstWork(r) /\ UNCHANGED code
     ELSE code' = "refused" /\ UNCHANGED <<call, work>>
  /\ UNCHANGED <<redis, kube, setup>>

Answer(c) == call' = "none" /\ code' = c

\* The call at hand fails, and with it the request.
CallFails ==
  /\ call \notin {"none", "type", "usage"}
  /\ call = "read" => req.key # 0
  /\ call = "pods_of" => req.op = "k8s_logs"
  /\ Fault("call")
  /\ Answer("failed")
  /\ UNCHANGED <<redis, kube, req, work, setup>>

-----------------------------------------------------------------------------
(***************************************************************************)
(* Redis.                                                                  *)
(***************************************************************************)
\* Mutant: one row too many.
FullLate(w) == Cardinality(w.rows) + Len(w.items) > Limit

Full(w) == Cardinality(w.rows) + Len(w.items) >= Limit

\* Mutant: the scan starts over until there is nothing left to add.
ContinueUntilFull(w) ==
  IF ~Full(w) /\ w.page # {} THEN work' = w /\ call' = "type" /\ UNCHANGED code
  ELSE IF ~Full(w) THEN work' = w /\ call' = "scan" /\ UNCHANGED code
  ELSE work' = w /\ Answer("ok")

\* After a page, or a key of it: the rest of the page, the rest of the scan, or
\* the next prefix, as long as there is room.
Continue(w) ==
  IF ~Full(w) /\ w.page # {} THEN work' = w /\ call' = "type" /\ UNCHANGED code
  ELSE IF ~Full(w) /\ ~w.last THEN work' = w /\ call' = "scan" /\ UNCHANGED code
  ELSE IF ~Full(w) /\ Len(w.prefixes) > 1
  THEN work' = StartScan(w, Tail(w.prefixes)) /\ call' = "scan" /\ UNCHANGED code
  ELSE work' = w /\ Answer("ok")

\* Mutant: an empty page is taken for the end of the scan.
ScanStopsAtEmpty(page, last) ==
  /\ call = "scan"
  /\ work.pages < MaxPages
  /\ page \subseteq {k \in Under[Head(work.prefixes)] : redis[k] # Missing}
  /\ (last \/ work.pages + 1 = MaxPages) => last /\ work.left \subseteq page
  /\ Continue([work EXCEPT !.left = @ \ page, !.page = page, !.pages = @ + 1,
                           !.last = last \/ page = {}])
  /\ UNCHANGED <<redis, kube, req, setup>>

\* SCAN returns any keys with the prefix, some perhaps again, in any order, and
\* often none at all; it says it is done only when every steady key was
\* returned.
Scan(page, last) ==
  /\ call = "scan"
  /\ work.pages < MaxPages
  /\ page \subseteq {k \in Under[Head(work.prefixes)] : redis[k] # Missing}
  /\ (last \/ work.pages + 1 = MaxPages) => last /\ work.left \subseteq page
  /\ Continue([work EXCEPT !.left = @ \ page, !.page = page, !.last = last,
                           !.pages = @ + 1])
  /\ UNCHANGED <<redis, kube, req, setup>>

\* TYPE of the next key of the page.
ReadType(k) ==
  /\ call = "type" /\ k \in work.page
  /\ work' = [work EXCEPT !.page = @ \ {k}, !.key = k, !.type = redis[k].type]
  /\ call' = "read"
  /\ UNCHANGED <<redis, kube, req, code, setup>>

\* The value is read by the type it had: a key that vanished since reads as an
\* empty container or as an error, one that changed its type as an error.
Readable == \/ work.type \in {"none", "stream"}
            \/ redis[work.key].type = work.type
            \/ work.type = "hash" /\ redis[work.key] = Missing
ReadMails == IF work.type \in {"none", "stream"} THEN {} ELSE redis[work.key].mails

\* extractWaitlistCandidates: updatedAt counts only with an email field.
Rows(mails) == {[mail |-> m, at |-> IF work.type = "hash" /\ Cardinality(mails) = 1
                                    THEN redis[work.key].at ELSE 0,
                 key |-> work.key] : m \in mails}

Listed(w) == {row.mail : row \in w.rows}
Room == Limit - Cardinality(work.rows)

\* Mutant: an address is listed once per key.
NewRowsPerKey == {Rows(ReadMails) \ work.rows}

\* The addresses not seen yet, the first ones if there is no room for all.
NewRows ==
  LET new == ReadMails \ Listed(work) IN
  {{row \in Rows(ReadMails) : row.mail \in some} :
     some \in {s \in SUBSET new : IF Cardinality(new) <= Room THEN s = new
                                  ELSE Cardinality(s) = Room}}

ReadValue ==
  /\ call = "read" /\ Readable
  /\ CASE req.op = "waitlist_emails" ->
            \E rows \in NewRows : Continue([work EXCEPT !.rows = @ \cup rows])
       [] req.op = "redis_read" /\ req.key # 0 ->
            /\ work' = [work EXCEPT !.items = Append(@, work.key)]
            /\ Answer("ok")
       [] OTHER -> Continue([work EXCEPT !.items = Append(@, work.key)])
  /\ UNCHANGED <<redis, kube, req, setup>>

\* A scan skips the key; a request for one key fails.
ReadFails ==
  /\ call = "read"
  /\ \/ ~Readable /\ UNCHANGED faults
     \/ req.key = 0 /\ Readable /\ Fault("key")
  /\ IF req.key = 0 THEN Continue(work) ELSE Answer("failed") /\ UNCHANGED work
  /\ UNCHANGED <<redis, kube, req, setup>>

\* Mutant: the key counts before the time.
NewerByKey(a, b) ==
  \/ a.key < b.key
  \/ a.key = b.key /\ a.mail < b.mail

\* waitlistEmailIsNewer: by time, then by key, then by address.
Newer(a, b) ==
  \/ a.at > b.at
  \/ a.at = b.at /\ a.key < b.key
  \/ a.at = b.at /\ a.key = b.key /\ a.mail < b.mail

\* The sorted list begins with this row.
Latest == CHOOSE a \in work.rows : \A b \in work.rows \ {a} : Newer(a, b)

-----------------------------------------------------------------------------
(***************************************************************************)
(* Kubernetes.                                                             *)
(***************************************************************************)
FirstNames(S, n) == {x \in S : Cardinality({y \in S : y < x}) < n}
Alive == {p \in Pod : kube.pods[p] # -1}
Deployments == IF kube.deployed THEN 1 ELSE 0

Read(w, next) == work' = w /\ call' = next /\ UNCHANGED <<redis, kube, req, code, setup>>
Done(w) == work' = w /\ Answer("ok") /\ UNCHANGED <<redis, kube, req, setup>>
Fails == Answer("failed") /\ UNCHANGED <<redis, kube, req, work, setup>>

ListDeployments ==
  /\ call = "list_deployments"
  /\ Read([work EXCEPT !.deployments = Deployments], "list_pods")

GetDeployment ==
  /\ call = "get_deployment"
  /\ IF kube.deployed THEN Read([work EXCEPT !.deployments = 1], "pods_of") ELSE Fails

GetPod ==
  /\ call = "get_pod"
  /\ IF req.target[2] \in Alive THEN Done([work EXCEPT !.pods = {req.target[2]}]) ELSE Fails

\* podsForDeployment: every pod belongs to the one deployment.  A status leaves
\* the pods out when the call fails; logs need the first one.
PodsOf ==
  /\ call = "pods_of"
  /\ LET pods == FirstNames(Alive, IF req.op = "k8s_logs" THEN 1 ELSE Limit) IN
     IF req.op = "k8s_status" THEN Done([work EXCEPT !.pods = pods])
     ELSE IF pods = {} THEN Fails
     ELSE Read([work EXCEPT !.from = CHOOSE p \in pods : TRUE], "stream")

PodsOfIgnored ==
  /\ call = "pods_of" /\ req.op = "k8s_status"
  /\ Fault("call")
  /\ Done(work)

\* Mutant: the totals are those of the rows shown.
TotalsOfShown(nodes) == FirstNames(nodes, Limit)

\* readMetrics: the totals cover every node, shown or not.
TotalsOf(nodes) == nodes

ListPods ==
  /\ call = "list_pods"
  /\ LET on == {p \in Pod : kube.pods[p] \in TotalsOf(work.nodes)} IN
     IF req.op = "k8s_status" THEN Done([work EXCEPT !.pods = FirstNames(Alive, Limit)])
     ELSE Read([work EXCEPT !.asked = Cardinality(on)], "usage")

\* One node is one unit of capacity, one pod one unit of requests.
ListNodes ==
  /\ call = "list_nodes"
  /\ Read([work EXCEPT !.nodes = kube.nodes, !.total = Cardinality(TotalsOf(kube.nodes))],
          "list_pods")

\* The nodes are cut to the limit last, after the pods were summed up.
Usage(live) ==
  /\ call = "usage"
  /\ IF live THEN UNCHANGED faults ELSE Fault("usage")
  /\ Done([work EXCEPT !.live = live, !.nodes = FirstNames(@, Limit)])

Stream ==
  /\ call = "stream"
  /\ IF work.from \in Alive THEN Done(work) ELSE Fails

-----------------------------------------------------------------------------
(***************************************************************************)
(* The data moves.                                                         *)
(***************************************************************************)
SignUp(k, v) ==
  /\ k \in setup.moving /\ redis[k] # v
  /\ req.op \in {"redis_read", "waitlist_emails"} /\ call # "none"
  /\ redis' = [redis EXCEPT ![k] = v]
  /\ UNCHANGED <<kube, req, call, work, code, faults, setup>>

Reschedule(p, n) ==
  /\ p \in setup.movingPods /\ kube.pods[p] # n /\ n \in kube.nodes \cup {0, -1}
  /\ req.op \notin {"redis_read", "waitlist_emails"} /\ call # "none"
  /\ kube' = [kube EXCEPT !.pods[p] = n]
  /\ UNCHANGED <<redis, req, call, work, code, faults, setup>>

\* A node that goes takes its moving pods with it.
Scale(n) ==
  /\ n \in setup.movingNodes
  /\ req.op = "k8s_metrics" /\ call # "none"
  /\ kube' = [kube EXCEPT !.nodes = IF n \in @ THEN @ \ {n} ELSE @ \cup {n},
                          !.pods = [p \in Pod |-> IF @[p] = n THEN -1 ELSE @[p]]]
  /\ UNCHANGED <<redis, req, call, work, code, faults, setup>>

ProxyCall ==
  \/ UNCHANGED faults /\ \/ \E page \in SUBSET Key, last \in BOOLEAN : Scan(page, last)
                         \/ \E k \in work.page : ReadType(k)
                         \/ ReadValue
                         \/ ListDeployments \/ GetDeployment \/ GetPod \/ PodsOf
                         \/ ListNodes \/ ListPods \/ Stream
  \/ \E live \in BOOLEAN : Usage(live)
  \/ ReadFails \/ CallFails \/ PodsOfIgnored

World ==
  \/ \E k \in setup.moving, v \in setup.values : SignUp(k, v)
  \/ \E p \in setup.movingPods, n \in Node \cup {0, -1} : Reschedule(p, n)
  \/ \E n \in setup.movingNodes : Scale(n)
-----------------------------------------------------------------------------
(***************************************************************************)
(* What an answer promises.                                                *)
(***************************************************************************)
SearchedPrefixes == IF req.op = "waitlist_emails" THEN InSeq(Waitlist) ELSE {req.prefix}
SteadyKeys == UNION {Steady(p) : p \in SearchedPrefixes}

\* A Redis answer shorter than its limit holds every key, and of the waitlist
\* every address, that was there all the time, however SCAN cuts its pages,
\* repeats keys or returns empty pages, and whatever else comes and goes.
NothingLeftOut ==
  code = "ok" /\ faults = 0 =>
    /\ req.op = "waitlist_emails" /\ Cardinality(work.rows) < Limit =>
         \A k \in SteadyKeys : redis[k].type \in {"string", "hash"} =>
           redis[k].mails \subseteq Listed(work)
    /\ req.op = "redis_read" /\ req.key = 0 /\ Len(work.items) < Limit =>
         SteadyKeys \subseteq InSeq(work.items)

\* "I found N waitlist emails": no address counts twice, in however many keys
\* it stands and however often SCAN returns them.
NoMailTwice == \A a, b \in work.rows : a.mail = b.mail => a = b

SteadyPods == {p \in Alive : p \notin setup.movingPods /\ kube.pods[p] \notin setup.movingNodes}
SteadyNodes == kube.nodes \ setup.movingNodes

\* The cluster totals cover every node and the pods on it that were there all
\* the time, shown or not, and a list shorter than its limit leaves none out.
KubeTellsAll ==
  code = "ok" /\ faults = 0 =>
    /\ req.op = "k8s_metrics" =>
         /\ work.total >= Cardinality(SteadyNodes)
         /\ work.asked >= Cardinality({p \in SteadyPods : kube.pods[p] \in SteadyNodes})
         /\ SteadyNodes \subseteq work.nodes \/ Cardinality(work.nodes) = Limit
    /\ req.op = "k8s_status" /\ Len(req.target) < 2 =>
         SteadyPods \subseteq work.pods \/ Cardinality(work.pods) = Limit
=============================================================================
