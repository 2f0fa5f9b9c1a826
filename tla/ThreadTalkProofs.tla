-------------------------- MODULE ThreadTalkProofs --------------------------
(***************************************************************************)
(* One voice per thread: for every squad, however many messages are        *)
(* written and whichever fetches, keys and posts fail, what the pods and   *)
(* Redis hold about the owner of a thread is the first reply's choice, at  *)
(* most one bot answers a message that names nobody, and chains of bots'   *)
(* answers neither branch nor follow an acknowledgement.                   *)
(***************************************************************************)
EXTENDS ThreadTalk, Counting

USE ThreadAssumption

Msg == [by : Bot \cup {Ceo}, names : SUBSET Bot, shown : SUBSET Bot,
        cue : BOOLEAN, to : Nat, ack : BOOLEAN]

\* The part of the types that belongs to the event loops, and to the thread.
LoopTypes ==
  /\ pc \in [Bot -> {"idle", "resolving", "storing", "replying"}]
  /\ cur \in [Bot -> 0 .. Len(thread)]
  /\ \A b \in Bot : pc[b] # "idle" => cur[b] \in DOMAIN thread
  /\ first \in [Bot -> [at : 0 .. Len(thread), names : SUBSET Bot]]
  /\ owner \in [Bot -> Bot \cup {NoBot}]

ThreadTypes ==
  /\ thread \in Seq(Msg)
  /\ \A m \in DOMAIN thread : thread[m].to < m
  /\ gone \subseteq DOMAIN thread
  /\ todo \in [Bot -> SUBSET [of : DOMAIN thread, via : Source]]

RestTypes ==
  /\ key \in Bot \cup {NoBot} /\ faults \in Nat /\ seen \subseteq FaultKind /\ setup \in Setups

Types == ThreadTypes /\ LoopTypes /\ RestTypes
-----------------------------------------------------------------------------
(***************************************************************************)
(* Types.                                                                  *)
(***************************************************************************)
\* What a setup gives.
LEMMA SetupType ==
  ASSUME setup \in Setups
  PROVE  /\ setup.squad \subseteq Bot /\ setup.cues \subseteq BOOLEAN
         /\ setup.root \in Bot \cup {Ceo}
  BY DEF Setup

\* A fault counts.
LEMMA FaultType ==
  ASSUME RestTypes, NEW kind \in FaultKind, Fault(kind)
  PROVE  faults' \in Nat /\ seen' \subseteq FaultKind
  BY DEF RestTypes, Fault

\* A message appears at the end of the thread.
LEMMA Appended ==
  ASSUME thread \in Seq(Msg), NEW msg \in Msg, thread' = Append(thread, msg)
  PROVE  /\ thread' \in Seq(Msg)
         /\ Len(thread) \in Nat /\ Len(thread') = Len(thread) + 1
         /\ DOMAIN thread = 1 .. Len(thread) /\ DOMAIN thread' = 1 .. Len(thread) + 1
         /\ \A m \in DOMAIN thread : m \in DOMAIN thread' /\ thread'[m] = thread[m]
         /\ thread'[Len(thread) + 1] = msg
  OBVIOUS

\* A message that appears is typed.
LEMMA AppearTypes ==
  ASSUME ThreadTypes, NEW msg \in Msg, msg.to <= Len(thread), NEW done, AppearAfter(msg, done),
         UNCHANGED gone
  PROVE  ThreadTypes'
<1> DEFINE n == Len(thread) + 1
<1>1. /\ thread' \in Seq(Msg) /\ Len(thread) \in Nat
      /\ DOMAIN thread = 1 .. Len(thread) /\ DOMAIN thread' = 1 .. n
      /\ \A m \in DOMAIN thread : m \in DOMAIN thread' /\ thread'[m] = thread[m]
      /\ thread'[n] = msg
  BY Appended DEF AppearAfter, ThreadTypes
<1>2. \A m \in DOMAIN thread' : thread'[m].to < m
  <2>1. \A m \in DOMAIN thread : thread'[m].to < m
    BY <1>1 DEF ThreadTypes
  <2>2. thread'[n].to < n
    BY <1>1 DEF Msg
  <2>3. \A m \in DOMAIN thread' : m \in DOMAIN thread \/ m = n
    BY <1>1
  <2> QED
    BY <2>1, <2>2, <2>3
<1>3. \A b \in Bot : Events(n, msg, b) \subseteq [of : DOMAIN thread', via : Source]
  BY <1>1 DEF Events, Source
<1>4. \A b \in Bot : todo[b] \subseteq [of : DOMAIN thread', via : Source]
  BY <1>1 DEF ThreadTypes
<1>5. todo' = [b \in Bot |-> (todo[b] \ done[b]) \cup Events(n, msg, b)]
  BY DEF AppearAfter
<1>6. todo' \in [Bot -> SUBSET [of : DOMAIN thread', via : Source]]
  BY <1>3, <1>4, <1>5
<1> QED
  BY <1>1, <1>2, <1>6 DEF ThreadTypes

\* The loops stay typed while the thread grows.
LEMMA LoopGrows ==
  ASSUME LoopTypes, ThreadTypes, NEW msg \in Msg, thread' = Append(thread, msg),
         UNCHANGED <<pc, cur, first, owner>>
  PROVE  LoopTypes'
<1>1. /\ Len(thread) \in Nat /\ Len(thread') = Len(thread) + 1
      /\ \A m \in DOMAIN thread : m \in DOMAIN thread'
  BY Appended DEF ThreadTypes
<1>2. 0 .. Len(thread) \subseteq 0 .. Len(thread')
  BY <1>1
<1>3. cur \in [Bot -> 0 .. Len(thread')]
  BY <1>2 DEF LoopTypes
<1>4. first \in [Bot -> [at : 0 .. Len(thread'), names : SUBSET Bot]]
  BY <1>2 DEF LoopTypes
<1> QED
  BY <1>1, <1>3, <1>4 DEF LoopTypes

\* An event loop that becomes idle is typed.
LEMMA IdleTypes ==
  ASSUME LoopTypes, NEW b \in Bot, Idle(b), UNCHANGED thread, thread \in Seq(Msg)
  PROVE  LoopTypes'
<1>1. Len(thread) \in Nat /\ NoReply \in [at : 0 .. Len(thread), names : SUBSET Bot]
  BY DEF NoReply
<1> QED
  BY <1>1 DEF LoopTypes, Idle

\* So it is when a message appears with it.
LEMMA IdleGrows ==
  ASSUME LoopTypes, ThreadTypes, NEW b \in Bot, NEW msg \in Msg,
         thread' = Append(thread, msg), Idle(b)
  PROVE  LoopTypes'
<1>1. /\ Len(thread) \in Nat /\ Len(thread') = Len(thread) + 1
      /\ \A m \in DOMAIN thread : m \in DOMAIN thread'
  BY Appended DEF ThreadTypes
<1>2. 0 .. Len(thread) \subseteq 0 .. Len(thread') /\ 0 \in 0 .. Len(thread')
  BY <1>1
<1>3. NoReply \in [at : 0 .. Len(thread'), names : SUBSET Bot]
  BY <1>2 DEF NoReply
<1>4. cur' \in [Bot -> 0 .. Len(thread')]
  BY <1>2 DEF LoopTypes, Idle
<1>5. first' \in [Bot -> [at : 0 .. Len(thread'), names : SUBSET Bot]]
  BY <1>2, <1>3 DEF LoopTypes, Idle
<1> QED
  BY <1>1, <1>4, <1>5 DEF LoopTypes, Idle

\* Either the event loop goes on to answer, or it is done.
LEMMA DecideTypes ==
  ASSUME LoopTypes, NEW b \in Bot, NEW own, Decide(b, own), UNCHANGED thread,
         thread \in Seq(Msg), pc[b] # "idle"
  PROVE  LoopTypes'
<1>1. CASE Goto(b, "replying") /\ UNCHANGED <<cur, first, owner>>
  BY <1>1 DEF LoopTypes, Goto
<1>2. CASE Idle(b)
  BY <1>2, IdleTypes
<1> QED
  BY <1>1, <1>2 DEF Decide

\* FirstReply: the first of the CEO's replies among the first n messages.
LEMMA FirstReplyIs ==
  ASSUME ThreadTypes, NEW n \in 0 .. Len(thread), FirstReply(n) # NoReply
  PROVE  \E m \in CeoReplies(n) : /\ FirstReply(n) = [at |-> m, names |-> thread[m].shown]
                                  /\ \A k \in CeoReplies(n) : m <= k
<1>1. CeoReplies(n) # {}
  BY DEF FirstReply
<1>2. CeoReplies(n) \in SUBSET Nat
  BY DEF CeoReplies
<1>3. \E m \in CeoReplies(n) : \A k \in CeoReplies(n) : m <= k
  BY <1>1, <1>2, Smallest
<1> DEFINE m == CHOOSE m \in CeoReplies(n) : \A k \in CeoReplies(n) : m <= k
<1>4. m \in CeoReplies(n) /\ \A k \in CeoReplies(n) : m <= k
  BY <1>3
<1>5. FirstReply(n) = [at |-> m, names |-> thread[m].shown]
  BY <1>1 DEF FirstReply
<1> QED
  BY <1>4, <1>5

\* The first reply of a fetch is one of the thread, or none.
LEMMA FirstReplyType ==
  ASSUME ThreadTypes, NEW n \in 0 .. Len(thread)
  PROVE  FirstReply(n) \in [at : 0 .. Len(thread), names : SUBSET Bot]
<1>1. Len(thread) \in Nat /\ DOMAIN thread = 1 .. Len(thread) /\ n \in Nat /\ n <= Len(thread)
  BY DEF ThreadTypes
<1>2. CASE FirstReply(n) = NoReply
  BY <1>1, <1>2 DEF NoReply
<1>3. CASE FirstReply(n) # NoReply
  <2>1. PICK m \in CeoReplies(n) : FirstReply(n) = [at |-> m, names |-> thread[m].shown]
    BY <1>3, FirstReplyIs
  <2>2. m \in 0 .. Len(thread) /\ thread[m] \in Msg
    BY <1>1, <2>1 DEF CeoReplies, ThreadTypes
  <2> QED
    BY <2>1, <2>2 DEF Msg
<1> QED
  BY <1>2, <1>3

\* The CEO's steps, and those of the event loop of bot b.
LEMMA HumanTypes == Types /\ Human => Types'
<1> SUFFICES ASSUME ThreadTypes, LoopTypes, RestTypes, Human
             PROVE  ThreadTypes' /\ LoopTypes' /\ RestTypes'
  BY DEF Types
<1>1. ASSUME NEW names \in SUBSET Squad, NEW cue \in setup.cues, Say(names, cue)
      PROVE  ThreadTypes' /\ LoopTypes' /\ RestTypes'
  <2> DEFINE msg == Message(Ceo, names, cue, 0, FALSE)
  <2>1. msg \in Msg /\ msg.to = 0
    <3>1. /\ names \in SUBSET Bot /\ cue \in BOOLEAN
          /\ 0 \in Nat /\ FALSE \in BOOLEAN /\ Ceo \in Bot \cup {Ceo}
      BY SetupType DEF Squad, RestTypes
    <3> QED
      BY <3>1 DEF Message, Msg
  <2>2. AppearAfter(msg, [b \in Bot |-> {}])
    BY <1>1 DEF Say, Appear
  <2>3. 0 <= Len(thread)
    BY DEF ThreadTypes
  <2>4. ThreadTypes'
    BY <1>1, <2>1, <2>2, <2>3, AppearTypes DEF Say
  <2>5. LoopTypes'
    BY <1>1, <2>1, <2>2, LoopGrows DEF Say, AppearAfter
  <2> QED
    BY <1>1, <2>4, <2>5 DEF RestTypes, Say, NoFault
<1>2. ASSUME NEW m \in DOMAIN thread, Delete(m) PROVE ThreadTypes' /\ LoopTypes' /\ RestTypes'
  <2>1. "delete" \in FaultKind
    BY DEF FaultKind
  <2>2. RestTypes'
    BY <1>2, <2>1, FaultType DEF Delete, RestTypes
  <2> QED
    BY <1>2, <2>2 DEF ThreadTypes, LoopTypes, Delete
<1>3. ASSUME NEW m \in DOMAIN thread, NEW names \in SUBSET Squad, Edit(m, names)
      PROVE  ThreadTypes' /\ LoopTypes' /\ RestTypes'
  <2>1. "edit" \in FaultKind
    BY DEF FaultKind
  <2>2. RestTypes'
    BY <1>3, <2>1, FaultType DEF Edit, RestTypes
  <2>3. /\ thread' \in Seq(Msg) /\ Len(thread') = Len(thread) /\ DOMAIN thread' = DOMAIN thread
        /\ \A k \in DOMAIN thread : thread'[k].to = thread[k].to
    <3>1. [thread[m] EXCEPT !.shown = names] \in Msg
      <4>1. names \in SUBSET Bot
        BY SetupType DEF Squad, RestTypes
      <4>2. thread[m] \in Msg
        BY DEF ThreadTypes
      <4> QED
        BY <4>1, <4>2 DEF Msg
    <3>2. thread' = [thread EXCEPT ![m] = [thread[m] EXCEPT !.shown = names]]
      BY <1>3 DEF Edit
    <3>3. [thread[m] EXCEPT !.shown = names].to = thread[m].to
      BY DEF ThreadTypes, Msg
    <3> QED
      BY <3>1, <3>2, <3>3 DEF ThreadTypes
  <2>4. ThreadTypes'
    BY <1>3, <2>3 DEF ThreadTypes, Edit
  <2>5. LoopTypes'
    BY <1>3, <2>3 DEF LoopTypes, Edit
  <2> QED
    BY <2>2, <2>4, <2>5
<1> QED
  BY <1>1, <1>2, <1>3 DEF Human

\* An event belongs to a message of the thread.
LEMMA EventType ==
  ASSUME ThreadTypes, NEW b \in Bot, NEW e \in todo[b]
  PROVE  /\ e.of \in DOMAIN thread /\ e.of \in Nat /\ e.of <= Len(thread)
         /\ Len(thread) \in Nat /\ DOMAIN thread = 1 .. Len(thread)
  BY DEF ThreadTypes

\* The router's steps keep the types.
LEMMA RouterTypes ==
  ASSUME Types, NEW b \in Bot, NEW e \in todo[b],
         Acknowledge(b, e) \/ AcknowledgeDropped(b, e) \/ FetchFails(b, e)
  PROVE  Types'
<1> USE DEF Types
<1>1. CASE Acknowledge(b, e)
  <2> DEFINE msg == Message(b, {}, FALSE, e.of, TRUE)
             done == [c \in Bot |-> IF c = b THEN {e} ELSE {}]
  <2>1. msg \in Msg /\ msg.to = e.of
    <3>1. /\ e.of \in Nat /\ {} \in SUBSET Bot /\ b \in Bot \cup {Ceo}
          /\ FALSE \in BOOLEAN /\ TRUE \in BOOLEAN
      BY EventType
    <3> QED
      BY <3>1 DEF Message, Msg
  <2>2. AppearAfter(msg, done)
    BY <1>1 DEF Acknowledge
  <2> HIDE DEF msg, done
  <2>3. ThreadTypes'
    BY <1>1, <2>1, <2>2, AppearTypes, EventType DEF Acknowledge
  <2>4. LoopTypes'
    BY <1>1, <2>1, <2>2, LoopGrows DEF Acknowledge, AppearAfter
  <2> QED
    BY <1>1, <2>3, <2>4 DEF RestTypes, Acknowledge, NoFault
<1>2. CASE AcknowledgeDropped(b, e) \/ FetchFails(b, e)
  <2>1. RestTypes'
    <3>1. {"silent", "fetch_error"} \subseteq FaultKind
      BY DEF FaultKind
    <3>2. (faults' \in Nat /\ seen' \subseteq FaultKind) \/ UNCHANGED <<faults, seen>>
      BY <1>2, <3>1, FaultType DEF AcknowledgeDropped, FetchFails, NoFault
    <3> QED
      BY <1>2, <3>2 DEF AcknowledgeDropped, FetchFails, RestTypes
  <2>2. todo' = [todo EXCEPT ![b] = @ \ {e}] /\ UNCHANGED <<thread, gone, pc, cur, first, owner>>
    BY <1>2 DEF AcknowledgeDropped, FetchFails
  <2>3. ThreadTypes'
    BY <2>2 DEF ThreadTypes
  <2>4. LoopTypes'
    BY <2>2 DEF LoopTypes
  <2> QED
    BY <2>1, <2>3, <2>4
<1> QED
  BY <1>1, <1>2

\* A fetch keeps the types.
LEMMA FetchTypes ==
  ASSUME Types, NEW b \in Bot, NEW e \in todo[b], Fetch(b, e)
  PROVE  Types'
<1> USE DEF Types
<1>1. /\ todo' = [todo EXCEPT ![b] = @ \ {e}]
      /\ cur' = [cur EXCEPT ![b] = e.of]
      /\ pc' = [pc EXCEPT ![b] = IF FromCeo(e.of) THEN "resolving" ELSE "replying"]
      /\ UNCHANGED <<thread, gone, owner, key, setup>>
  BY DEF Fetch, Take, Goto
<1>2. Len(thread) \in Nat /\ Len(thread) \in 0 .. Len(thread)
  BY DEF ThreadTypes
<1>3. PICK n \in 0 .. Len(thread) : first' = [first EXCEPT ![b] = FirstReply(n)]
  BY <1>2 DEF Fetch
<1>4. FirstReply(n) \in [at : 0 .. Len(thread), names : SUBSET Bot]
  BY FirstReplyType
<1>5. RestTypes'
  <2>1. "stale" \in FaultKind
    BY DEF FaultKind
  <2> QED
    BY <1>1, <2>1, FaultType DEF Fetch, NoFault, RestTypes
<1>6. ThreadTypes'
  BY <1>1 DEF ThreadTypes
<1>7. LoopTypes'
  BY <1>1, <1>3, <1>4, EventType DEF LoopTypes
<1> QED
  BY <1>5, <1>6, <1>7

\* Who is named alone.
LEMMA TheType == ASSUME NEW S \in SUBSET Bot PROVE The(S) \in Bot \cup {NoBot}
<1>1. CASE Cardinality(S) = 1 /\ S # {}
  <2>1. (CHOOSE x \in S : TRUE) \in S
    BY <1>1
  <2> QED
    BY <1>1, <2>1 DEF The
<1>2. CASE Cardinality(S) = 1 /\ S = {}
  BY <1>2, FS_EmptySet
<1>3. CASE Cardinality(S) # 1
  BY <1>3 DEF The
<1> QED
  BY <1>1, <1>2, <1>3

\* The owner a pod can see; a message in the thread is never needed for it.
LEMMA OwnerInViewIs ==
  ASSUME NEW b
  PROVE  OwnerInView(b) = IF first[b].at # 0 THEN The(first[b].names) ELSE NoBot
  BY DEF OwnerInView, IsFirstReply

\* Resolving and storing the owner keep the types.
LEMMA ResolveTypes ==
  ASSUME Types, NEW b \in Bot, Resolve(b) \/ ResolveFails(b) \/ Store(b)
  PROVE  Types'
<1> USE DEF Types
<1>1. thread \in Seq(Msg) /\ UNCHANGED <<thread, gone, todo, setup>>
  BY DEF ThreadTypes, Resolve, ResolveFails, Store
<1>2. ThreadTypes'
  BY <1>1 DEF ThreadTypes
<1>3. CASE Resolve(b)
  <2>1. pc[b] = "resolving" /\ UNCHANGED <<key, faults, seen>>
    BY <1>3 DEF Resolve, NoFault
  <2>2. RestTypes'
    BY <1>1, <2>1 DEF RestTypes
  <2>3. CASE \E own : Decide(b, own)
    BY <1>1, <1>2, <2>1, <2>2, <2>3, DecideTypes
  <2>4. CASE Idle(b)
    BY <1>1, <1>2, <2>2, <2>4, IdleTypes
  <2>5. CASE /\ owner' = [owner EXCEPT ![b] = OwnerInView(b)] /\ Goto(b, "storing")
             /\ UNCHANGED <<cur, first>>
    <3>1. OwnerInView(b) \in Bot \cup {NoBot}
      BY OwnerInViewIs, TheType DEF LoopTypes
    <3>2. LoopTypes'
      BY <1>1, <2>1, <2>5, <3>1 DEF LoopTypes, Goto
    <3> QED
      BY <1>2, <2>2, <3>2
  <2> QED
    BY <1>3, <2>3, <2>4, <2>5 DEF Resolve
<1>4. CASE ResolveFails(b)
  <2>1. RestTypes'
    <3>1. "get_error" \in FaultKind
      BY DEF FaultKind
    <3> QED
      BY <1>1, <1>4, <3>1, FaultType DEF RestTypes, ResolveFails
  <2> QED
    BY <1>1, <1>2, <1>4, <2>1, IdleTypes DEF ResolveFails
<1>5. CASE Store(b)
  <2>1. key' \in Bot \cup {NoBot}
    BY <1>5 DEF Store, LoopTypes, RestTypes
  <2>2. RestTypes'
    <3>1. "set_error" \in FaultKind
      BY DEF FaultKind
    <3> QED
      BY <1>1, <1>5, <2>1, <3>1, FaultType DEF RestTypes, Store, NoFault
  <2>3. pc[b] # "idle" /\ Decide(b, owner[b])
    BY <1>5 DEF Store
  <2> QED
    BY <1>1, <1>2, <2>2, <2>3, DecideTypes
<1> QED
  BY <1>3, <1>4, <1>5

\* What a reply appends.
LEMMA ReplyIs ==
  ASSUME Types, NEW b \in Squad, Reply(b)
  PROVE  /\ cur[b] \in DOMAIN thread /\ cur[b] \in Nat /\ cur[b] <= Len(thread)
         /\ \E msg \in Msg :
              /\ msg.by = b /\ msg.to = cur[b] /\ msg.shown = msg.names
              /\ AppearAfter(msg, [c \in Bot |-> {}])
              /\ (faults' \in Nat /\ seen' \subseteq FaultKind /\ seen \subseteq seen')
                 \/ UNCHANGED <<faults, seen>>
<1> USE DEF Types
<1>1. cur[b] \in DOMAIN thread /\ cur[b] \in Nat /\ cur[b] <= Len(thread) /\ b \in Bot
  BY SetupType DEF Reply, LoopTypes, ThreadTypes, Squad, RestTypes
<1>2. PICK names \in MayName(b), cue \in BOOLEAN :
        /\ AppearAfter(Message(b, names, cue, cur[b], FALSE), [c \in Bot |-> {}])
        /\ NoFault \/ Fault("cue")
  BY DEF Reply, Appear
<1>3. names \in SUBSET Bot
  BY SetupType DEF MayName, Squad, RestTypes
<1> DEFINE msg == Message(b, names, cue, cur[b], FALSE)
<1>4. msg \in Msg /\ msg.by = b /\ msg.to = cur[b] /\ msg.shown = msg.names
  BY <1>1, <1>3 DEF Message, Msg
<1>5. \/ faults' \in Nat /\ seen' \subseteq FaultKind /\ seen \subseteq seen'
      \/ UNCHANGED <<faults, seen>>
  <2>1. "cue" \in FaultKind
    BY DEF FaultKind
  <2> QED
    BY <1>2, <2>1, FaultType DEF NoFault, Fault
<1> QED
  BY <1>1, <1>2, <1>4, <1>5

\* Replies, dropped replies and crashes keep the types.
LEMMA ReplyTypes ==
  ASSUME Types, NEW b \in Squad, Reply(b) \/ ReplyDropped(b) \/ Crash(b)
  PROVE  Types'
<1> USE DEF Types
<1>0. b \in Bot /\ thread \in Seq(Msg)
  BY SetupType DEF Squad, RestTypes, ThreadTypes
<1>1. CASE Reply(b)
  <2>1. PICK msg \in Msg :
          /\ msg.to <= Len(thread)
          /\ AppearAfter(msg, [c \in Bot |-> {}])
          /\ (faults' \in Nat /\ seen' \subseteq FaultKind) \/ UNCHANGED <<faults, seen>>
    BY <1>1, ReplyIs
  <2>2. ThreadTypes'
    BY <1>1, <2>1, AppearTypes DEF Reply
  <2>3. LoopTypes'
    BY <1>0, <1>1, <2>1, IdleGrows DEF Reply, AppearAfter
  <2> QED
    BY <1>1, <2>1, <2>2, <2>3 DEF RestTypes, Reply
<1>2. CASE ReplyDropped(b) \/ Crash(b)
  <2>1. {"silent", "crash"} \subseteq FaultKind
    BY DEF FaultKind
  <2>2. (faults' \in Nat /\ seen' \subseteq FaultKind) \/ UNCHANGED <<faults, seen>>
    BY <1>2, <2>1, FaultType DEF ReplyDropped, Crash, NoFault
  <2>3. UNCHANGED <<thread, gone, todo, key, setup>> /\ Idle(b)
    BY <1>2 DEF ReplyDropped, Crash
  <2>4. LoopTypes'
    BY <1>0, <2>3, IdleTypes
  <2> QED
    BY <2>2, <2>3, <2>4 DEF ThreadTypes, RestTypes
<1> QED
  BY <1>1, <1>2

\* Every step keeps the types.
LEMMA TypesStep == Types /\ [Next]_vars => Types'
<1> SUFFICES ASSUME Types, [Next]_vars PROVE Types'
  OBVIOUS
<1>1. CASE UNCHANGED vars
  BY <1>1 DEF vars, Types, ThreadTypes, LoopTypes, RestTypes
<1>2. CASE Human
  BY <1>2, HumanTypes
<1>3. ASSUME NEW b \in Squad, BotStep(b) \/ Crash(b) PROVE Types'
  <2>1. b \in Bot
    BY SetupType DEF Squad, Types, RestTypes
  <2> QED
    BY <1>3, <2>1, RouterTypes, FetchTypes, ResolveTypes, ReplyTypes DEF BotStep
<1>4. CASE Expire
  <2>1. "expire" \in FaultKind
    BY DEF FaultKind
  <2> QED
    BY <1>4, <2>1, FaultType DEF Expire, Types, ThreadTypes, LoopTypes, RestTypes
<1> QED
  BY <1>1, <1>2, <1>3, <1>4 DEF Next

\* The initial state is typed.
LEMMA TypesInit == Init => Types
  BY DEF Init, Types, ThreadTypes, LoopTypes, RestTypes, NoReply

\* The thread, the events and the event loops stay in their types; above all,
\* whatever answers a message comes after it.
THEOREM TypeCorrect == Spec => []TypeOK
<1>1. Types => TypeOK
  BY DEF Types, TypeOK, ThreadTypes, LoopTypes, RestTypes, Msg
<1> QED
  BY <1>1, TypesInit, TypesStep, PTL DEF Spec
-----------------------------------------------------------------------------
(***************************************************************************)
(* Owners and voices.                                                      *)
(***************************************************************************)
\* Nothing was edited, so what a fetch shows is what was written.
Pristine == gone = {} /\ \A m \in DOMAIN thread : thread[m].shown = thread[m].names

\* All knowledge about the owner comes from the first reply.
OwnersKnown ==
  /\ key \in Named \cup {NoBot}
  /\ \A b \in Bot : owner[b] \in Named \cup {NoBot}
  /\ \A b \in Bot : first[b].at # 0 =>
       first[b].at \in FirstCeo /\ first[b].names = thread[first[b].at].names

\* Who may answer message m of the CEO.
Owners == IF setup.root \in Bot THEN {setup.root} ELSE Named
May(b, m) == IF thread[m].names # {} THEN b \in thread[m].names ELSE b \in Owners

\* Only those answer who may, and only those go on to answer.
Voices ==
  /\ \A b \in Bot : pc[b] = "storing" => setup.root \notin Bot
  /\ \A b \in Bot : pc[b] = "replying" /\ FromCeo(cur[b]) => May(b, cur[b])
  /\ \A r \in DOMAIN thread :
       ~thread[r].ack /\ thread[r].to # 0 /\ FromCeo(thread[r].to)
       => May(thread[r].by, thread[r].to)

Clean == Pristine /\ OwnersKnown /\ Voices
VoiceInv == Types /\ (Unedited => Clean)

\* The first reply stays the first one.
LEMMA FirstStays ==
  ASSUME ThreadTypes, NEW msg \in Msg, thread' = Append(thread, msg)
  PROVE  FirstCeo \subseteq FirstCeo' /\ Named \subseteq Named'
<1>1. /\ DOMAIN thread = 1 .. Len(thread) /\ Len(thread) \in Nat
      /\ \A m \in DOMAIN thread : m \in DOMAIN thread' /\ thread'[m] = thread[m]
  BY Appended DEF ThreadTypes
<1>2. ASSUME NEW m \in FirstCeo PROVE m \in FirstCeo' /\ thread'[m] = thread[m]
  <2>1. /\ m \in DOMAIN thread /\ thread[m].by = Ceo
        /\ \A k \in 1 .. m - 1 : thread[k].by # Ceo
    BY DEF FirstCeo, FromCeo
  <2>2. \A k \in 1 .. m - 1 : k \in DOMAIN thread
    BY <1>1, <2>1
  <2>3. \A k \in 1 .. m - 1 : thread'[k].by # Ceo
    BY <1>1, <2>1, <2>2
  <2> QED
    BY <1>1, <2>1, <2>3 DEF FirstCeo, FromCeo
<1>3. ASSUME NEW o \in Named PROVE o \in Named'
  <2>1. PICK m \in FirstCeo : o = The(thread[m].names) /\ o # NoBot
    BY DEF Named
  <2>2. m \in FirstCeo' /\ o = The(thread'[m].names)
    BY <1>2, <2>1
  <2> QED
    BY <2>1, <2>2 DEF Named, The
<1> QED
  BY <1>2, <1>3

\* A new message that answers as it may keeps everything clean.
LEMMA CleanGrows ==
  ASSUME Types, Clean, NEW msg \in Msg, msg.shown = msg.names, msg.to <= Len(thread),
         thread' = Append(thread, msg), UNCHANGED <<gone, key, setup>>,
         UNCHANGED <<pc, cur, first, owner>> \/ \E b \in Bot : Idle(b),
         ~msg.ack /\ msg.to # 0 /\ FromCeo(msg.to) => May(msg.by, msg.to)
  PROVE  Clean'
<1> DEFINE n == Len(thread) + 1
<1>1. /\ Len(thread) \in Nat /\ DOMAIN thread = 1 .. Len(thread) /\ DOMAIN thread' = 1 .. n
      /\ \A m \in DOMAIN thread : m \in DOMAIN thread' /\ thread'[m] = thread[m]
      /\ thread'[n] = msg
  BY Appended DEF Types, ThreadTypes
<1>2. FirstCeo \subseteq FirstCeo' /\ Named \subseteq Named'
  BY FirstStays DEF Types
<1>3. Pristine'
  BY <1>1 DEF Clean, Pristine
<1>4. \A b \in Bot : \/ pc'[b] = "idle" /\ owner'[b] = NoBot /\ first'[b].at = 0
                     \/ /\ pc'[b] = pc[b] /\ cur'[b] = cur[b]
                        /\ first'[b] = first[b] /\ owner'[b] = owner[b]
  BY DEF Types, LoopTypes, Idle, NoReply
<1>5. OwnersKnown'
  <2>1. ASSUME NEW b \in Bot, first'[b].at # 0
        PROVE  first'[b].at \in FirstCeo' /\ first'[b].names = thread'[first'[b].at].names
    <3>1. first'[b] = first[b] /\ first[b].at \in FirstCeo
      BY <1>4, <2>1 DEF Clean, OwnersKnown
    <3>2. first[b].at \in DOMAIN thread
      BY <3>1 DEF FirstCeo
    <3> QED
      BY <1>1, <1>2, <2>1, <3>1, <3>2 DEF Clean, OwnersKnown
  <2> QED
    BY <1>2, <1>4, <2>1 DEF Clean, OwnersKnown
<1>6. ASSUME NEW b, NEW m \in DOMAIN thread, May(b, m) PROVE May(b, m)'
  BY <1>1, <1>2, <1>6 DEF May, Owners
<1>7. \A b \in Bot : pc'[b] = "storing" => setup'.root \notin Bot
  BY <1>4 DEF Clean, Voices
<1>8. ASSUME NEW b \in Bot, pc'[b] = "replying", thread'[cur'[b]].by = Ceo
      PROVE  May(b, cur[b])' /\ cur'[b] = cur[b]
  <2>1. pc[b] = "replying" /\ cur'[b] = cur[b] /\ cur[b] \in DOMAIN thread
    BY <1>4, <1>8 DEF Types, LoopTypes
  <2>2. May(b, cur[b])
    BY <1>1, <1>8, <2>1 DEF Clean, Voices, FromCeo
  <2> QED
    BY <1>1, <1>2, <2>1, <2>2 DEF May, Owners
<1>9. ASSUME NEW r \in DOMAIN thread', ~thread'[r].ack, thread'[r].to # 0,
             thread'[thread'[r].to].by = Ceo
      PROVE  May(thread[r].by, thread[r].to)'
  <2>1. CASE r \in DOMAIN thread
    <3>1. thread'[r] = thread[r] /\ thread[r] \in Msg /\ thread[r].to < r
      BY <1>1, <2>1 DEF Types, ThreadTypes
    <3>2. thread[r].to \in DOMAIN thread
      BY <1>1, <1>9, <2>1, <3>1 DEF Msg
    <3>3. May(thread[r].by, thread[r].to)
      BY <1>1, <1>9, <2>1, <3>1, <3>2 DEF Clean, Voices, FromCeo
    <3> QED
      BY <1>1, <1>2, <3>1, <3>2, <3>3 DEF May, Owners
  <2>2. CASE r = n
    <3>1. thread'[r] = msg /\ msg.to \in DOMAIN thread
      BY <1>1, <1>9, <2>2 DEF Msg
    <3>2. May(msg.by, msg.to)
      BY <1>1, <1>9, <3>1 DEF FromCeo
    <3> QED
      BY <1>1, <1>2, <3>1, <3>2 DEF May, Owners
  <2> QED
    BY <1>1, <2>1, <2>2
<1>10. Voices'
  BY <1>7, <1>8, <1>9 DEF Voices, FromCeo
<1> QED
  BY <1>3, <1>5, <1>10 DEF Clean

\* A lost key changes nothing.
LEMMA CleanSame ==
  ASSUME Clean, UNCHANGED <<thread, gone, pc, cur, first, owner, setup>>,
         key' \in Named \cup {NoBot}
  PROVE  Clean'
<1>1. Pristine'
  BY DEF Clean, Pristine
<1>2. FirstCeo' = FirstCeo /\ Named' = Named
  BY DEF FirstCeo, Named, FromCeo, The
<1>3. OwnersKnown'
  BY <1>2 DEF Clean, OwnersKnown
<1>4. Voices'
  BY <1>2 DEF Clean, Voices, May, Owners, FromCeo
<1> QED
  BY <1>1, <1>3, <1>4 DEF Clean

\* A pod that becomes idle knows nothing.
LEMMA CleanIdle ==
  ASSUME Types, Clean, NEW b \in Bot, Idle(b), UNCHANGED <<thread, gone, setup>>,
         key' \in Named \cup {NoBot}
  PROVE  Clean'
<1>1. \A c \in Bot : \/ pc'[c] = "idle" /\ owner'[c] = NoBot /\ first'[c].at = 0
                     \/ /\ pc'[c] = pc[c] /\ cur'[c] = cur[c]
                        /\ first'[c] = first[c] /\ owner'[c] = owner[c]
  BY DEF Types, LoopTypes, Idle, NoReply
<1>2. Pristine'
  BY DEF Clean, Pristine
<1>3. FirstCeo' = FirstCeo /\ Named' = Named
  BY DEF FirstCeo, Named, FromCeo, The
<1>4. OwnersKnown'
  BY <1>1, <1>3 DEF Clean, OwnersKnown
<1>5. Voices'
  BY <1>1, <1>3 DEF Clean, Voices, May, Owners, FromCeo
<1> QED
  BY <1>2, <1>4, <1>5 DEF Clean

\* threadRoutingShouldReply: who goes on to answer may answer.
LEMMA CleanDecide ==
  ASSUME Types, Clean, NEW b \in Bot, NEW own \in Owners \cup {NoBot}, Decide(b, own),
         UNCHANGED <<thread, gone, setup>>, key' \in Named \cup {NoBot}
  PROVE  Clean'
<1>1. CASE ShouldReply(b, own, cur[b]) /\ Goto(b, "replying") /\ UNCHANGED <<cur, first, owner>>
  <2>1. May(b, cur[b])
    BY <1>1 DEF ShouldReply, May
  <2>2. FirstCeo' = FirstCeo /\ Named' = Named
    BY DEF FirstCeo, Named, FromCeo, The
  <2>3. pc' = [pc EXCEPT ![b] = "replying"]
    BY <1>1 DEF Goto
  <2>4. Voices'
    BY <1>1, <2>1, <2>2, <2>3 DEF Clean, Voices, May, Owners, FromCeo, Types, LoopTypes
  <2> QED
    BY <1>1, <2>2, <2>4 DEF Clean, Pristine, OwnersKnown
<1>2. CASE Idle(b)
  BY <1>2, CleanIdle
<1> QED
  BY <1>1, <1>2 DEF Decide

\* Faults are never forgotten.
LEMMA SeenGrows == Types /\ [Next]_vars => seen \subseteq seen'
<1> SUFFICES ASSUME Types, [Next]_vars PROVE seen \subseteq seen'
  OBVIOUS
<1>1. CASE UNCHANGED vars
  BY <1>1 DEF vars
<1>2. CASE Human
  BY <1>2 DEF Human, Say, Delete, Edit, NoFault, Fault
<1>3. ASSUME NEW b \in Squad, BotStep(b) \/ Crash(b) PROVE seen \subseteq seen'
  <2>1. ASSUME NEW e \in todo[b],
               Acknowledge(b, e) \/ AcknowledgeDropped(b, e) \/ Fetch(b, e) \/ FetchFails(b, e)
        PROVE  seen \subseteq seen'
    BY <2>1 DEF Acknowledge, AcknowledgeDropped, Fetch, FetchFails, NoFault, Fault
  <2>2. CASE Resolve(b) \/ ResolveFails(b) \/ Store(b)
    BY <2>2 DEF Resolve, ResolveFails, Store, NoFault, Fault
  <2>3. CASE Reply(b)
    BY <2>3, ReplyIs
  <2>4. CASE ReplyDropped(b) \/ Crash(b)
    BY <2>4 DEF ReplyDropped, Crash, NoFault, Fault
  <2> QED
    BY <1>3, <2>1, <2>2, <2>3, <2>4 DEF BotStep
<1>4. CASE Expire
  BY <1>4 DEF Expire, Fault
<1> QED
  BY <1>1, <1>2, <1>3, <1>4 DEF Next

\* The event loop fetches: the first reply it sees is the first reply.
LEMMA CleanFetch ==
  ASSUME Types, Clean, NEW b \in Bot, NEW e \in todo[b], Fetch(b, e)
  PROVE  Clean'
<1>1. /\ cur' = [cur EXCEPT ![b] = e.of]
      /\ pc' = [pc EXCEPT ![b] = IF FromCeo(e.of) THEN "resolving" ELSE "replying"]
      /\ UNCHANGED <<thread, gone, owner, key, setup>>
  BY DEF Fetch, Take, Goto
<1>2. Len(thread) \in Nat /\ DOMAIN thread = 1 .. Len(thread)
  BY DEF Types, ThreadTypes
<1>3. PICK n \in 0 .. Len(thread) : first' = [first EXCEPT ![b] = FirstReply(n)]
  BY <1>2 DEF Fetch
<1>4. FirstReply(n).at # 0 =>
        /\ FirstReply(n).at \in FirstCeo
        /\ FirstReply(n).names = thread[FirstReply(n).at].names
  <2> SUFFICES ASSUME FirstReply(n).at # 0
               PROVE  /\ FirstReply(n).at \in FirstCeo
                      /\ FirstReply(n).names = thread[FirstReply(n).at].names
    OBVIOUS
  <2>1. PICK m \in CeoReplies(n) : /\ FirstReply(n) = [at |-> m, names |-> thread[m].shown]
                                   /\ \A k \in CeoReplies(n) : m <= k
    BY FirstReplyIs DEF Types, NoReply
  <2>2. m \in 1 .. n /\ m \in DOMAIN thread /\ FromCeo(m)
    BY <1>2, <2>1 DEF CeoReplies
  <2>3. ASSUME NEW k \in 1 .. m - 1 PROVE ~FromCeo(k)
    <3>1. k \in 1 .. n /\ ~(m <= k)
      BY <2>2
    <3> QED
      BY <2>1, <3>1 DEF CeoReplies, Clean, Pristine
  <2>4. m \in FirstCeo
    BY <2>2, <2>3 DEF FirstCeo
  <2>5. thread[m].shown = thread[m].names
    BY <2>2 DEF Clean, Pristine
  <2> QED
    BY <2>1, <2>4, <2>5
<1>5. FirstCeo' = FirstCeo /\ Named' = Named
  BY <1>1 DEF FirstCeo, Named, FromCeo, The
<1>6. OwnersKnown'
  BY <1>1, <1>3, <1>4, <1>5 DEF Clean, OwnersKnown, Types, LoopTypes
<1>7. Voices'
  BY <1>1, <1>5 DEF Clean, Voices, May, Owners, FromCeo, Types, LoopTypes
<1> QED
  BY <1>1, <1>6, <1>7 DEF Clean, Pristine

\* The owner is settled.
LEMMA CleanResolve ==
  ASSUME Types, Clean, NEW b \in Bot, Resolve(b) \/ Store(b)
  PROVE  Clean'
<1>1. UNCHANGED <<thread, gone, setup>>
  BY DEF Resolve, Store
<1>2. CASE Resolve(b)
  <2>1. UNCHANGED key /\ key \in Named \cup {NoBot}
    BY <1>2 DEF Resolve, Clean, OwnersKnown
  <2>2. CASE setup.root \in Bot /\ Decide(b, setup.root)
    BY <1>1, <2>1, <2>2, CleanDecide DEF Owners
  <2>3. CASE setup.root \notin Bot /\ Decide(b, key)
    BY <1>1, <2>1, <2>3, CleanDecide DEF Owners
  <2>4. CASE Idle(b)
    BY <1>1, <2>1, <2>4, CleanIdle
  <2>5. CASE /\ setup.root \notin Bot
             /\ owner' = [owner EXCEPT ![b] = OwnerInView(b)] /\ Goto(b, "storing")
             /\ UNCHANGED <<cur, first>>
    <3>1. OwnerInView(b) \in Named \cup {NoBot}
      BY OwnerInViewIs DEF Clean, OwnersKnown, Named
    <3>2. FirstCeo' = FirstCeo /\ Named' = Named
      BY <1>1 DEF FirstCeo, Named, FromCeo, The
    <3>3. pc' = [pc EXCEPT ![b] = "storing"]
      BY <2>5 DEF Goto
    <3>4. OwnersKnown'
      BY <1>1, <2>1, <2>5, <3>1, <3>2 DEF Clean, OwnersKnown, Types, LoopTypes
    <3>5. Voices'
      BY <1>1, <2>5, <3>2, <3>3 DEF Clean, Voices, May, Owners, FromCeo, Types, LoopTypes
    <3> QED
      BY <1>1, <3>4, <3>5 DEF Clean, Pristine
  <2> QED
    BY <1>2, <2>2, <2>3, <2>4, <2>5 DEF Resolve
<1>3. CASE Store(b)
  <2>1. setup.root \notin Bot /\ owner[b] \in Named \cup {NoBot}
    BY <1>3 DEF Store, Clean, Voices, OwnersKnown
  <2>2. key' \in Named \cup {NoBot}
    BY <1>3, <2>1 DEF Store, Clean, OwnersKnown
  <2> QED
    BY <1>1, <1>3, <2>1, <2>2, CleanDecide DEF Store, Owners
<1> QED
  BY <1>2, <1>3

\* Every step keeps the thread clean, unless it edits.
LEMMA VoiceStep == VoiceInv /\ [Next]_vars => VoiceInv'
<1> SUFFICES ASSUME Types, Types', Clean, [Next]_vars, Unedited' PROVE Clean'
  BY TypesStep, SeenGrows DEF VoiceInv, Unedited
<1>1. CASE UNCHANGED vars
  <2>1. key \in Named \cup {NoBot}
    BY DEF Clean, OwnersKnown
  <2> QED
    BY <1>1, <2>1, CleanSame DEF vars
<1>2. CASE Human
  <2>1. ASSUME NEW names \in SUBSET Squad, NEW cue \in setup.cues, Say(names, cue) PROVE Clean'
    <3> DEFINE msg == Message(Ceo, names, cue, 0, FALSE)
    <3>1. names \in SUBSET Bot /\ cue \in BOOLEAN
      BY SetupType DEF Squad, Types, RestTypes
    <3>2. msg \in Msg /\ msg.to = 0 /\ msg.shown = msg.names
      BY <3>1 DEF Message, Msg
    <3>3. thread' = Append(thread, msg) /\ UNCHANGED <<gone, key, setup, pc, cur, first, owner>>
      BY <2>1 DEF Say, Appear, AppearAfter
    <3>4. 0 <= Len(thread)
      BY DEF Types, ThreadTypes
    <3> HIDE DEF msg
    <3> QED
      BY <3>2, <3>3, <3>4, CleanGrows
  <2>2. \A m, names : ~Delete(m) /\ ~Edit(m, names)
    BY DEF Delete, Edit, Fault, Unedited
  <2> QED
    BY <1>2, <2>1, <2>2 DEF Human
<1>3. ASSUME NEW b \in Squad, BotStep(b) \/ Crash(b) PROVE Clean'
  <2>0. b \in Bot /\ key \in Named \cup {NoBot}
    BY SetupType DEF Squad, Types, RestTypes, Clean, OwnersKnown
  <2>1. ASSUME NEW e \in todo[b], Acknowledge(b, e) PROVE Clean'
    <3> DEFINE msg == Message(b, {}, FALSE, e.of, TRUE)
    <3>1. e.of \in Nat /\ e.of <= Len(thread)
      BY <2>0, EventType DEF Types
    <3>2. msg \in Msg /\ msg.to = e.of /\ msg.ack /\ msg.shown = msg.names
      BY <2>0, <3>1 DEF Message, Msg
    <3>3. thread' = Append(thread, msg) /\ UNCHANGED <<gone, key, setup, pc, cur, first, owner>>
      BY <2>1 DEF Acknowledge, AppearAfter
    <3> HIDE DEF msg
    <3> QED
      BY <3>1, <3>2, <3>3, CleanGrows
  <2>2. ASSUME NEW e \in todo[b], AcknowledgeDropped(b, e) \/ FetchFails(b, e) PROVE Clean'
    BY <2>0, <2>2, CleanSame DEF AcknowledgeDropped, FetchFails
  <2>3. ASSUME NEW e \in todo[b], Fetch(b, e) PROVE Clean'
    BY <2>0, <2>3, CleanFetch
  <2>4. CASE Resolve(b) \/ Store(b)
    BY <2>0, <2>4, CleanResolve
  <2>5. CASE ResolveFails(b) \/ ReplyDropped(b) \/ Crash(b)
    BY <2>0, <2>5, CleanIdle DEF ResolveFails, ReplyDropped, Crash
  <2>6. CASE Reply(b)
    <3>1. PICK msg \in Msg :
            /\ msg.by = b /\ msg.to = cur[b] /\ msg.shown = msg.names
            /\ thread' = Append(thread, msg)
      BY <2>6, ReplyIs DEF AppearAfter
    <3>2. cur[b] <= Len(thread)
      BY <2>6, ReplyIs
    <3>3. pc[b] = "replying" /\ Idle(b) /\ UNCHANGED <<gone, key, setup>>
      BY <2>6 DEF Reply
    <3>4. FromCeo(msg.to) => May(msg.by, msg.to)
      BY <2>0, <3>1, <3>3 DEF Clean, Voices
    <3> QED
      BY <2>0, <3>1, <3>2, <3>3, <3>4, CleanGrows
  <2> QED
    BY <1>3, <2>1, <2>2, <2>3, <2>4, <2>5, <2>6 DEF BotStep
<1>4. CASE Expire
  BY <1>4, CleanSame DEF Expire
<1> QED
  BY <1>1, <1>2, <1>3, <1>4 DEF Next

\* At first nobody knows an owner, and nobody is about to answer.
LEMMA VoiceInit == Init => VoiceInv
<1> SUFFICES ASSUME Init PROVE VoiceInv
  OBVIOUS
<1>1. Types
  BY TypesInit
<1> QED
  BY <1>1 DEF Init, VoiceInv, Clean, Pristine, OwnersKnown, Voices, NoReply

\* There is one first reply, and so one owner.
LEMMA OneOwner ==
  ASSUME Types, NEW a \in Owners, NEW b \in Owners
  PROVE  a = b
<1>1. CASE setup.root \in Bot
  BY <1>1 DEF Owners
<1>2. CASE setup.root \notin Bot
  <2>1. PICK m, n \in FirstCeo : a = The(thread[m].names) /\ b = The(thread[n].names)
    BY <1>2 DEF Owners, Named
  <2>2. m \in DOMAIN thread /\ n \in DOMAIN thread /\ DOMAIN thread = 1 .. Len(thread)
        /\ Len(thread) \in Nat
    BY DEF FirstCeo, Types, ThreadTypes
  <2>3. ~(m < n) /\ ~(n < m)
    BY <2>2 DEF FirstCeo
  <2>4. m = n
    BY <2>2, <2>3
  <2> QED
    BY <2>1, <2>4
<1> QED
  BY <1>1, <1>2

\* The owner stored in Redis and the owner every pod resolves are the first
\* reply's choice, for every squad, whatever is stale, lost or expired.
THEOREM OwnerAgreement == Spec => []OwnersAgree
<1>1. VoiceInv => OwnersAgree
  BY DEF VoiceInv, Clean, OwnersKnown, OwnersAgree
<1> QED
  BY <1>1, VoiceInit, VoiceStep, PTL DEF Spec

\* "if the CEO @mentions squad members, only those respond; otherwise only the
\* thread owner responds": one bot at most answers a message that names
\* nobody, for every squad and every pattern of faults without edits.
THEOREM OnlyOneVoice == Spec => []OneVoice
<1>1. VoiceInv => OneVoice
  <2> SUFFICES ASSUME Types, Clean, NEW m \in DOMAIN thread, FromCeo(m)
               PROVE  IF thread[m].names # {} THEN Answerers(m) \subseteq thread[m].names
                      ELSE \A a, b \in Answerers(m) : a = b
    BY DEF VoiceInv, OneVoice
  <2>1. ASSUME NEW a \in Answerers(m) PROVE May(a, m)
    <3>1. PICK r \in DOMAIN thread : a = thread[r].by /\ thread[r].to = m /\ ~thread[r].ack
      BY DEF Answerers, Answers
    <3>2. m # 0
      BY DEF Types, ThreadTypes
    <3> QED
      BY <3>1, <3>2 DEF Clean, Voices
  <2>2. CASE thread[m].names # {}
    BY <2>1, <2>2 DEF May
  <2>3. CASE thread[m].names = {}
    BY <2>1, <2>3, OneOwner DEF May
  <2> QED
    BY <2>2, <2>3
<1> QED
  BY <1>1, VoiceInit, VoiceStep, PTL DEF Spec
-----------------------------------------------------------------------------
(***************************************************************************)
(* Acknowledgements.                                                       *)
(***************************************************************************)
\* An acknowledgement is a bot's, names nobody and holds no cue; so it becomes
\* an event nowhere, and no event loop ever handles one.
AckInv ==
  /\ \A m \in DOMAIN thread :
       thread[m].ack => thread[m].by # Ceo /\ thread[m].names = {} /\ ~thread[m].cue
  /\ \A b \in Bot : \A e \in todo[b] : ~thread[e.of].ack
  /\ \A b \in Bot : pc[b] # "idle" => ~thread[cur[b]].ack
  /\ AcksEndThere

TalkInv == Types /\ AckInv

\* Nothing is done about an acknowledgement.
LEMMA AckNoEvent ==
  ASSUME NEW n, NEW msg \in Msg, msg.ack, msg.by # Ceo, msg.names = {}, ~msg.cue, NEW b \in Bot
  PROVE  Events(n, msg, b) = {}
  BY DEF Events, Concerns, Acks, SquadFollowup

\* A new message that answers no acknowledgement keeps it so.
LEMMA AckGrows ==
  ASSUME Types, AckInv, NEW msg \in Msg, msg.to <= Len(thread), NEW done, AppearAfter(msg, done),
         msg.ack => msg.by # Ceo /\ msg.names = {} /\ ~msg.cue,
         msg.to # 0 => ~thread[msg.to].ack,
         UNCHANGED <<pc, cur>> \/ \E b \in Bot : Idle(b)
  PROVE  AckInv'
<1> DEFINE n == Len(thread) + 1
<1>1. /\ Len(thread) \in Nat /\ DOMAIN thread = 1 .. Len(thread) /\ DOMAIN thread' = 1 .. n
      /\ \A m \in DOMAIN thread : m \in DOMAIN thread' /\ thread'[m] = thread[m]
      /\ thread'[n] = msg
  BY Appended DEF Types, ThreadTypes, AppearAfter
<1>2. todo' = [b \in Bot |-> (todo[b] \ done[b]) \cup Events(n, msg, b)]
  BY DEF AppearAfter
<1>3. \A m \in DOMAIN thread' :
        thread'[m].ack => thread'[m].by # Ceo /\ thread'[m].names = {} /\ ~thread'[m].cue
  BY <1>1 DEF AckInv
<1>4. ASSUME NEW b \in Bot, NEW e \in todo'[b] PROVE ~thread'[e.of].ack
  <2>1. CASE e \in todo[b]
    <3>1. e.of \in DOMAIN thread /\ ~thread[e.of].ack
      BY <2>1, EventType DEF Types, AckInv
    <3> QED
      BY <1>1, <3>1
  <2>2. CASE e \in Events(n, msg, b)
    <3>1. ~msg.ack
      BY <2>2, AckNoEvent
    <3>2. e.of = n
      BY <2>2 DEF Events
    <3> QED
      BY <1>1, <3>1, <3>2
  <2> QED
    BY <1>2, <1>4, <2>1, <2>2
<1>5. ASSUME NEW b \in Bot, pc'[b] # "idle" PROVE ~thread'[cur'[b]].ack
  <2>1. pc[b] # "idle" /\ cur'[b] = cur[b]
    BY <1>5 DEF Idle, Types, LoopTypes
  <2>2. cur[b] \in DOMAIN thread /\ ~thread[cur[b]].ack
    BY <2>1 DEF Types, LoopTypes, AckInv
  <2> QED
    BY <1>1, <2>1, <2>2
<1>6. ASSUME NEW m \in DOMAIN thread', thread'[m].to # 0 PROVE ~thread'[thread'[m].to].ack
  <2>1. CASE m \in DOMAIN thread
    <3>1. thread'[m] = thread[m] /\ thread[m] \in Msg /\ thread[m].to < m
      BY <1>1, <2>1 DEF Types, ThreadTypes
    <3>2. thread[m].to \in DOMAIN thread /\ ~thread[thread[m].to].ack
      BY <1>1, <1>6, <2>1, <3>1 DEF Msg, AckInv, AcksEndThere
    <3> QED
      BY <1>1, <3>1, <3>2
  <2>2. CASE m = n
    <3>1. thread'[m] = msg /\ msg.to \in DOMAIN thread
      BY <1>1, <1>6, <2>2 DEF Msg
    <3> QED
      BY <1>1, <1>6, <3>1
  <2> QED
    BY <1>1, <2>1, <2>2
<1> QED
  BY <1>3, <1>4, <1>5, <1>6 DEF AckInv, AcksEndThere

\* No step answers an acknowledgement.
LEMMA AckStep == TalkInv /\ [Next]_vars => TalkInv'
<1> SUFFICES ASSUME Types, AckInv, [Next]_vars PROVE AckInv'
  BY TypesStep DEF TalkInv
<1>1. CASE UNCHANGED vars
  BY <1>1 DEF vars, AckInv, AcksEndThere
<1>2. CASE Human
  <2>1. ASSUME NEW names \in SUBSET Squad, NEW cue \in setup.cues, Say(names, cue) PROVE AckInv'
    <3> DEFINE msg == Message(Ceo, names, cue, 0, FALSE)
    <3>1. names \in SUBSET Bot /\ cue \in BOOLEAN /\ 0 <= Len(thread)
      BY SetupType DEF Squad, Types, RestTypes, ThreadTypes
    <3>2. msg \in Msg /\ msg.to = 0 /\ ~msg.ack
      BY <3>1 DEF Message, Msg
    <3>3. AppearAfter(msg, [b \in Bot |-> {}]) /\ UNCHANGED <<pc, cur>>
      BY <2>1 DEF Say, Appear
    <3> HIDE DEF msg
    <3> QED
      BY <3>1, <3>2, <3>3, AckGrows
  <2>2. ASSUME NEW m \in DOMAIN thread, Delete(m) PROVE AckInv'
    BY <2>2 DEF Delete, AckInv, AcksEndThere
  <2>3. ASSUME NEW m \in DOMAIN thread, NEW names, Edit(m, names) PROVE AckInv'
    <3>1. /\ thread' = [thread EXCEPT ![m] = [thread[m] EXCEPT !.shown = names]]
          /\ thread \in Seq(Msg) /\ UNCHANGED <<todo, pc, cur>>
      BY <2>3 DEF Edit, Types, ThreadTypes
    <3>2. DOMAIN thread' = DOMAIN thread
      BY <3>1
    <3>3. \A k \in DOMAIN thread :
            /\ thread'[k].by = thread[k].by /\ thread'[k].names = thread[k].names
            /\ thread'[k].cue = thread[k].cue /\ thread'[k].to = thread[k].to
            /\ thread'[k].ack = thread[k].ack
      <4>1. \A k \in DOMAIN thread : thread[k] \in Msg
        BY <3>1
      <4> QED
        BY <3>1, <4>1 DEF Msg
    <3>4. \A b \in Bot : \A e \in todo[b] : e.of \in DOMAIN thread
      BY EventType DEF Types
    <3>5. \A b \in Bot : pc[b] # "idle" => cur[b] \in DOMAIN thread
      BY DEF Types, LoopTypes
    <3>6. \A k \in DOMAIN thread : thread[k].to # 0 => thread[k].to \in DOMAIN thread
      <4> SUFFICES ASSUME NEW k \in DOMAIN thread, thread[k].to # 0
                   PROVE  thread[k].to \in DOMAIN thread
        OBVIOUS
      <4>1. thread[k] \in Msg /\ thread[k].to < k /\ k \in 1 .. Len(thread) /\ Len(thread) \in Nat
            /\ DOMAIN thread = 1 .. Len(thread)
        BY DEF Types, ThreadTypes
      <4> QED
        BY <4>1 DEF Msg
    <3> QED
      BY <3>1, <3>2, <3>3, <3>4, <3>5, <3>6 DEF AckInv, AcksEndThere
  <2> QED
    BY <1>2, <2>1, <2>2, <2>3 DEF Human
<1>3. ASSUME NEW b \in Squad, BotStep(b) \/ Crash(b) PROVE AckInv'
  <2>0. b \in Bot
    BY SetupType DEF Squad, Types, RestTypes
  <2>1. ASSUME NEW e \in todo[b], Acknowledge(b, e) PROVE AckInv'
    <3> DEFINE msg == Message(b, {}, FALSE, e.of, TRUE)
               done == [c \in Bot |-> IF c = b THEN {e} ELSE {}]
    <3>1. e.of \in Nat /\ e.of <= Len(thread) /\ ~thread[e.of].ack
      BY <2>0, EventType DEF Types, AckInv
    <3>2. msg \in Msg /\ msg.to = e.of /\ msg.by # Ceo /\ msg.names = {} /\ ~msg.cue
      BY <2>0, <3>1 DEF Message, Msg
    <3>3. AppearAfter(msg, done) /\ UNCHANGED <<pc, cur>>
      BY <2>1 DEF Acknowledge
    <3> HIDE DEF msg, done
    <3> QED
      BY <3>1, <3>2, <3>3, AckGrows
  <2>2. ASSUME NEW e \in todo[b], AcknowledgeDropped(b, e) \/ FetchFails(b, e) PROVE AckInv'
    <3>1. todo' = [todo EXCEPT ![b] = @ \ {e}] /\ UNCHANGED <<thread, pc, cur>>
      BY <2>2 DEF AcknowledgeDropped, FetchFails
    <3> QED
      BY <3>1 DEF AckInv, AcksEndThere, Types, ThreadTypes
  <2>3. ASSUME NEW e \in todo[b], Fetch(b, e) PROVE AckInv'
    <3>1. /\ todo' = [todo EXCEPT ![b] = @ \ {e}] /\ cur' = [cur EXCEPT ![b] = e.of]
          /\ pc' = [pc EXCEPT ![b] = IF FromCeo(e.of) THEN "resolving" ELSE "replying"]
          /\ UNCHANGED thread
      BY <2>3 DEF Fetch, Take, Goto
    <3> QED
      BY <2>0, <3>1 DEF AckInv, AcksEndThere, Types, ThreadTypes, LoopTypes
  <2>4. CASE Resolve(b) \/ ResolveFails(b) \/ Store(b) \/ ReplyDropped(b) \/ Crash(b)
    <3>1. UNCHANGED <<thread, todo>> /\ pc[b] # "idle"
      BY <2>4 DEF Resolve, ResolveFails, Store, ReplyDropped, Crash
    <3>2. Idle(b) \/ (pc' = [pc EXCEPT ![b] = pc'[b]] /\ UNCHANGED cur)
      <4>1. pc \in [Bot -> {"idle", "resolving", "storing", "replying"}]
        BY DEF Types, LoopTypes
      <4>2. Idle(b) \/ ((\E where : pc' = [pc EXCEPT ![b] = where]) /\ UNCHANGED cur)
        BY <2>4 DEF Resolve, ResolveFails, Store, ReplyDropped, Crash, Decide, Goto
      <4> QED
        BY <2>0, <4>1, <4>2
    <3> QED
      BY <2>0, <3>1, <3>2 DEF AckInv, AcksEndThere, Idle, Types, LoopTypes
  <2>5. CASE Reply(b)
    <3>1. PICK names \in MayName(b), cue \in BOOLEAN :
            AppearAfter(Message(b, names, cue, cur[b], FALSE), [c \in Bot |-> {}])
      BY <2>5 DEF Reply, Appear
    <3> DEFINE msg == Message(b, names, cue, cur[b], FALSE)
    <3>2. cur[b] \in Nat /\ cur[b] <= Len(thread) /\ ~thread[cur[b]].ack
      BY <2>0, <2>5, ReplyIs DEF Reply, AckInv
    <3>3. names \in SUBSET Bot
      BY SetupType DEF MayName, Squad, Types, RestTypes
    <3>4. msg \in Msg /\ msg.to = cur[b] /\ ~msg.ack
      BY <2>0, <3>2, <3>3 DEF Message, Msg
    <3>5. AppearAfter(msg, [c \in Bot |-> {}]) /\ Idle(b)
      BY <2>5, <3>1 DEF Reply
    <3> HIDE DEF msg
    <3> QED
      BY <2>0, <3>2, <3>4, <3>5, AckGrows
  <2> QED
    BY <1>3, <2>1, <2>2, <2>3, <2>4, <2>5 DEF BotStep
<1>4. CASE Expire
  BY <1>4 DEF Expire, AckInv, AcksEndThere
<1> QED
  BY <1>1, <1>2, <1>3, <1>4 DEF Next

\* Bots that repeat a cue to each other can not keep each other going: in any
\* squad, whichever pods enforce the router, an acknowledgement ends the talk.
THEOREM AcksAreFinal == Spec => []AcksEndThere
<1>1. Init => TalkInv
  BY TypesInit DEF TalkInv, AckInv, AcksEndThere, Init
<1>2. TalkInv => AcksEndThere
  BY DEF TalkInv, AckInv
<1> QED
  BY <1>1, <1>2, AckStep, PTL DEF Spec
-----------------------------------------------------------------------------
(***************************************************************************)
(* Chains of follow-ups.                                                   *)
(***************************************************************************)
\* The most events a message becomes in one pod, and how many answers to
\* message m pod c may still give: the events it has not handled, and the one
\* it handles.
Cap == IF setup.appMention THEN 2 ELSE 1

Waiting(c, m) == {e \in todo[c] : e.of = m}

InHand(c, m) == IF pc[c] # "idle" /\ cur[c] = m THEN 1 ELSE 0

\* Pod c takes a bot's message up only if it is called, or acknowledges it.
Meant(c, m) ==
  c \in thread[m].names \/ (c \in setup.enforcing /\ thread[m].cue /\ thread[m].by # c)

\* The strengthening of ChainsDoNotBranch: a bot's message names one bot at
\* most, only that bot takes it up and answers it, and the answers it has given
\* and may still give are no more than the message's events.
ChainOf(m) ==
  /\ \A x, y \in thread[m].names : x = y
  /\ \A r \in Answers(m) : thread[r].by \in thread[m].names
  /\ \A c \in thread[m].names :
       Cardinality(Answers(m)) + Cardinality(Waiting(c, m)) + InHand(c, m) <= Cap

ChainInv ==
  /\ \A m \in DOMAIN thread : ~FromCeo(m) => ChainOf(m)
  /\ \A c \in Bot : \A e \in todo[c] :
       ~FromCeo(e.of) => Meant(c, e.of)
  /\ \A c \in Bot : pc[c] # "idle" => FromCeo(cur[c]) \/ c \in thread[cur[c]].names

\* What a message holds.
LEMMA MsgFields ==
  ASSUME Types, NEW m \in DOMAIN thread
  PROVE  thread[m] \in Msg /\ thread[m].names \subseteq Bot /\ thread[m].to \in Nat
<1>1. thread \in Seq(Msg)
  BY DEF Types, ThreadTypes
<1>2. thread[m] \in Msg
  BY <1>1
<1> QED
  BY <1>2 DEF Msg

\* The answers and the waiting events are counted.
LEMMA Counted ==
  ASSUME Types, NEW m, NEW c \in Bot
  PROVE  /\ IsFiniteSet(Answers(m)) /\ Cardinality(Answers(m)) \in Nat
         /\ IsFiniteSet(Waiting(c, m)) /\ Cardinality(Waiting(c, m)) \in Nat
         /\ InHand(c, m) \in Nat
<1>1. Len(thread) \in Nat /\ Answers(m) \in SUBSET (1 .. Len(thread))
  BY DEF Answers, Types, ThreadTypes
<1>2. IsFiniteSet(Answers(m)) /\ Cardinality(Answers(m)) \in Nat
  BY <1>1, SomeUpTo
<1>3. PICK a, b : a = [of |-> m, via |-> "message"] /\ b = [of |-> m, via |-> "app_mention"]
  OBVIOUS
<1>4. IsFiniteSet(Waiting(c, m)) /\ Cardinality(Waiting(c, m)) \in Nat
  <2>1. ASSUME NEW e \in Waiting(c, m) PROVE e \in {a} \cup {b}
    <3>1. e \in [of : DOMAIN thread, via : Source] /\ e.of = m
      BY DEF Waiting, Types, ThreadTypes
    <3> QED
      BY <1>3, <3>1 DEF Source
  <2>2. IsFiniteSet({a}) /\ Waiting(c, m) \in SUBSET ({a} \cup {b})
    BY <2>1, FS_Singleton
  <2> QED
    BY <2>2, OneMore
<1> QED
  BY <1>2, <1>4 DEF InHand

\* Fewer waiting events and busy event loops keep the strengthening, as long
\* as the thread stays what it is.
LEMMA ChainSame ==
  ASSUME Types, Types', ChainInv, setup' = setup, DOMAIN thread' = DOMAIN thread,
         \A k \in DOMAIN thread :
           /\ thread'[k].by = thread[k].by /\ thread'[k].names = thread[k].names
           /\ thread'[k].cue = thread[k].cue /\ thread'[k].to = thread[k].to
           /\ thread'[k].ack = thread[k].ack,
         \A c \in Bot : todo'[c] \subseteq todo[c],
         \A c \in Bot : pc'[c] # "idle" => pc[c] # "idle" /\ cur'[c] = cur[c]
  PROVE  ChainInv'
<1>1. ASSUME NEW m \in DOMAIN thread, ~FromCeo(m) PROVE ChainOf(m)'
  <2>1. ChainOf(m)
    BY <1>1 DEF ChainInv
  <2>2. Answers(m)' = Answers(m)
    BY DEF Answers
  <2>3. ASSUME NEW c \in thread[m].names
        PROVE  Cardinality(Answers(m)') + Cardinality(Waiting(c, m)') + InHand(c, m)' <= Cap'
    <3>1. c \in Bot
      BY MsgFields
    <3>2. Waiting(c, m)' \subseteq Waiting(c, m)
      BY <3>1 DEF Waiting
    <3>3. InHand(c, m)' <= InHand(c, m) /\ InHand(c, m)' \in Nat /\ InHand(c, m) \in Nat
      BY <3>1 DEF InHand
    <3>4. /\ Cardinality(Waiting(c, m)') <= Cardinality(Waiting(c, m))
          /\ Cardinality(Waiting(c, m)') \in Nat /\ Cardinality(Waiting(c, m)) \in Nat
          /\ Cardinality(Answers(m)) \in Nat
      BY <3>1, <3>2, Counted, Part
    <3>5. Cardinality(Answers(m)) + Cardinality(Waiting(c, m)) + InHand(c, m) <= Cap
      BY <2>1 DEF ChainOf
    <3>6. Cap' = Cap /\ Cap \in Nat
      BY DEF Cap
    <3> QED
      BY <2>2, <3>3, <3>4, <3>5, <3>6
  <2>4. \A r \in Answers(m)' : thread'[r].by \in thread'[m].names
    BY <2>1, <2>2 DEF ChainOf, Answers
  <2> QED
    BY <2>1, <2>3, <2>4 DEF ChainOf
<1>2. ASSUME NEW c \in Bot, NEW e \in todo'[c], thread'[e.of].by # Ceo
      PROVE  Meant(c, e.of)'
  <2>1. e \in todo[c] /\ e.of \in DOMAIN thread
    BY EventType DEF Types
  <2> QED
    BY <1>2, <2>1 DEF ChainInv, FromCeo, Meant
<1>3. ASSUME NEW c \in Bot, pc'[c] # "idle"
      PROVE  thread'[cur'[c]].by = Ceo \/ c \in thread'[cur'[c]].names
  <2>1. pc[c] # "idle" /\ cur'[c] = cur[c] /\ cur[c] \in DOMAIN thread
    BY <1>3 DEF Types, LoopTypes
  <2> QED
    BY <2>1 DEF ChainInv, FromCeo
<1>4. \A m \in DOMAIN thread : FromCeo(m)' <=> FromCeo(m)
  BY DEF FromCeo
<1> QED
  BY <1>1, <1>2, <1>3, <1>4 DEF ChainInv, FromCeo

\* What a new message becomes in a pod: as many events as the cap allows, and
\* for a bot's message only where it is called or acknowledged.
LEMMA NewEvents ==
  ASSUME NEW n, NEW msg \in Msg, NEW c \in Bot
  PROVE  /\ IsFiniteSet(Events(n, msg, c)) /\ Cardinality(Events(n, msg, c)) \in Nat
         /\ Cardinality(Events(n, msg, c)) <= Cap
         /\ \A e \in Events(n, msg, c) :
              /\ e.of = n
              /\ msg.by = Ceo \/ c \in msg.names \/ Acks(c, msg)
<1>0. PICK a, b : a = [of |-> n, via |-> "message"] /\ b = [of |-> n, via |-> "app_mention"]
  OBVIOUS
<1>1. IsFiniteSet({a}) /\ Cardinality({a}) = 1
  BY FS_Singleton
<1>2. CASE setup.appMention
  <2>1. Events(n, msg, c) \in SUBSET ({a} \cup {b}) /\ Cap = 2
    BY <1>0, <1>2 DEF Events, Cap
  <2>2. /\ IsFiniteSet(Events(n, msg, c)) /\ Cardinality(Events(n, msg, c)) \in Nat
        /\ Cardinality(Events(n, msg, c)) <= Cardinality({a}) + 1
    BY <1>1, <2>1, OneMore
  <2>3. Cardinality(Events(n, msg, c)) <= Cap
    BY <1>1, <2>1, <2>2
  <2> QED
    BY <2>2, <2>3 DEF Events, Concerns, SquadFollowup
<1>3. CASE ~setup.appMention
  <2>1. Events(n, msg, c) \in SUBSET {a} /\ Cap = 1
    BY <1>0, <1>3 DEF Events, Cap
  <2>2. /\ IsFiniteSet(Events(n, msg, c)) /\ Cardinality(Events(n, msg, c)) \in Nat
        /\ Cardinality(Events(n, msg, c)) <= Cardinality({a})
    BY <1>1, <2>1, Part
  <2>3. Cardinality(Events(n, msg, c)) <= Cap
    BY <1>1, <2>1, <2>2
  <2> QED
    BY <2>2, <2>3 DEF Events, Concerns, SquadFollowup
<1> QED
  BY <1>2, <1>3

\* A new message keeps it: a bot's message names one bot at most, and an answer
\* uses up what its author had in hand.
LEMMA ChainGrows ==
  ASSUME Types, Types', ChainInv, NEW msg \in Msg, NEW done, AppearAfter(msg, done),
         setup' = setup,
         msg.by # Ceo => \A x, y \in msg.names : x = y,
         \A c \in Bot : pc'[c] # "idle" => pc[c] # "idle" /\ cur'[c] = cur[c],
         \/ msg.ack
         \/ msg.to = 0
         \/ msg.by \in Bot /\ pc[msg.by] # "idle" /\ cur[msg.by] = msg.to /\ pc'[msg.by] = "idle"
  PROVE  ChainInv'
<1>1. PICK n : n = Len(thread) + 1
  OBVIOUS
<1>2. /\ Len(thread) \in Nat /\ DOMAIN thread = 1 .. Len(thread) /\ DOMAIN thread' = 1 .. n
      /\ \A m \in DOMAIN thread : m \in DOMAIN thread' /\ thread'[m] = thread[m]
      /\ thread'[n] = msg
  BY <1>1, Appended DEF Types, ThreadTypes, AppearAfter
<1>3. \A c \in Bot : todo'[c] \subseteq todo[c] \cup Events(n, msg, c)
  BY <1>1 DEF AppearAfter
<1>4. n \notin DOMAIN thread /\ \A k : k \in DOMAIN thread' <=> k \in DOMAIN thread \/ k = n
  BY <1>1, <1>2
<1>5. Cap' = Cap /\ Cap \in Nat
  BY DEF Cap
<1>6. \A c \in Bot : \A e \in todo[c] : e.of \in DOMAIN thread
  BY EventType DEF Types
<1>7. \A c \in Bot : pc[c] # "idle" => cur[c] \in DOMAIN thread
  BY DEF Types, LoopTypes
<1>8. ASSUME NEW m \in DOMAIN thread, ~FromCeo(m) PROVE ChainOf(m)'
  <2>1. ChainOf(m) /\ m # n /\ m # 0 /\ thread'[m] = thread[m]
    BY <1>2, <1>4, <1>8 DEF ChainInv
  <2>2. \A c \in Bot : Waiting(c, m)' \subseteq Waiting(c, m)
    BY <1>3, <2>1, NewEvents DEF Waiting
  <2>3. ASSUME NEW c \in thread[m].names
        PROVE  /\ Cardinality(Answers(m)) + Cardinality(Waiting(c, m)) + InHand(c, m) <= Cap
               /\ Cardinality(Waiting(c, m)') <= Cardinality(Waiting(c, m))
               /\ Cardinality(Waiting(c, m)') \in Nat /\ Cardinality(Waiting(c, m)) \in Nat
               /\ Cardinality(Answers(m)) \in Nat /\ IsFiniteSet(Answers(m))
               /\ InHand(c, m) \in Nat /\ InHand(c, m)' \in Nat
               /\ InHand(c, m)' <= InHand(c, m)
               /\ c \in Bot
    <3>1. c \in Bot
      BY MsgFields
    <3>2. InHand(c, m)' <= InHand(c, m) /\ InHand(c, m)' \in Nat
      BY <3>1 DEF InHand
    <3>3. Cardinality(Answers(m)) + Cardinality(Waiting(c, m)) + InHand(c, m) <= Cap
      BY <2>1 DEF ChainOf
    <3> QED
      BY <2>2, <3>1, <3>2, <3>3, Counted, Part
  <2>4. CASE msg.ack \/ msg.to # m
    <3>1. Answers(m)' = Answers(m)
      BY <1>2, <1>4, <2>4 DEF Answers
    <3>2. \A r \in Answers(m) : thread'[r].by \in thread'[m].names
      BY <1>2, <2>1 DEF ChainOf, Answers
    <3>3. ASSUME NEW c \in thread[m].names
          PROVE  Cardinality(Answers(m)') + Cardinality(Waiting(c, m)') + InHand(c, m)' <= Cap'
      BY <1>5, <2>3, <3>1
    <3> QED
      BY <2>1, <3>1, <3>2, <3>3 DEF ChainOf
  <2>5. CASE ~msg.ack /\ msg.to = m
    <3>1. /\ msg.by \in Bot /\ pc[msg.by] # "idle" /\ cur[msg.by] = m /\ pc'[msg.by] = "idle"
      BY <2>1, <2>5
    <3>2. msg.by \in thread[m].names
      BY <1>8, <3>1 DEF ChainInv
    <3>3. Answers(m)' = Answers(m) \cup {n}
      BY <1>2, <1>4, <2>5 DEF Answers
    <3>4. \A r \in Answers(m)' : thread'[r].by \in thread'[m].names
      BY <1>2, <2>1, <3>2, <3>3 DEF ChainOf, Answers
    <3>5. ASSUME NEW c \in thread[m].names
          PROVE  Cardinality(Answers(m)') + Cardinality(Waiting(c, m)') + InHand(c, m)' <= Cap'
      <4>1. c = msg.by
        BY <2>1, <3>2 DEF ChainOf
      <4>2. InHand(c, m) = 1 /\ InHand(c, m)' = 0
        BY <3>1, <4>1 DEF InHand
      <4>3. /\ Cardinality(Answers(m)') <= Cardinality(Answers(m)) + 1
            /\ Cardinality(Answers(m)') \in Nat
        BY <2>3, <3>3, OneMore
      <4> QED
        BY <1>5, <2>3, <4>2, <4>3
    <3> QED
      BY <2>1, <3>4, <3>5 DEF ChainOf
  <2> QED
    BY <2>4, <2>5
<1>9. ASSUME msg.by # Ceo PROVE ChainOf(n)'
  <2>1. Answers(n)' = {}
    <3>1. ASSUME NEW r \in DOMAIN thread' PROVE thread'[r].to # n
      <4>1. thread'[r].to < r /\ r \in 1 .. n
        BY <1>2 DEF Types, ThreadTypes
      <4>2. thread'[r].to \in Nat
        <5>1. r = n \/ r \in DOMAIN thread
          BY <1>4
        <5> QED
          BY <1>2, <5>1, MsgFields DEF Msg
      <4> QED
        BY <1>1, <1>2, <4>1, <4>2
    <3> QED
      BY <3>1 DEF Answers
  <2>2. ASSUME NEW c \in thread'[n].names
        PROVE  Cardinality(Answers(n)') + Cardinality(Waiting(c, n)') + InHand(c, n)' <= Cap'
    <3>1. c \in Bot
      BY <1>2 DEF Msg
    <3>2. InHand(c, n)' = 0
      BY <1>4, <1>7, <3>1 DEF InHand
    <3>3. Waiting(c, n)' \subseteq Events(n, msg, c)
      BY <1>3, <1>4, <1>6, <3>1 DEF Waiting
    <3>4. /\ Cardinality(Waiting(c, n)') <= Cardinality(Events(n, msg, c))
          /\ Cardinality(Waiting(c, n)') \in Nat /\ Cardinality(Events(n, msg, c)) \in Nat
          /\ Cardinality(Events(n, msg, c)) <= Cap
      BY <3>1, <3>3, NewEvents, Part
    <3>5. Cardinality(Answers(n)') = 0
      BY <2>1, FS_EmptySet
    <3> QED
      BY <1>5, <3>2, <3>4, <3>5
  <2> QED
    BY <1>2, <1>9, <2>1, <2>2 DEF ChainOf
<1>10. ASSUME NEW c \in Bot, NEW e \in todo'[c], thread'[e.of].by # Ceo
       PROVE  Meant(c, e.of)'
  <2>1. CASE e \in todo[c]
    <3>1. e.of \in DOMAIN thread /\ thread'[e.of] = thread[e.of]
      BY <1>2, <1>6, <2>1
    <3> QED
      BY <1>10, <2>1, <3>1 DEF ChainInv, FromCeo, Meant
  <2>2. CASE e \in Events(n, msg, c)
    <3>1. e.of = n /\ (msg.by = Ceo \/ c \in msg.names \/ Acks(c, msg))
      BY <2>2, NewEvents
    <3> QED
      BY <1>2, <1>10, <3>1 DEF Acks, Meant
  <2> QED
    BY <1>3, <2>1, <2>2
<1>11. ASSUME NEW c \in Bot, pc'[c] # "idle"
       PROVE  thread'[cur'[c]].by = Ceo \/ c \in thread'[cur'[c]].names
  <2>1. pc[c] # "idle" /\ cur'[c] = cur[c] /\ cur[c] \in DOMAIN thread
    BY <1>7, <1>11
  <2> QED
    BY <1>2, <2>1 DEF ChainInv, FromCeo
<1>12. \A m \in DOMAIN thread : FromCeo(m)' <=> FromCeo(m)
  BY <1>2 DEF FromCeo
<1>13. \A m \in DOMAIN thread' : ~FromCeo(m)' => ChainOf(m)'
  <2>1. FromCeo(n)' <=> msg.by = Ceo
    BY <1>2 DEF FromCeo
  <2> QED
    BY <1>4, <1>8, <1>9, <1>12, <2>1
<1> QED
  BY <1>10, <1>11, <1>13 DEF ChainInv, FromCeo

\* The setup never changes.
LEMMA SetupSame == [Next]_vars => setup' = setup
<1> SUFFICES ASSUME [Next]_vars PROVE setup' = setup
  OBVIOUS
<1>1. CASE Human
  BY <1>1, Zenon DEF Human, Say, Edit, Delete
<1>2. ASSUME NEW b, BotStep(b) \/ Crash(b) PROVE setup' = setup
  BY <1>2, Zenon DEF BotStep, Acknowledge, AcknowledgeDropped, Fetch, Take, FetchFails, Resolve,
     ResolveFails, Store, Reply, ReplyDropped, Crash
<1>3. CASE Expire \/ UNCHANGED vars
  BY <1>3, Zenon DEF Expire, vars
<1> QED
  BY <1>1, <1>2, <1>3 DEF Next

\* A pod that takes an event up has it in hand instead.
LEMMA ChainFetch ==
  ASSUME Types, Types', ChainInv, NEW b \in Bot, NEW e \in todo[b],
         pc[b] = "idle", ~Acks(b, thread[e.of]),
         todo' = [todo EXCEPT ![b] = @ \ {e}],
         cur' = [cur EXCEPT ![b] = e.of],
         \A c \in Bot : c # b => pc'[c] = pc[c],
         UNCHANGED <<thread, setup>>
  PROVE  ChainInv'
<1>1. e.of \in DOMAIN thread /\ \A c \in Bot : cur'[c] = IF c = b THEN e.of ELSE cur[c]
  BY EventType DEF Types, LoopTypes
<1>2. \A c \in Bot : todo'[c] = IF c = b THEN todo[b] \ {e} ELSE todo[c]
  BY DEF Types, ThreadTypes
<1>3. FromCeo(e.of) \/ b \in thread[e.of].names
  BY DEF ChainInv, Meant, Acks
<1>4. ASSUME NEW m \in DOMAIN thread, ~FromCeo(m) PROVE ChainOf(m)'
  <2>1. ChainOf(m)
    BY <1>4 DEF ChainInv
  <2>2. Answers(m)' = Answers(m)
    BY DEF Answers
  <2>3. ASSUME NEW c \in thread[m].names
        PROVE  Cardinality(Answers(m)') + Cardinality(Waiting(c, m)') + InHand(c, m)' <= Cap'
    <3>1. c \in Bot
      BY MsgFields
    <3>2. /\ Cardinality(Answers(m)) \in Nat
          /\ IsFiniteSet(Waiting(c, m)) /\ Cardinality(Waiting(c, m)) \in Nat
          /\ InHand(c, m) \in Nat
          /\ Cardinality(Answers(m)) + Cardinality(Waiting(c, m)) + InHand(c, m) <= Cap
      BY <2>1, <3>1, Counted DEF ChainOf
    <3>3. Cap' = Cap /\ Cap \in Nat
      BY DEF Cap
    <3>4. CASE c = b /\ m = e.of
      <4>1. InHand(c, m) = 0 /\ InHand(c, m)' \in Nat /\ InHand(c, m)' <= 1
        BY <3>1, <3>4 DEF InHand
      <4>2. e \in Waiting(c, m) /\ Waiting(c, m)' \in SUBSET (Waiting(c, m) \ {e})
        BY <1>2, <3>4 DEF Waiting
      <4>3. Cardinality(Waiting(c, m)') \in Nat
            /\ Cardinality(Waiting(c, m)') + 1 <= Cardinality(Waiting(c, m))
        BY <3>2, <4>2, OneLess
      <4> QED
        BY <2>2, <3>2, <3>3, <4>1, <4>3
    <3>5. CASE ~(c = b /\ m = e.of)
      <4>1. InHand(c, m)' \in Nat /\ InHand(c, m)' <= InHand(c, m)
        BY <1>1, <3>1, <3>5 DEF InHand
      <4>2. Waiting(c, m)' \in SUBSET Waiting(c, m)
        BY <1>2, <3>1 DEF Waiting
      <4>3. Cardinality(Waiting(c, m)') \in Nat
            /\ Cardinality(Waiting(c, m)') <= Cardinality(Waiting(c, m))
        BY <3>2, <4>2, Part
      <4> QED
        BY <2>2, <3>2, <3>3, <4>1, <4>3
    <3> QED
      BY <3>4, <3>5
  <2> QED
    BY <2>1, <2>2, <2>3 DEF ChainOf
<1>5. ASSUME NEW c \in Bot, NEW f \in todo'[c], ~FromCeo(f.of)' PROVE Meant(c, f.of)'
  BY <1>2, <1>5 DEF ChainInv, FromCeo, Meant
<1>6. ASSUME NEW c \in Bot, pc'[c] # "idle"
      PROVE  thread[cur'[c]].by = Ceo \/ c \in thread[cur'[c]].names
  BY <1>1, <1>3, <1>6 DEF ChainInv, FromCeo
<1> QED
  BY <1>4, <1>5, <1>6 DEF ChainInv, FromCeo

\* No step lets a chain branch.
LEMMA ChainStep == Types /\ Types' /\ ChainInv /\ [Next]_vars => ChainInv'
<1> SUFFICES ASSUME Types, Types', ChainInv, [Next]_vars PROVE ChainInv'
  OBVIOUS
<1>0. setup' = setup
  BY SetupSame
<1>1. CASE UNCHANGED vars
  BY <1>1, ChainSame DEF vars
<1>2. CASE Human
  <2>1. ASSUME NEW names \in SUBSET Squad, NEW cue \in setup.cues, Say(names, cue) PROVE ChainInv'
    <3>1. PICK msg : msg = Message(Ceo, names, cue, 0, FALSE)
      OBVIOUS
    <3>2. names \in SUBSET Bot /\ cue \in BOOLEAN
      BY SetupType DEF Squad, Types, RestTypes
    <3>3. msg \in Msg /\ msg.to = 0 /\ msg.by = Ceo
      BY <3>1, <3>2 DEF Message, Msg
    <3>4. AppearAfter(msg, [b \in Bot |-> {}]) /\ UNCHANGED <<pc, cur>>
      BY <2>1, <3>1 DEF Say, Appear
    <3> QED
      BY <1>0, <3>3, <3>4, ChainGrows
  <2>2. ASSUME NEW m \in DOMAIN thread, Delete(m) PROVE ChainInv'
    BY <1>0, <2>2, ChainSame DEF Delete
  <2>3. ASSUME NEW m \in DOMAIN thread, NEW names, Edit(m, names) PROVE ChainInv'
    <3>1. /\ thread' = [thread EXCEPT ![m] = [thread[m] EXCEPT !.shown = names]]
          /\ UNCHANGED <<todo, pc, cur>>
      BY <2>3 DEF Edit
    <3>2. DOMAIN thread' = DOMAIN thread
      BY <3>1
    <3>3. \A k \in DOMAIN thread :
            /\ thread'[k].by = thread[k].by /\ thread'[k].names = thread[k].names
            /\ thread'[k].cue = thread[k].cue /\ thread'[k].to = thread[k].to
            /\ thread'[k].ack = thread[k].ack
      <4>1. \A k \in DOMAIN thread : thread[k] \in Msg
        BY MsgFields
      <4> QED
        BY <3>1, <4>1 DEF Msg
    <3> QED
      BY <1>0, <3>1, <3>2, <3>3, ChainSame
  <2> QED
    BY <1>2, <2>1, <2>2, <2>3 DEF Human
<1>3. ASSUME NEW b \in Squad, BotStep(b) \/ Crash(b) PROVE ChainInv'
  <2>0. b \in Bot
    BY SetupType DEF Squad, Types, RestTypes
  <2>1. ASSUME NEW e \in todo[b], Acknowledge(b, e) PROVE ChainInv'
    <3>1. PICK msg, done : /\ msg = Message(b, {}, FALSE, e.of, TRUE)
                          /\ done = [c \in Bot |-> IF c = b THEN {e} ELSE {}]
      OBVIOUS
    <3>2. e.of \in Nat
      BY <2>0, EventType DEF Types
    <3>3. msg \in Msg /\ msg.ack /\ msg.names = {}
      BY <2>0, <3>1, <3>2 DEF Message, Msg
    <3>4. AppearAfter(msg, done) /\ UNCHANGED <<pc, cur>>
      BY <2>1, <3>1 DEF Acknowledge
    <3> QED
      BY <1>0, <3>3, <3>4, ChainGrows
  <2>2. ASSUME NEW e \in todo[b], AcknowledgeDropped(b, e) \/ FetchFails(b, e) PROVE ChainInv'
    <3>1. todo' = [todo EXCEPT ![b] = @ \ {e}] /\ UNCHANGED <<thread, pc, cur>>
      BY <2>2 DEF AcknowledgeDropped, FetchFails
    <3>2. \A c \in Bot : todo'[c] \subseteq todo[c]
      BY <3>1 DEF Types, ThreadTypes
    <3> QED
      BY <1>0, <3>1, <3>2, ChainSame
  <2>3. ASSUME NEW e \in todo[b], Fetch(b, e) PROVE ChainInv'
    <3>1. /\ todo' = [todo EXCEPT ![b] = @ \ {e}] /\ cur' = [cur EXCEPT ![b] = e.of]
          /\ pc' = [pc EXCEPT ![b] = IF FromCeo(e.of) THEN "resolving" ELSE "replying"]
          /\ pc[b] = "idle" /\ ~Acks(b, thread[e.of]) /\ UNCHANGED thread
      BY <2>3 DEF Fetch, Take, Goto
    <3>2. \A c \in Bot : c # b => pc'[c] = pc[c]
      BY <3>1 DEF Types, LoopTypes
    <3> QED
      BY <1>0, <2>0, <3>1, <3>2, ChainFetch
  <2>4. CASE Resolve(b) \/ ResolveFails(b) \/ Store(b) \/ ReplyDropped(b) \/ Crash(b)
    <3>1. UNCHANGED <<thread, todo>> /\ pc[b] # "idle"
      BY <2>4 DEF Resolve, ResolveFails, Store, ReplyDropped, Crash
    <3>2. Idle(b) \/ ((\E where : pc' = [pc EXCEPT ![b] = where]) /\ UNCHANGED cur)
      BY <2>4 DEF Resolve, ResolveFails, Store, ReplyDropped, Crash, Decide, Goto
    <3>3. \A c \in Bot : pc'[c] # "idle" => pc[c] # "idle" /\ cur'[c] = cur[c]
      BY <2>0, <3>1, <3>2 DEF Idle, Types, LoopTypes
    <3> QED
      BY <1>0, <3>1, <3>3, ChainSame
  <2>5. CASE Reply(b)
    <3>1. PICK names \in MayName(b), cue \in BOOLEAN :
            AppearAfter(Message(b, names, cue, cur[b], FALSE), [c \in Bot |-> {}])
      BY <2>5 DEF Reply, Appear
    <3>2. names \in SUBSET Bot /\ \A x, y \in names : x = y
      BY SetupType DEF MayName, Squad, Types, RestTypes
    <3>3. PICK msg : msg = Message(b, names, cue, cur[b], FALSE)
      OBVIOUS
    <3>4. cur[b] \in Nat
      BY <2>0, <2>5, ReplyIs
    <3>5. msg \in Msg /\ msg.to = cur[b] /\ msg.by = b /\ msg.names = names
      BY <2>0, <3>2, <3>3, <3>4 DEF Message, Msg
    <3>6. /\ pc[b] # "idle" /\ pc'[b] = "idle"
          /\ \A c \in Bot : pc'[c] # "idle" => pc[c] # "idle" /\ cur'[c] = cur[c]
      BY <2>0, <2>5 DEF Reply, Idle, Types, LoopTypes
    <3>7. AppearAfter(msg, [c \in Bot |-> {}])
      BY <3>1, <3>3
    <3> QED
      BY <1>0, <2>0, <3>2, <3>5, <3>6, <3>7, ChainGrows
  <2> QED
    BY <1>3, <2>1, <2>2, <2>3, <2>4, <2>5 DEF BotStep
<1>4. CASE Expire
  BY <1>0, <1>4, ChainSame DEF Expire
<1> QED
  BY <1>1, <1>2, <1>3, <1>4 DEF Next

\* In any squad, however its pods' steps interleave and whatever is lost, a
\* bot's message draws at most one answer for every event it becomes.
THEOREM NoBranching == Spec => []ChainsDoNotBranch
<1>1. Init => Types /\ ChainInv
  BY TypesInit DEF Init, ChainInv
<1>2. Types /\ ChainInv /\ [Next]_vars => (Types /\ ChainInv)'
  BY TypesStep, ChainStep
<1>3. Types /\ ChainInv => ChainsDoNotBranch
  <2> SUFFICES ASSUME Types, ChainInv, NEW m \in DOMAIN thread, ~FromCeo(m)
               PROVE  Cardinality(Answers(m)) <= Cap
    BY DEF ChainsDoNotBranch, Cap
  <2>1. ChainOf(m)
    BY DEF ChainInv
  <2>2. CASE thread[m].names = {}
    <3>1. Answers(m) = {}
      BY <2>1, <2>2 DEF ChainOf
    <3>2. Cardinality(Answers(m)) = 0
      BY <3>1, FS_EmptySet, Zenon
    <3> QED
      BY <3>2 DEF Cap
  <2>3. CASE thread[m].names # {}
    <3>1. PICK c \in thread[m].names : TRUE
      BY <2>3
    <3>2. Cardinality(Answers(m)) + Cardinality(Waiting(c, m)) + InHand(c, m) <= Cap
      BY <2>1 DEF ChainOf
    <3>3. c \in Bot
      BY MsgFields
    <3>4. /\ Cardinality(Answers(m)) \in Nat /\ Cardinality(Waiting(c, m)) \in Nat
          /\ InHand(c, m) \in Nat /\ Cap \in Nat
      BY <3>3, Counted DEF Cap
    <3> QED
      BY <3>2, <3>4
  <2> QED
    BY <2>2, <2>3
<1> QED
  BY <1>1, <1>2, <1>3, PTL DEF Spec
=============================================================================
