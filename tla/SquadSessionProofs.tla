------------------------- MODULE SquadSessionProofs -------------------------
(***************************************************************************)
(* The squad session for every squad, turn order, number of rounds and     *)
(* bound: the turns and their refinement, the broadcast mark, that no turn *)
(* is posted twice, and that runs of mentions end.                         *)
(***************************************************************************)
EXTENDS SquadSession, Counting

USE SquadAssumption

\* buildSlots gives every slot to a squad bot.
LEMMA SlotsType == Slots \in [SlotIndex -> Bot]
<1>1. Len(Order) \in Nat \ {0} /\ \A i \in 1 .. Len(Order) : Order[i] \in Bot
  OBVIOUS
<1>2. NSlots \in Nat
  BY <1>1 DEF NSlots
<1>3. ASSUME NEW k \in SlotIndex
      PROVE  (k % Len(Order)) + 1 \in 1 .. Len(Order)
  <2>1. k \in Nat
    BY <1>2 DEF SlotIndex
  <2>2. k % Len(Order) \in 0 .. Len(Order) - 1
    BY <2>1, <1>1
  <2>. QED
    BY <2>2, <1>1
<1>. QED
  BY <1>1, <1>3 DEF Slots

\* Facts about the static data used throughout.
LEMMA StaticFacts ==
  /\ NSlots \in Nat /\ NSlots >= 1
  /\ SlotIndex \subseteq Nat /\ 0 \in SlotIndex
  /\ Kind \subseteq {"message", "app_mention"}
  /\ \A s \in Session : Me(s) \in Bot /\ s[2] \in Kind
<1>1. Len(Order) \in Nat /\ Len(Order) >= 1 /\ Rounds \in Nat /\ Rounds >= 1
  OBVIOUS
<1>2. NSlots \in Nat /\ NSlots >= 1
  BY <1>1, SMT DEF NSlots
<1>. QED
  BY <1>2 DEF SlotIndex, Kind, Session, Me

-----------------------------------------------------------------------------
(***************************************************************************)
(* Type correctness.                                                       *)
(***************************************************************************)
\* A posted message is a message, and its events are events.
LEMMA PostType ==
  ASSUME TypeOK,
         NEW b \in Bot, NEW to \in Bot \cup {NoBot},
         NEW k \in SlotIndex \cup {-1}, NEW re \in Int, NEW ctx \in Nat,
         Post(b, to, k, re, ctx)
  PROVE  /\ chat' \in Seq(Message)
         /\ Len(chat') = Len(chat) + 1
         /\ inbox' \in [Bot -> SUBSET Event]
<1>1. chat \in Seq(Message) /\ lastHuman \in Nat /\ inbox \in [Bot -> SUBSET Event]
  BY DEF TypeOK
<1>2. Len(chat) \in Nat
  BY <1>1
<1>3. NextRunCount \in Int
  BY <1>1, <1>2 DEF NextRunCount
<1>4. [from |-> b, to |-> to, slot |-> k, re |-> re, n |-> NextRunCount,
       heard |-> ctx] \in Message
  BY <1>3 DEF Message
<1>5. EventsOf(Len(chat) + 1) \in SUBSET Event
  BY <1>2 DEF EventsOf, Event
<1>. QED
  BY <1>1, <1>4, <1>5 DEF Post

\* A handoff goes to a squad bot or to nobody.
LEMMA MayMentionType ==
  ASSUME NEW b \in Bot
  PROVE  MayMention(b) \subseteq Bot \cup {NoBot}
BY DEF MayMention

\* The part of TypeOK that belongs to the session variables.
SessionTypeOK ==
  /\ slot \in [Session -> SlotIndex]
  /\ clock \in [Session -> {"fresh", "soft", "hard"}]
  /\ lastSeen \in [Session -> Nat \cup {-1}]
  /\ noProgress \in [Session -> 0 .. MaxNoProgress]
  /\ mismatch \in [Session -> 0 .. MaxMismatch]
  /\ heard \in [Session -> Nat]

\* A session that starts to wait for a slot is typed.
LEMMA StartWaitType ==
  ASSUME SessionTypeOK, NEW s \in Session, NEW k \in SlotIndex, StartWait(s, k)
  PROVE  SessionTypeOK'
<1>1. 0 \in 0 .. MaxNoProgress /\ 0 \in 0 .. MaxMismatch
  OBVIOUS
<1>. QED
  BY <1>1 DEF SessionTypeOK, StartWait

\* A session that leaves is typed.
LEMMA LeaveType ==
  ASSUME TypeOK, NEW s \in Session, Leave(s)
  PROVE  /\ pc' \in [Session -> Running \cup {"idle", "spawned", "done"}]
         /\ active' \in [Bot -> Nat]
<1>1. Me(s) \in Bot
  BY StaticFacts, Zenon
<1>2. CASE Broadcast /\ active[Me(s)] > 0
  <2>1. pc' = [pc EXCEPT ![s] = "done"] /\ active' = [active EXCEPT ![Me(s)] = @ - 1]
    BY <1>2 DEF Leave
  <2>2. active \in [Bot -> Nat] /\ pc \in [Session -> Running \cup {"idle", "spawned", "done"}]
    BY DEF TypeOK
  <2>3. active[Me(s)] - 1 \in Nat
    BY <1>1, <1>2, <2>2
  <2> QED
    BY <1>1, <2>1, <2>2, <2>3
<1>3. CASE ~(Broadcast /\ active[Me(s)] > 0)
  BY <1>3 DEF TypeOK, Leave
<1>. QED
  BY <1>2, <1>3

\* A session that goes on to its next slot, or leaves, is typed.
LEMMA NextSlotType ==
  ASSUME TypeOK, NEW s \in Session, NEW k \in Int, NextSlot(s, k)
  PROVE  /\ pc' \in [Session -> Running \cup {"idle", "spawned", "done"}]
         /\ active' \in [Bot -> Nat]
         /\ SessionTypeOK'
<1>0. SessionTypeOK
  BY DEF TypeOK, SessionTypeOK
<1>1. CASE OwnSlotsFrom(Me(s), k) # {}
  <2>1. PICK j \in OwnSlotsFrom(Me(s), k) : StartWait(s, j)
    BY <1>1 DEF NextSlot
  <2>2. j \in SlotIndex
    BY <2>1 DEF OwnSlotsFrom
  <2>3. SessionTypeOK'
    BY <1>0, <2>1, <2>2, StartWaitType
  <2>. QED
    BY <1>1, <2>3 DEF NextSlot, TypeOK, Running
<1>2. CASE OwnSlotsFrom(Me(s), k) = {}
  <2>1. Leave(s) /\ UNCHANGED sessionVars
    BY <1>2 DEF NextSlot
  <2>2. SessionTypeOK'
    BY <1>0, <2>1 DEF SessionTypeOK, sessionVars
  <2>. QED
    BY <2>1, <2>2, LeaveType
<1>. QED
  BY <1>1, <1>2

\* A session's slot is a number.
LEMMA SlotFacts ==
  ASSUME TypeOK, NEW s \in Session
  PROVE  slot[s] \in SlotIndex /\ slot[s] \in Nat /\ slot[s] + 1 \in Int
         /\ heard[s] \in Nat
<1>1. slot[s] \in SlotIndex /\ heard[s] \in Nat
  BY DEF TypeOK
<1>2. SlotIndex \subseteq Nat
  BY StaticFacts
<1>3. slot[s] \in Nat
  BY <1>1, <1>2
<1>. QED
  BY <1>1, <1>3

\* Every step of a session keeps the types.
LEMMA SessionStepType ==
  ASSUME TypeOK, NEW s \in Session, SessionStep(s)
  PROVE  TypeOK'
<1> USE DEF boundVars, loopVars
<1>0. Me(s) \in Bot /\ s[2] \in Kind /\ SessionTypeOK
  BY StaticFacts DEF TypeOK, SessionTypeOK
<1>1. CASE Receive(s)
  BY <1>1 DEF Receive, TypeOK, sessionVars
<1>2. CASE Begin(s)
  <2>1. CASE OwnSlotsFrom(Me(s), 0) # {}
    <3>1. PICK j \in OwnSlotsFrom(Me(s), 0) : StartWait(s, j)
      BY <1>2, <2>1 DEF Begin
    <3>2. SessionTypeOK'
      BY <1>0, <3>1, StartWaitType DEF OwnSlotsFrom
    <3>3. active' \in [Bot -> Nat]
      <4>1. active' = IF Broadcast THEN [active EXCEPT ![Me(s)] = @ + 1] ELSE active
        BY <1>2, <2>1 DEF Begin
      <4>2. active \in [Bot -> Nat]
        BY DEF TypeOK
      <4>. QED
        BY <1>0, <4>1, <4>2
    <3>4. pc' = [pc EXCEPT ![s] = "waiting"]
      BY <1>2, <2>1 DEF Begin
    <3>. QED
      BY <1>2, <3>2, <3>3, <3>4 DEF Begin, TypeOK, SessionTypeOK, Running
  <2>2. CASE OwnSlotsFrom(Me(s), 0) = {}
    BY <1>2, <2>2 DEF Begin, TypeOK, sessionVars
  <2>. QED
    BY <2>1, <2>2
<1>3. CASE PollReady(s)
  <2>1. Cardinality(ClipToGrant(chat)) \in Nat
    <3>1. Len(chat) \in Nat
      BY DEF TypeOK
    <3>2. IsFiniteSet(1 .. Len(chat))
      BY <3>1, FS_Interval
    <3>3. IsFiniteSet(ClipToGrant(chat))
      BY <3>2, FS_Subset DEF ClipToGrant
    <3>. QED
      BY <3>3, FS_CardinalityType
  <2>. QED
    BY <1>3, <2>1 DEF PollReady, TypeOK, Running
<1>4. CASE PollAgain(s)
  <2>0. /\ MaxNoProgress \in Nat /\ MaxMismatch \in Nat
        /\ noProgress \in [Session -> 0 .. MaxNoProgress]
        /\ mismatch \in [Session -> 0 .. MaxMismatch]
    BY DEF TypeOK
  <2>1. noProgress' \in [Session -> 0 .. MaxNoProgress]
    <3>1. PICK n : noProgress' = [noProgress EXCEPT ![s] = n]
                     /\ (n = 0 \/ n = Bump(noProgress[s], MaxNoProgress))
      BY <1>4 DEF PollAgain
    <3>2. n \in 0 .. MaxNoProgress
      BY <2>0, <3>1 DEF Bump
    <3>. QED
      BY <2>0, <3>1, <3>2
  <2>2. mismatch' \in [Session -> 0 .. MaxMismatch]
    <3>1. PICK n : mismatch' = [mismatch EXCEPT ![s] = n]
                     /\ (n = 0 \/ n = Bump(mismatch[s], MaxMismatch))
      BY <1>4 DEF PollAgain
    <3>2. n \in 0 .. MaxMismatch
      BY <2>0, <3>1 DEF Bump
    <3>. QED
      BY <2>0, <3>1, <3>2
  <2>3. lastSeen' \in [Session -> Nat \cup {-1}]
    <3>1. Len(chat) \in Nat /\ lastSeen \in [Session -> Nat \cup {-1}]
      BY DEF TypeOK
    <3>2. lastSeen' = [lastSeen EXCEPT ![s] = Len(chat)]
      BY <1>4 DEF PollAgain
    <3>. QED
      BY <3>1, <3>2
  <2>4. /\ pc' \in [Session -> Running \cup {"idle", "spawned", "done"}]
        /\ active' \in [Bot -> Nat]
    <3>1. Leave(s) \/ UNCHANGED <<pc, active>>
      BY <1>4 DEF PollAgain
    <3>. QED
      BY <3>1, LeaveType DEF TypeOK
  <2>. QED
    BY <1>4, <2>1, <2>2, <2>3, <2>4 DEF PollAgain, TypeOK
<1>5. CASE WaitTimeout(s)
  BY <1>5, LeaveType DEF WaitTimeout, TypeOK, sessionVars
<1>6. CASE HistoryError(s)
  <2>1. faults' \in Nat
    BY <1>6 DEF HistoryError, TypeOK
  <2>2. /\ pc' \in [Session -> Running \cup {"idle", "spawned", "done"}]
        /\ active' \in [Bot -> Nat]
    BY <1>6, LeaveType DEF HistoryError
  <2>. QED
    BY <1>6, <2>1, <2>2 DEF HistoryError, TypeOK, sessionVars
<1>7. CASE Elapse(s)
  BY <1>7 DEF Elapse, TypeOK
<1>8. CASE Acquire(s)
  BY <1>0, <1>8 DEF Acquire, TypeOK, Running, sessionVars
<1>9. CASE PostSlot(s)
  <2>1. slot[s] \in SlotIndex /\ slot[s] + 1 \in Int /\ heard[s] \in Nat
    BY SlotFacts
  <2>2. PICK to \in Bot \cup {NoBot} : Post(Me(s), to, slot[s], 0, heard[s])
    BY <1>0, <1>9, MayMentionType DEF PostSlot
  <2>3. chat' \in Seq(Message) /\ inbox' \in [Bot -> SUBSET Event]
    <3>1. Me(s) \in Bot /\ slot[s] \in SlotIndex \cup {-1} /\ 0 \in Int
      BY <1>0, <2>1
    <3>. QED
      BY <3>1, <2>1, <2>2, PostType
  <2>4. /\ pc' \in [Session -> Running \cup {"idle", "spawned", "done"}]
        /\ active' \in [Bot -> Nat]
        /\ SessionTypeOK'
    BY <1>9, <2>1, NextSlotType DEF PostSlot
  <2>5. mu' \in [Bot -> Kind \cup {"free", "loop"}]
    BY <1>9 DEF PostSlot, TypeOK
  <2>. QED
    BY <1>9, <2>3, <2>4, <2>5 DEF PostSlot, TypeOK, SessionTypeOK
<1>10. CASE SkipSlot(s)
  <2>1. slot[s] + 1 \in Int
    BY SlotFacts
  <2>2. /\ pc' \in [Session -> Running \cup {"idle", "spawned", "done"}]
        /\ active' \in [Bot -> Nat]
        /\ SessionTypeOK'
    BY <1>10, <2>1, NextSlotType DEF SkipSlot
  <2>3. mu' \in [Bot -> Kind \cup {"free", "loop"}]
    BY <1>10 DEF SkipSlot, TypeOK
  <2>4. faults' \in Nat
    BY <1>10 DEF SkipSlot, TypeOK
  <2>. QED
    BY <1>10, <2>2, <2>3, <2>4 DEF SkipSlot, TypeOK, SessionTypeOK
<1>. QED
  BY <1>1, <1>2, <1>3, <1>4, <1>5, <1>6, <1>7, <1>8, <1>9, <1>10 DEF SessionStep

\* Every step of an event loop, of the human and of a failing pod keeps the
\* types.
LEMMA BotStepType ==
  ASSUME TypeOK, NEW b \in Bot, LoopStep(b) \/ Ping(b) \/ Crash(b)
  PROVE  TypeOK'
<1> USE DEF boundVars, sessionVars
<1>1. CASE HandleMention(b)
  <2>1. PICK e \in inbox[b] :
          /\ inbox' = [inbox EXCEPT ![b] = @ \ {e}]
          /\ IF Ignored(b, e)
             THEN UNCHANGED <<loop, answering>>
             ELSE /\ loop' = [loop EXCEPT ![b] = "locking"]
                  /\ answering' = [answering EXCEPT ![b] = e.re]
    BY <1>1 DEF HandleMention
  <2>2. e.re \in Int
    BY <2>1 DEF TypeOK, Event
  <2>3. inbox' \in [Bot -> SUBSET Event]
    BY <2>1 DEF TypeOK
  <2>4. /\ loop' \in [Bot -> {"idle", "locking", "replying"}]
        /\ answering' \in [Bot -> Int]
    BY <2>1, <2>2 DEF TypeOK
  <2>. QED
    BY <1>1, <2>3, <2>4 DEF HandleMention, TypeOK
<1>2. CASE LoopAcquire(b)
  BY <1>2 DEF LoopAcquire, TypeOK
<1>3. CASE PostReply(b)
  <2>1. answering[b] \in Int
    BY DEF TypeOK
  <2>2. PICK to \in Bot \cup {NoBot} : Post(b, to, -1, answering[b], 0)
    BY <1>3, MayMentionType DEF PostReply
  <2>3. chat' \in Seq(Message) /\ inbox' \in [Bot -> SUBSET Event]
    BY <2>1, <2>2, PostType
  <2>. QED
    BY <1>3, <2>3 DEF PostReply, TypeOK
<1>4. CASE SkipReply(b)
  <2>1. mu' \in [Bot -> Kind \cup {"free", "loop"}]
    BY <1>4 DEF SkipReply, TypeOK
  <2>2. loop' \in [Bot -> {"idle", "locking", "replying"}]
    BY <1>4 DEF SkipReply, TypeOK
  <2>3. faults' \in Nat
    BY <1>4 DEF SkipReply, TypeOK
  <2>. QED
    BY <1>4, <2>1, <2>2, <2>3 DEF SkipReply, TypeOK
<1>5. CASE Ping(b)
  <2>1. EventsOf(-1) \in SUBSET Event
    BY DEF EventsOf, Event
  <2>2. inbox' \in [Bot -> SUBSET Event]
    BY <1>5, <2>1 DEF Ping, TypeOK
  <2>3. pings' \in Nat /\ lastHuman' \in Nat
    BY <1>5 DEF Ping, TypeOK
  <2>4. UNCHANGED <<chat, pc, sessionVars, active, mu, loop, answering, faults>>
    BY <1>5 DEF Ping
  <2>. QED
    BY <2>2, <2>3, <2>4 DEF TypeOK, sessionVars
<1>6. CASE Crash(b)
  <2>1. active' \in [Bot -> Nat] /\ faults' \in Nat
    BY <1>6 DEF Crash, TypeOK
  <2>2. mu' \in [Bot -> Kind \cup {"free", "loop"}]
    BY <1>6 DEF Crash, TypeOK
  <2>3. loop' \in [Bot -> {"idle", "locking", "replying"}]
    BY <1>6 DEF Crash, TypeOK
  <2>. QED
    BY <1>6, <2>1, <2>2, <2>3 DEF Crash, TypeOK, Running
<1>7. CASE RunCountError(b)
  <2>1. inbox' \in [Bot -> SUBSET Event]
    BY <1>7 DEF RunCountError, TypeOK
  <2>2. faults' \in Nat
    BY <1>7 DEF RunCountError, TypeOK
  <2>. QED
    BY <1>7, <2>1, <2>2 DEF RunCountError, TypeOK
<1>. QED
  BY <1>1, <1>2, <1>3, <1>4, <1>5, <1>6, <1>7 DEF LoopStep

\* Type correctness of the whole specification.
THEOREM TypeCorrect == Spec => []TypeOK
<1>1. Init => TypeOK
  <2>. SUFFICES ASSUME Init PROVE TypeOK
    OBVIOUS
  <2>1. <<>> \in Seq(Message)
    OBVIOUS
  <2>2. inbox \in [Bot -> SUBSET Event]
    BY DEF Init, Event
  <2>. QED
    BY <2>1, <2>2, StaticFacts DEF Init, TypeOK
<1>2. TypeOK /\ [Next]_vars => TypeOK'
  <2>. SUFFICES ASSUME TypeOK, [Next]_vars PROVE TypeOK'
    OBVIOUS
  <2>1. CASE UNCHANGED vars
    BY <2>1 DEF TypeOK, vars, sessionVars, loopVars, boundVars
  <2>2. ASSUME NEW s \in Session, SessionStep(s) PROVE TypeOK'
    BY <2>2, SessionStepType
  <2>3. ASSUME NEW b \in Bot, LoopStep(b) \/ Ping(b) \/ Crash(b) PROVE TypeOK'
    BY <2>3, BotStepType
  <2>. QED
    BY <2>1, <2>2, <2>3 DEF Next
<1>. QED
  BY <1>1, <1>2, PTL DEF Spec

-----------------------------------------------------------------------------
(***************************************************************************)
(* Turn order in the strict configuration.                                 *)
(***************************************************************************)
\* With one session per bot, a bot has only one session.
LEMMA OneSession ==
  ASSUME Strict, NEW s \in Session, NEW t \in Session, Me(s) = Me(t)
  PROVE  s = t
<1>1. Kind = {"message"}
  BY DEF Strict, Kind
<1>. QED
  BY <1>1 DEF Session, Me

\* A step that posts nothing, wakes no event loop and moves no session into
\* its reply keeps the turn invariant.
LEMMA QuietStep ==
  ASSUME TurnInv, UNCHANGED <<chat, inbox, loop>>,
         \A s \in Session : pc'[s] \in Running =>
                              Slots[slot'[s]] = Me(s),
         \A s \in Session : pc'[s] \in {"ready", "replying"} =>
                              /\ pc[s] \in {"ready", "replying"}
                              /\ slot'[s] = slot[s]
  PROVE  TurnInv'
BY DEF TurnInv, InOrder

\* Leaving a session leaves the other sessions' program counters alone.
LEMMA LeaveFacts ==
  ASSUME TypeOK, NEW s \in Session, Leave(s), NEW t \in Session
  PROVE  pc'[t] \in Running => t # s /\ pc'[t] = pc[t]
BY DEF Leave, TypeOK, Running

\* Going on to the next own slot: the session waits for a slot of its own or
\* is done, and no other session moves.
LEMMA NextSlotFacts ==
  ASSUME TypeOK, NEW s \in Session, NEW k \in Int, NextSlot(s, k),
         NEW t \in Session, pc'[t] \in Running
  PROVE  /\ t # s => pc'[t] = pc[t] /\ slot'[t] = slot[t]
         /\ t = s => pc'[t] = "waiting" /\ Slots[slot'[t]] = Me(t)
<1>0. pc \in [Session -> Running \cup {"idle", "spawned", "done"}]
      /\ slot \in [Session -> SlotIndex]
  BY DEF TypeOK
<1>1. CASE OwnSlotsFrom(Me(s), k) # {}
  <2>1. PICK j \in OwnSlotsFrom(Me(s), k) : StartWait(s, j)
    BY <1>1 DEF NextSlot
  <2>2. slot' = [slot EXCEPT ![s] = j] /\ Slots[j] = Me(s)
    BY <2>1 DEF StartWait, OwnSlotsFrom
  <2>3. pc' = [pc EXCEPT ![s] = "waiting"]
    BY <1>1 DEF NextSlot
  <2>. QED
    BY <1>0, <2>2, <2>3
<1>2. CASE OwnSlotsFrom(Me(s), k) = {}
  <2>1. Leave(s) /\ slot' = slot
    BY <1>2 DEF NextSlot, sessionVars
  <2>. QED
    BY <2>1, LeaveFacts
<1>. QED
  BY <1>1, <1>2

\* A slot message is the next turn.
LEMMA PostSlotTurn ==
  ASSUME Strict, TypeOK, TurnInv, NEW s \in Session, PostSlot(s)
  PROVE  TurnInv'
<1>0. Me(s) \in Bot /\ slot[s] \in Nat /\ slot[s] \in SlotIndex /\ NSlots \in Nat
      /\ chat \in Seq(Message) /\ Len(chat) \in Nat
      /\ inbox \in [Bot -> SUBSET Event]
  <2>1. Me(s) \in Bot /\ NSlots \in Nat
    BY StaticFacts
  <2>2. slot[s] \in Nat /\ slot[s] \in SlotIndex
    BY SlotFacts
  <2>3. chat \in Seq(Message) /\ inbox \in [Bot -> SUBSET Event]
    BY DEF TypeOK
  <2>. QED
    BY <2>1, <2>2, <2>3
<1>1. pc[s] = "replying" /\ Len(chat) = slot[s] /\ Slots[slot[s]] = Me(s)
  BY DEF PostSlot, TurnInv, Running
<1>2. Post(Me(s), NoBot, slot[s], 0, heard[s])
  BY DEF PostSlot, MayMention, Strict
<1>3. PICK n, h : chat' = Append(chat, [from |-> Me(s), to |-> NoBot,
                    slot |-> slot[s], re |-> 0, n |-> n, heard |-> h])
  BY <1>2 DEF Post
<1>4. InOrder'
  <2>1. Len(chat') = Len(chat) + 1 /\ Len(chat') <= NSlots
    BY <1>0, <1>1, <1>3 DEF SlotIndex
  <2>2. ASSUME NEW i \in DOMAIN chat'
        PROVE  chat'[i].from = Slots[i - 1] /\ chat'[i].slot = i - 1
    <3>1. CASE i = Len(chat) + 1
      BY <1>0, <1>1, <1>3, <3>1
    <3>2. CASE i # Len(chat) + 1
      <4>1. i \in DOMAIN chat /\ chat'[i] = chat[i]
        BY <1>0, <1>3, <3>2
      <4>. QED
        BY <4>1 DEF TurnInv, InOrder
    <3>. QED
      BY <3>1, <3>2
  <2>. QED
    BY <2>1, <2>2 DEF InOrder
<1>5. \A i \in DOMAIN chat' : chat'[i].to = NoBot
  <2>. SUFFICES ASSUME NEW i \in DOMAIN chat' PROVE chat'[i].to = NoBot
    OBVIOUS
  <2>1. CASE i = Len(chat) + 1
    BY <1>0, <1>3, <2>1
  <2>2. CASE i # Len(chat) + 1
    <3>1. i \in DOMAIN chat /\ chat'[i] = chat[i]
      BY <1>0, <1>3, <2>2
    <3>. QED
      BY <3>1 DEF TurnInv
  <2>. QED
    BY <2>1, <2>2
<1>6. ASSUME NEW t \in Session
      PROVE  /\ pc'[t] \in Running => Slots[slot'[t]] = Me(t)
             /\ pc'[t] \in {"ready", "replying"} => Len(chat') = slot'[t]
  <2>. SUFFICES ASSUME pc'[t] \in Running
                PROVE  Slots[slot'[t]] = Me(t) /\ pc'[t] \notin {"ready", "replying"}
    BY DEF Running
  <2>1. NextSlot(s, slot[s] + 1) /\ slot[s] + 1 \in Int
    BY <1>0 DEF PostSlot
  <2>2. /\ t # s => pc'[t] = pc[t] /\ slot'[t] = slot[t]
        /\ t = s => pc'[t] = "waiting" /\ Slots[slot'[t]] = Me(t)
    BY <2>1, NextSlotFacts
  <2>3. CASE t = s
    BY <2>2, <2>3
  <2>4. CASE t # s
    <3>1. pc[t] \in Running /\ Slots[slot[t]] = Me(t)
      BY <2>2, <2>4 DEF TurnInv
    <3>2. ASSUME pc[t] \in {"ready", "replying"} PROVE FALSE
      <4>1. Len(chat) = slot[t]
        BY <3>2 DEF TurnInv
      <4>2. Me(t) = Me(s)
        BY <1>1, <3>1, <4>1
      <4>. QED
        BY <2>4, <4>2, OneSession
    <3>. QED
      BY <2>2, <2>4, <3>1, <3>2
  <2>. QED
    BY <2>3, <2>4
<1>7. \A b \in Bot : inbox'[b] = {} /\ loop'[b] = "idle"
  <2>1. inbox' = [c \in Bot |-> inbox[c]]
    BY <1>2 DEF Post
  <2>2. loop' = loop
    BY DEF PostSlot
  <2>. QED
    BY <2>1, <2>2 DEF TurnInv
<1>. QED
  BY <1>4, <1>5, <1>6, <1>7 DEF TurnInv

\* A step of a session keeps the turn invariant.
LEMMA SessionStepTurn ==
  ASSUME Strict, TypeOK, TurnInv, NEW s \in Session, SessionStep(s)
  PROVE  TurnInv'
<1>0. /\ pc \in [Session -> Running \cup {"idle", "spawned", "done"}]
      /\ slot \in [Session -> SlotIndex]
      /\ slot[s] + 1 \in Int
  BY SlotFacts DEF TypeOK
<1> USE DEF loopVars, sessionVars
<1>1. CASE Receive(s)
  BY <1>0, <1>1, QuietStep DEF Receive, Running, TurnInv
<1>2. CASE Begin(s)
  <2>1. CASE OwnSlotsFrom(Me(s), 0) # {}
    <3>1. PICK j \in OwnSlotsFrom(Me(s), 0) : StartWait(s, j)
      BY <1>2, <2>1 DEF Begin
    <3>2. slot' = [slot EXCEPT ![s] = j] /\ Slots[j] = Me(s)
      BY <3>1 DEF StartWait, OwnSlotsFrom
    <3>3. pc' = [pc EXCEPT ![s] = "waiting"]
      BY <1>2, <2>1 DEF Begin
    <3>4. UNCHANGED <<chat, inbox, loop>>
      BY <1>2 DEF Begin
    <3>. QED
      BY <1>0, <3>2, <3>3, <3>4, QuietStep DEF TurnInv, Running
  <2>2. CASE OwnSlotsFrom(Me(s), 0) = {}
    <3>1. pc' = [pc EXCEPT ![s] = "done"] /\ slot' = slot
      BY <1>2, <2>2 DEF Begin
    <3>2. UNCHANGED <<chat, inbox, loop>>
      BY <1>2 DEF Begin
    <3>. QED
      BY <1>0, <3>1, <3>2, QuietStep DEF TurnInv, Running
  <2>. QED
    BY <2>1, <2>2
<1>3. CASE PollReady(s)
  <2>1. Len(chat) = slot[s] /\ pc[s] = "waiting"
    BY <1>3 DEF PollReady, Strict, Degraded, Exact
  <2>2. pc' = [pc EXCEPT ![s] = "ready"]
        /\ UNCHANGED <<chat, inbox, loop, slot>>
    BY <1>3 DEF PollReady
  <2>. QED
    BY <1>0, <2>1, <2>2 DEF TurnInv, InOrder, Running
<1>4. CASE PollAgain(s)
  <2>1. UNCHANGED <<chat, inbox, loop, slot>>
    BY <1>4 DEF PollAgain
  <2>2. Leave(s) \/ UNCHANGED <<pc, active>>
    BY <1>4 DEF PollAgain
  <2>3. \A t \in Session : pc'[t] \in Running => pc'[t] = pc[t]
    BY <2>2, LeaveFacts
  <2>. QED
    BY <2>1, <2>3, QuietStep DEF TurnInv, Running
<1>5. CASE WaitTimeout(s)
  <2>1. UNCHANGED <<chat, inbox, loop, slot>> /\ Leave(s)
    BY <1>5 DEF WaitTimeout
  <2>2. \A t \in Session : pc'[t] \in Running => pc'[t] = pc[t]
    BY <2>1, LeaveFacts
  <2>. QED
    BY <2>1, <2>2, QuietStep DEF TurnInv, Running
<1>6. CASE HistoryError(s)
  <2>1. UNCHANGED <<chat, inbox, loop, slot>> /\ Leave(s)
    BY <1>6 DEF HistoryError
  <2>2. \A t \in Session : pc'[t] \in Running => pc'[t] = pc[t]
    BY <2>1, LeaveFacts
  <2>. QED
    BY <2>1, <2>2, QuietStep DEF TurnInv, Running
<1>7. CASE Elapse(s)
  BY <1>7, QuietStep DEF Elapse, TurnInv
<1>8. CASE Acquire(s)
  <2>1. pc[s] = "ready" /\ pc' = [pc EXCEPT ![s] = "replying"]
        /\ UNCHANGED <<chat, inbox, loop, slot>>
    BY <1>8 DEF Acquire
  <2>. QED
    BY <1>0, <2>1, QuietStep DEF TurnInv, Running
<1>9. CASE PostSlot(s)
  BY <1>9, PostSlotTurn
<1>10. CASE SkipSlot(s)
  <2>1. UNCHANGED <<chat, inbox, loop>> /\ NextSlot(s, slot[s] + 1)
    BY <1>10 DEF SkipSlot
  <2>2. \A t \in Session : pc'[t] \in Running =>
          /\ t # s => pc'[t] = pc[t] /\ slot'[t] = slot[t]
          /\ t = s => pc'[t] = "waiting" /\ Slots[slot'[t]] = Me(t)
    BY <1>0, <2>1, NextSlotFacts
  <2>. QED
    BY <2>1, <2>2, QuietStep DEF TurnInv, Running
<1>. QED
  BY <1>1, <1>2, <1>3, <1>4, <1>5, <1>6, <1>7, <1>8, <1>9, <1>10 DEF SessionStep

\* In the strict configuration the event loops have nothing to do; a crash
\* only removes sessions.
LEMMA BotStepTurn ==
  ASSUME Strict, TypeOK, TurnInv, NEW b \in Bot, LoopStep(b) \/ Ping(b) \/ Crash(b)
  PROVE  TurnInv'
<1>1. inbox[b] = {} /\ loop[b] = "idle"
  BY DEF TurnInv
<1>2. ~LoopStep(b)
  BY <1>1 DEF LoopStep, HandleMention, RunCountError, LoopAcquire, PostReply,
       SkipReply
<1>3. ~Ping(b)
  BY DEF Ping, Strict, TypeOK
<1>4. CASE Crash(b)
  <2>1. UNCHANGED <<chat, inbox, slot>> /\ loop' = [loop EXCEPT ![b] = "idle"]
    BY <1>4 DEF Crash, sessionVars
  <2>2. loop' = loop
    BY <1>1, <2>1 DEF TypeOK
  <2>3. \A t \in Session : pc'[t] \in Running => pc'[t] = pc[t]
    BY <1>4 DEF Crash, Running
  <2>. QED
    BY <2>1, <2>2, <2>3, QuietStep DEF TurnInv, Running
<1>. QED
  BY <1>2, <1>3, <1>4

\* For every squad, order and number of rounds: when nothing but the session
\* writes to the channel, the channel shows the turns in order, each once,
\* whatever polls, timeouts, skipped posts and crashes do.
THEOREM TurnOrder == ASSUME Strict PROVE Spec => []TurnInv
<1>1. Init => TurnInv
  <2>. SUFFICES ASSUME Init PROVE TurnInv
    OBVIOUS
  <2>1. inbox = [b \in Bot |-> {}]
    BY DEF Init, Strict
  <2>. QED
    BY <2>1, StaticFacts DEF Init, TurnInv, InOrder, Running
<1>2. TypeOK /\ TurnInv /\ [Next]_vars => TurnInv'
  <2>. SUFFICES ASSUME TypeOK, TurnInv, [Next]_vars PROVE TurnInv'
    OBVIOUS
  <2>1. CASE UNCHANGED vars
    BY <2>1 DEF TurnInv, InOrder, vars, sessionVars, loopVars
  <2>2. ASSUME NEW s \in Session, SessionStep(s) PROVE TurnInv'
    BY <2>2, SessionStepTurn
  <2>3. ASSUME NEW b \in Bot, LoopStep(b) \/ Ping(b) \/ Crash(b) PROVE TurnInv'
    BY <2>3, BotStepTurn
  <2>. QED
    BY <2>1, <2>2, <2>3 DEF Next
<1>. QED
  BY <1>1, <1>2, TypeCorrect, PTL DEF Spec

\* InOrder follows, for the reader of the runs.
THEOREM ChannelInOrder == ASSUME Strict PROVE Spec => []InOrder
<1>1. TurnInv => InOrder
  BY DEF TurnInv
<1>. QED
  BY <1>1, TurnOrder, PTL

-----------------------------------------------------------------------------
(***************************************************************************)
(* Refinement of TurnTaking.                                               *)
(***************************************************************************)
\* A step appends one message to the channel or none.
LEMMA ChatStep ==
  ASSUME TypeOK, [Next]_vars
  PROVE  chat' = chat \/ \E m \in Message : chat' = Append(chat, m)
<1>1. ASSUME NEW b \in Bot, NEW to \in Bot \cup {NoBot},
             NEW k \in SlotIndex \cup {-1}, NEW re \in Int, NEW ctx \in Nat,
             Post(b, to, k, re, ctx)
      PROVE  \E m \in Message : chat' = Append(chat, m)
  <2>1. NextRunCount \in Int
    BY DEF NextRunCount, TypeOK
  <2>2. [from |-> b, to |-> to, slot |-> k, re |-> re, n |-> NextRunCount,
         heard |-> ctx] \in Message
    BY <2>1 DEF Message
  <2>. QED
    BY <1>1, <2>2 DEF Post
<1>2. ASSUME NEW s \in Session, SessionStep(s)
      PROVE  chat' = chat \/ \E m \in Message : chat' = Append(chat, m)
  <2>1. CASE PostSlot(s)
    <3>1. Me(s) \in Bot
      BY StaticFacts
    <3>2. slot[s] \in SlotIndex \cup {-1} /\ heard[s] \in Nat /\ 0 \in Int
      BY SlotFacts
    <3>3. PICK to \in Bot \cup {NoBot} : Post(Me(s), to, slot[s], 0, heard[s])
      BY <2>1, <3>1, MayMentionType DEF PostSlot
    <3>. QED
      BY <1>1, <3>1, <3>2, <3>3
  <2>2. CASE ~PostSlot(s)
    BY <1>2, <2>2 DEF SessionStep, Receive, Begin, PollReady, PollAgain,
         WaitTimeout, HistoryError, Elapse, Acquire, SkipSlot
  <2>. QED
    BY <2>1, <2>2
<1>3. ASSUME NEW b \in Bot, LoopStep(b) \/ Ping(b) \/ Crash(b)
      PROVE  chat' = chat \/ \E m \in Message : chat' = Append(chat, m)
  <2>1. CASE PostReply(b)
    <3>1. answering[b] \in Int /\ -1 \in SlotIndex \cup {-1} /\ 0 \in Nat
      BY DEF TypeOK
    <3>2. PICK to \in Bot \cup {NoBot} : Post(b, to, -1, answering[b], 0)
      BY <2>1, MayMentionType DEF PostReply
    <3>. QED
      BY <1>1, <3>1, <3>2
  <2>2. CASE ~PostReply(b)
    BY <1>3, <2>2 DEF LoopStep, HandleMention, RunCountError, LoopAcquire,
         SkipReply, Ping, Crash
  <2>. QED
    BY <2>1, <2>2
<1>4. CASE UNCHANGED vars
  BY <1>4 DEF vars
<1>. QED
  BY <1>2, <1>3, <1>4 DEF Next

\* The squad session implements the abstract turn-taking: each step that posts
\* is the turn of the speaker whose slot is next.
THEOREM Refinement == ASSUME Strict PROVE Spec => TakesTurns
<1> DEFINE said == [i \in DOMAIN chat |-> chat[i].from]
           turns == [i \in 1 .. NSlots |-> Slots[i - 1]]
<1>1. Init => Abs!Init
  BY DEF Init, Abs!Init
<1>2. TypeOK /\ TurnInv /\ TurnInv' /\ [Next]_vars => [Abs!Speak]_said
  <2>. SUFFICES ASSUME TypeOK, TurnInv, TurnInv', [Next]_vars
                PROVE  Abs!Speak \/ said' = said
    BY DEF Abs!Speak
  <2>1. CASE chat' = chat
    BY <2>1
  <2>2. ASSUME NEW m \in Message, chat' = Append(chat, m)
        PROVE  Abs!Speak
    <3>1. chat \in Seq(Message) /\ Len(chat) \in Nat /\ NSlots \in Nat
      BY StaticFacts DEF TypeOK
    <3>2. Len(chat') = Len(chat) + 1 /\ DOMAIN chat' = 1 .. Len(chat) + 1
          /\ chat'[Len(chat) + 1] = m
          /\ \A i \in 1 .. Len(chat) : chat'[i] = chat[i]
      BY <2>2, <3>1
    <3>3. Len(chat) + 1 <= NSlots /\ m.from = Slots[Len(chat)]
      <4>1. /\ Len(chat') <= NSlots
            /\ \A i \in DOMAIN chat' : chat'[i].from = Slots[i - 1]
        BY DEF TurnInv, InOrder
      <4>2. Len(chat) + 1 \in DOMAIN chat' /\ (Len(chat) + 1) - 1 = Len(chat)
        BY <3>1, <3>2
      <4>3. m.from = Slots[(Len(chat) + 1) - 1]
        BY <3>2, <4>1, <4>2
      <4>. QED
        BY <3>2, <4>1, <4>2, <4>3
    <3>4. said \in Seq(Bot) /\ Len(said) = Len(chat)
      <4>1. \A i \in 1 .. Len(chat) : chat[i].from \in Bot
        <5>1. \A i \in 1 .. Len(chat) : chat[i] \in Message
          BY <3>1
        <5>. QED
          BY <5>1 DEF Message
      <4>. QED
        BY <3>1, <4>1
    <3>5. Len(turns) = NSlots /\ turns[Len(chat) + 1] = m.from
      BY <3>1, <3>3
    <3>6. said' = Append(said, m.from)
      <4>1. said' = [i \in 1 .. Len(chat) + 1 |-> chat'[i].from]
        BY <3>2
      <4>. QED
        BY <3>1, <3>2, <3>4, <4>1
    <3>. QED
      <4>1. Len(said) < Len(turns)
        BY <3>1, <3>3, <3>4, <3>5
      <4>2. said' = Append(said, turns[Len(said) + 1])
        BY <3>4, <3>5, <3>6
      <4>. QED
        BY <4>1, <4>2 DEF Abs!Speak
  <2>. QED
    BY <2>1, <2>2, ChatStep
<1>. QED
  BY <1>1, <1>2, TypeCorrect, TurnOrder, PTL DEF Spec, TakesTurns, Abs!Spec
-----------------------------------------------------------------------------
(***************************************************************************)
(* The broadcast marks.                                                    *)
(***************************************************************************)
\* The mark of a bot counts its one running session; without a broadcast there
\* are no marks.
Balance ==
  \A s \in Session : active[Me(s)] = IF Broadcast /\ pc[s] \in Running THEN 1 ELSE 0

\* A broadcast starts one session per bot.
LEMMA OneBroadcastSession ==
  ASSUME Broadcast, NEW s \in Session, NEW t \in Session, Me(s) = Me(t)
  PROVE  s = t
  BY DEF Session, Kind, Me

\* Every bot has a session.
LEMMA HasSession ==
  ASSUME NEW b \in Bot
  PROVE  <<b, "message">> \in Session /\ Me(<<b, "message">>) = b
  BY DEF Session, Kind, Me

\* Balanced marks count the running sessions.
LEMMA BalanceCounts ==
  ASSUME Balance
  PROVE  ActiveBalanced
<1> SUFFICES ASSUME NEW b \in Bot
             PROVE  active[b] = IF Broadcast
                                THEN Cardinality({s \in Session : Me(s) = b /\ pc[s] \in Running})
                                ELSE 0
  BY DEF ActiveBalanced
<1> DEFINE one == <<b, "message">>
           mine == {s \in Session : Me(s) = b /\ pc[s] \in Running}
<1>1. one \in Session /\ Me(one) = b
  BY HasSession
<1> HIDE DEF one
<1>2. active[b] = IF Broadcast /\ pc[one] \in Running THEN 1 ELSE 0
  BY <1>1 DEF Balance
<1>3. CASE Broadcast /\ pc[one] \in Running
  <2>1. mine = {one}
    BY <1>1, <1>3, OneBroadcastSession
  <2> QED
    BY <1>2, <1>3, <2>1, FS_Singleton
<1>4. CASE Broadcast /\ pc[one] \notin Running
  <2>1. mine = {}
    BY <1>1, <1>4, OneBroadcastSession
  <2> QED
    BY <1>2, <1>4, <2>1, FS_EmptySet
<1> QED
  BY <1>2, <1>3, <1>4

\* endBroadcast runs once on the way out.
LEMMA LeaveBalance ==
  ASSUME TypeOK, Balance, NEW s \in Session, pc[s] \in Running, Leave(s)
  PROVE  Balance'
<1>1. active \in [Bot -> Nat] /\ Me(s) \in Bot
      /\ pc \in [Session -> Running \cup {"idle", "spawned", "done"}]
  BY StaticFacts DEF TypeOK
<1>2. pc' = [pc EXCEPT ![s] = "done"]
  BY DEF Leave
<1>3. CASE Broadcast
  <2>1. active' = [active EXCEPT ![Me(s)] = 0]
    <3>1. active[Me(s)] = 1
      BY <1>3 DEF Balance
    <3>2. active' = [active EXCEPT ![Me(s)] = active[Me(s)] - 1]
      BY <1>3, <3>1 DEF Leave
    <3> QED
      BY <3>1, <3>2
  <2> QED
    BY <1>1, <1>2, <1>3, <2>1, OneBroadcastSession DEF Balance, Running
<1>4. CASE ~Broadcast
  BY <1>1, <1>4 DEF Balance, Leave
<1> QED
  BY <1>3, <1>4

\* A session takes its mark up and lays it down.
LEMMA SessionBalance ==
  ASSUME TypeOK, Balance, NEW s \in Session, SessionStep(s)
  PROVE  Balance'
<1>1. active \in [Bot -> Nat] /\ Me(s) \in Bot
      /\ pc \in [Session -> Running \cup {"idle", "spawned", "done"}]
  BY StaticFacts DEF TypeOK
<1>2. CASE Receive(s)
  BY <1>1, <1>2 DEF Receive, Balance, Running
<1>3. CASE Begin(s)
  <2>1. pc[s] \notin Running /\ active[Me(s)] = 0
    BY <1>3 DEF Begin, Balance, Running
  <2>2. CASE OwnSlotsFrom(Me(s), 0) = {}
    BY <1>1, <1>3, <2>1, <2>2 DEF Begin, Balance, Running
  <2>3. CASE OwnSlotsFrom(Me(s), 0) # {}
    <3>1. /\ pc' = [pc EXCEPT ![s] = "waiting"]
          /\ active' = IF Broadcast THEN [active EXCEPT ![Me(s)] = @ + 1] ELSE active
      BY <1>3, <2>3 DEF Begin
    <3>2. CASE Broadcast
      BY <1>1, <2>1, <3>1, <3>2, OneBroadcastSession DEF Balance, Running
    <3>3. CASE ~Broadcast
      BY <3>1, <3>3 DEF Balance
    <3> QED
      BY <3>2, <3>3
  <2> QED
    BY <2>2, <2>3
<1>4. CASE PollReady(s) \/ Acquire(s)
  BY <1>1, <1>4 DEF PollReady, Acquire, Balance, Running
<1>5. CASE Elapse(s)
  BY <1>5 DEF Elapse, Balance
<1>6. CASE PollAgain(s) \/ WaitTimeout(s) \/ HistoryError(s)
  <2>1. pc[s] \in Running /\ (Leave(s) \/ UNCHANGED <<pc, active>>)
    BY <1>6 DEF PollAgain, WaitTimeout, HistoryError, Running
  <2> QED
    BY <2>1, LeaveBalance DEF Balance
<1>7. CASE PostSlot(s) \/ SkipSlot(s)
  <2>1. pc[s] \in Running /\ NextSlot(s, slot[s] + 1)
    BY <1>7 DEF PostSlot, SkipSlot, Running
  <2>2. Leave(s) \/ (pc' = [pc EXCEPT ![s] = "waiting"] /\ UNCHANGED active)
    BY <2>1 DEF NextSlot
  <2> QED
    BY <1>1, <2>1, <2>2, LeaveBalance DEF Balance, Running
<1> QED
  BY <1>2, <1>3, <1>4, <1>5, <1>6, <1>7 DEF SessionStep

\* Event loops, the human and crashes keep the marks in balance.
LEMMA BotBalance ==
  ASSUME TypeOK, Balance, NEW b \in Bot, LoopStep(b) \/ Ping(b) \/ Crash(b)
  PROVE  Balance'
<1>1. CASE Crash(b)
  <2>1. active \in [Bot -> Nat]
        /\ pc \in [Session -> Running \cup {"idle", "spawned", "done"}]
    BY DEF TypeOK
  <2>2. ASSUME NEW s \in Session
        PROVE  active'[Me(s)] = IF Broadcast /\ pc'[s] \in Running THEN 1 ELSE 0
    <3>1. Me(s) \in Bot
      BY StaticFacts
    <3>2. CASE Me(s) = b
      BY <1>1, <2>1, <3>1, <3>2 DEF Crash, Running
    <3>3. CASE Me(s) # b
      BY <1>1, <2>1, <3>1, <3>3 DEF Crash, Balance
    <3> QED
      BY <3>2, <3>3
  <2> QED
    BY <2>2 DEF Balance
<1>2. CASE LoopStep(b) \/ Ping(b)
  <2>1. UNCHANGED <<pc, active>>
    BY <1>2 DEF LoopStep, HandleMention, RunCountError, LoopAcquire, PostReply, SkipReply, Ping
  <2> QED
    BY <2>1 DEF Balance
<1> QED
  BY <1>1, <1>2

\* beginBroadcast and endBroadcast balance for every squad, order and setting,
\* through timeouts, errors, skipped posts and crashes.
THEOREM MarksBalance == Spec => []ActiveBalanced
<1>1. Init => Balance
  <2> SUFFICES ASSUME Init, NEW s \in Session
               PROVE  active[Me(s)] = IF Broadcast /\ pc[s] \in Running THEN 1 ELSE 0
    BY DEF Balance
  <2> QED
    BY StaticFacts DEF Init, Running
<1>2. TypeOK /\ Balance /\ [Next]_vars => Balance'
  <2> SUFFICES ASSUME TypeOK, Balance, [Next]_vars PROVE Balance'
    OBVIOUS
  <2>1. CASE UNCHANGED vars
    BY <2>1 DEF Balance, vars
  <2> QED
    BY <2>1, SessionBalance, BotBalance DEF Next
<1>3. Balance => ActiveBalanced
  BY BalanceCounts
<1> QED
  BY <1>1, <1>2, <1>3, TypeCorrect, PTL DEF Spec

-----------------------------------------------------------------------------
(***************************************************************************)
(* No slot twice.                                                          *)
(***************************************************************************)
\* One session per bot: a broadcast, or no app_mention for the summons.
OneSessionEach == Broadcast \/ ~AppMention

\* A slot in the channel is its author's, and the author's session is past it.
OnceInv ==
  /\ OncePerSlot
  /\ \A s \in Session : pc[s] \in Running => Slots[slot[s]] = Me(s)
  /\ \A i \in DOMAIN chat : chat[i].slot # -1 =>
       /\ chat[i].from = Slots[chat[i].slot]
       /\ \A s \in Session : Me(s) = chat[i].from =>
            /\ pc[s] \notin {"idle", "spawned"}
            /\ pc[s] \in Running => chat[i].slot < slot[s]

\* Session t never goes back.
Onward(t) ==
  /\ pc'[t] \in Running => /\ Slots[slot'[t]] = Me(t)
                           /\ pc[t] \in Running \cup {"spawned"}
                           /\ pc[t] \in Running => slot'[t] \in Nat /\ slot[t] <= slot'[t]
  /\ pc'[t] \in {"idle", "spawned"} => pc[t] \in {"idle", "spawned"}

\* Sessions that only go on to later slots post nothing twice.
LEMMA OnwardKeeps ==
  ASSUME TypeOK, OnceInv, UNCHANGED chat, \A t \in Session : Onward(t)
  PROVE  OnceInv'
<1>1. OncePerSlot'
  BY DEF OnceInv, OncePerSlot
<1>2. \A s \in Session : pc'[s] \in Running => Slots[slot'[s]] = Me(s)
  BY DEF Onward
<1>3. ASSUME NEW i \in DOMAIN chat, chat[i].slot # -1
      PROVE  /\ chat[i].from = Slots[chat[i].slot]
             /\ \A s \in Session : Me(s) = chat[i].from =>
                  /\ pc'[s] \notin {"idle", "spawned"}
                  /\ pc'[s] \in Running => chat[i].slot < slot'[s]
  <2>1. chat[i].slot \in Int
    <3>1. chat[i] \in Message
      BY DEF TypeOK
    <3>2. chat[i].slot \in SlotIndex \cup {-1}
      BY <3>1 DEF Message
    <3>3. chat[i].slot \in Nat
      BY <1>3, <3>2, StaticFacts
    <3> QED
      BY <3>3
  <2>2. ASSUME NEW s \in Session, Me(s) = chat[i].from
        PROVE  /\ pc'[s] \notin {"idle", "spawned"}
               /\ pc'[s] \in Running => chat[i].slot < slot'[s]
    <3>1. pc[s] \notin {"idle", "spawned"} /\ (pc[s] \in Running => chat[i].slot < slot[s])
      BY <1>3, <2>2 DEF OnceInv
    <3>2. ASSUME pc'[s] \in Running PROVE chat[i].slot < slot'[s]
      <4>1. pc[s] \in Running /\ slot[s] <= slot'[s] /\ Slots[slot'[s]] = Me(s)
        BY <3>1, <3>2 DEF Onward
      <4>2. slot[s] \in Nat /\ slot'[s] \in Nat
        BY <3>2, <4>1, SlotFacts DEF Onward
      <4> QED
        BY <2>1, <3>1, <4>1, <4>2
    <3> QED
      BY <3>1, <3>2 DEF Onward
  <2> QED
    BY <1>3, <2>2 DEF OnceInv
<1> QED
  BY <1>1, <1>2, <1>3 DEF OnceInv
\* The next slot of a session is a later one.
LEMMA NextSlotOnward ==
  ASSUME TypeOK, OnceInv, NEW s \in Session, pc[s] \in Running, NextSlot(s, slot[s] + 1),
         NEW t \in Session
  PROVE  /\ Onward(t)
         /\ pc'[s] \in Running => slot[s] < slot'[s]
<1>1. /\ pc \in [Session -> Running \cup {"idle", "spawned", "done"}]
      /\ slot \in [Session -> SlotIndex] /\ SlotIndex \subseteq Nat
  BY StaticFacts DEF TypeOK
<1>2. slot[s] \in Nat /\ slot[t] \in Nat
  BY SlotFacts
<1>3. CASE OwnSlotsFrom(Me(s), slot[s] + 1) # {}
  <2>1. PICK j \in OwnSlotsFrom(Me(s), slot[s] + 1) : StartWait(s, j)
    BY <1>3 DEF NextSlot
  <2>2. slot' = [slot EXCEPT ![s] = j] /\ Slots[j] = Me(s) /\ j \in Nat /\ slot[s] + 1 <= j
    BY <1>1, <2>1 DEF StartWait, OwnSlotsFrom
  <2>3. pc' = [pc EXCEPT ![s] = "waiting"]
    BY <1>3 DEF NextSlot
  <2>4. CASE t = s
    BY <1>1, <1>2, <2>2, <2>3, <2>4 DEF Onward, Running
  <2>5. CASE t # s
    BY <1>1, <1>2, <2>2, <2>3, <2>5 DEF Onward, OnceInv
  <2>6. slot[s] < slot'[s]
    BY <1>1, <1>2, <2>2
  <2> QED
    BY <2>4, <2>5, <2>6
<1>4. CASE OwnSlotsFrom(Me(s), slot[s] + 1) = {}
  <2>1. pc' = [pc EXCEPT ![s] = "done"] /\ slot' = slot
    BY <1>4 DEF NextSlot, Leave, sessionVars
  <2> QED
    BY <1>1, <1>2, <2>1 DEF Onward, OnceInv, Running
<1> QED
  BY <1>3, <1>4

\* A reply outside the session's slots changes nothing about them.
LEMMA FollowupKeeps ==
  ASSUME TypeOK, OnceInv, NEW m \in Message, m.slot = -1, chat' = Append(chat, m),
         UNCHANGED <<pc, slot>>
  PROVE  OnceInv'
<1>1. /\ Len(chat) \in Nat /\ DOMAIN chat = 1 .. Len(chat)
      /\ DOMAIN chat' = 1 .. Len(chat) + 1
      /\ \A i \in DOMAIN chat : chat'[i] = chat[i]
      /\ chat'[Len(chat) + 1] = m
  <2>1. chat \in Seq(Message)
    BY DEF TypeOK
  <2> QED
    BY <2>1
<1>2. \A i \in DOMAIN chat' : chat'[i].slot # -1 => i \in DOMAIN chat /\ chat'[i] = chat[i]
  BY <1>1
<1> QED
  BY <1>2 DEF OnceInv, OncePerSlot

\* A slot that is posted was not in the channel before.
LEMMA SlotPostKeeps ==
  ASSUME OneSessionEach, TypeOK, OnceInv, NEW s \in Session, PostSlot(s)
  PROVE  OnceInv'
<1>1. pc[s] = "replying" /\ pc[s] \in Running /\ NextSlot(s, slot[s] + 1)
  BY DEF PostSlot, Running
<1>2. slot[s] \in Nat /\ slot[s] \in SlotIndex /\ Slots[slot[s]] = Me(s)
  BY <1>1, SlotFacts DEF OnceInv
<1>3. PICK m : chat' = Append(chat, m) /\ m.from = Me(s) /\ m.slot = slot[s]
  BY DEF PostSlot, Post
<1>4. /\ Len(chat) \in Nat /\ DOMAIN chat = 1 .. Len(chat)
      /\ DOMAIN chat' = 1 .. Len(chat) + 1
      /\ \A i \in DOMAIN chat : chat'[i] = chat[i]
      /\ chat'[Len(chat) + 1] = m
  <2>1. chat \in Seq(Message)
    BY DEF TypeOK
  <2> QED
    BY <1>3, <2>1
<1>5. \A t \in Session : Onward(t)
  BY <1>1, NextSlotOnward
<1>6. pc'[s] \in Running => slot[s] < slot'[s]
  BY <1>1, NextSlotOnward
<1>7. pc'[s] \notin {"idle", "spawned"}
  BY <1>1, <1>5 DEF Onward
<1>8. \A t \in Session : Me(t) = Me(s) => t = s
  BY DEF OneSessionEach, Session, Kind, Me
<1>9. \A i \in DOMAIN chat : chat[i].slot # slot[s]
  <2> SUFFICES ASSUME NEW i \in DOMAIN chat, chat[i].slot = slot[s] PROVE FALSE
    OBVIOUS
  <2>1. chat[i].slot # -1
    BY <1>2
  <2>2. chat[i].from = Me(s)
    BY <1>2, <2>1 DEF OnceInv
  <2>3. chat[i].slot < slot[s]
    BY <1>1, <2>1, <2>2 DEF OnceInv
  <2> QED
    BY <1>2, <2>3
<1>10. OncePerSlot'
  BY <1>3, <1>4, <1>9 DEF OnceInv, OncePerSlot
<1>11. \A t \in Session : pc'[t] \in Running => Slots[slot'[t]] = Me(t)
  BY <1>5 DEF Onward
<1>12. ASSUME NEW i \in DOMAIN chat', chat'[i].slot # -1
       PROVE  /\ chat'[i].from = Slots[chat'[i].slot]
              /\ \A t \in Session : Me(t) = chat'[i].from =>
                   /\ pc'[t] \notin {"idle", "spawned"}
                   /\ pc'[t] \in Running => chat'[i].slot < slot'[t]
  <2>1. CASE i = Len(chat) + 1
    BY <1>2, <1>3, <1>4, <1>6, <1>7, <1>8, <2>1
  <2>2. CASE i \in DOMAIN chat
    <3>1. chat'[i] = chat[i]
      BY <1>4, <2>2
    <3>2. chat[i].slot \in Nat
      <4>1. chat[i] \in Message
        BY <2>2 DEF TypeOK
      <4>2. chat[i].slot \in SlotIndex \cup {-1}
        BY <4>1 DEF Message
      <4> QED
        BY <1>12, <3>1, <4>2, StaticFacts
    <3>3. chat[i].from = Slots[chat[i].slot]
      BY <1>12, <2>2, <3>1 DEF OnceInv
    <3>4. ASSUME NEW t \in Session, Me(t) = chat[i].from
          PROVE  /\ pc'[t] \notin {"idle", "spawned"}
                 /\ pc'[t] \in Running => chat[i].slot < slot'[t]
      <4>1. pc[t] \notin {"idle", "spawned"} /\ (pc[t] \in Running => chat[i].slot < slot[t])
        BY <1>12, <2>2, <3>1, <3>4 DEF OnceInv
      <4>2. ASSUME pc'[t] \in Running PROVE chat[i].slot < slot'[t]
        <5>1. pc[t] \in Running /\ slot'[t] \in Nat /\ slot[t] <= slot'[t]
          BY <1>5, <4>1, <4>2 DEF Onward
        <5>2. slot[t] \in Nat
          BY SlotFacts
        <5> QED
          BY <3>2, <4>1, <5>1, <5>2
      <4> QED
        BY <1>5, <4>1, <4>2 DEF Onward
    <3> QED
      BY <3>1, <3>3, <3>4
  <2> QED
    BY <1>4, <2>1, <2>2
<1> QED
  BY <1>10, <1>11, <1>12 DEF OnceInv

\* A session's step posts no slot twice.
LEMMA SessionOnce ==
  ASSUME OneSessionEach, TypeOK, OnceInv, NEW s \in Session, SessionStep(s)
  PROVE  OnceInv'
<1>1. /\ pc \in [Session -> Running \cup {"idle", "spawned", "done"}]
      /\ slot \in [Session -> SlotIndex] /\ SlotIndex \subseteq Nat
  BY StaticFacts DEF TypeOK
<1>2. ASSUME NEW where \in {"ready", "replying", "waiting", "done"}, pc[s] \in Running,
             UNCHANGED <<chat, slot>>, pc' = [pc EXCEPT ![s] = where] \/ UNCHANGED pc
      PROVE  OnceInv'
  <2>1. \A t \in Session : Onward(t)
    <3> SUFFICES ASSUME NEW t \in Session PROVE Onward(t)
      OBVIOUS
    <3>1. slot[t] \in Nat /\ slot'[t] = slot[t]
      BY <1>1, <1>2
    <3> QED
      BY <1>1, <1>2, <3>1 DEF Onward, OnceInv, Running
  <2> QED
    BY <1>2, <2>1, OnwardKeeps
<1>3. CASE Receive(s)
  <2>1. pc[s] = "idle" /\ pc' = [pc EXCEPT ![s] = "spawned"] /\ UNCHANGED <<chat, slot>>
    BY <1>3 DEF Receive, sessionVars
  <2>2. \A t \in Session : Onward(t)
    <3> SUFFICES ASSUME NEW t \in Session PROVE Onward(t)
      OBVIOUS
    <3>1. slot[t] \in Nat /\ slot'[t] = slot[t]
      BY <1>1, <2>1
    <3> QED
      BY <1>1, <2>1, <3>1 DEF Onward, OnceInv, Running
  <2> QED
    BY <2>1, <2>2, OnwardKeeps
<1>4. CASE Begin(s)
  <2>1. pc[s] = "spawned" /\ UNCHANGED chat
    BY <1>4 DEF Begin
  <2>2. ASSUME NEW t \in Session PROVE Onward(t)
    <3>1. CASE OwnSlotsFrom(Me(s), 0) # {}
      <4>1. PICK j \in OwnSlotsFrom(Me(s), 0) : StartWait(s, j)
        BY <1>4, <3>1 DEF Begin
      <4>2. slot' = [slot EXCEPT ![s] = j] /\ Slots[j] = Me(s)
        BY <4>1 DEF StartWait, OwnSlotsFrom
      <4>3. pc' = [pc EXCEPT ![s] = "waiting"]
        BY <1>4, <3>1 DEF Begin
      <4>4. CASE t = s
        BY <1>1, <2>1, <4>2, <4>3, <4>4 DEF Onward, Running
      <4>5. CASE t # s
        <5>1. slot[t] \in Nat /\ slot'[t] = slot[t] /\ pc'[t] = pc[t]
          BY <1>1, <4>2, <4>3, <4>5
        <5> QED
          BY <5>1 DEF Onward, OnceInv
      <4> QED
        BY <4>4, <4>5
    <3>2. CASE OwnSlotsFrom(Me(s), 0) = {}
      <4>1. pc' = [pc EXCEPT ![s] = "done"] /\ slot' = slot
        BY <1>4, <3>2 DEF Begin, sessionVars
      <4>2. slot[t] \in Nat
        BY SlotFacts
      <4> QED
        BY <1>1, <2>1, <4>1, <4>2 DEF Onward, OnceInv, Running
    <3> QED
      BY <3>1, <3>2
  <2> QED
    BY <2>1, <2>2, OnwardKeeps
<1>5. CASE PollReady(s)
  BY <1>2, <1>5 DEF PollReady, Running
<1>6. CASE Acquire(s)
  BY <1>2, <1>6 DEF Acquire, Running, sessionVars
<1>7. CASE Elapse(s)
  BY <1>2, <1>7 DEF Elapse, Running
<1>8. CASE PollAgain(s) \/ WaitTimeout(s) \/ HistoryError(s)
  <2>1. pc[s] \in Running /\ (Leave(s) \/ UNCHANGED pc) /\ UNCHANGED <<chat, slot>>
    BY <1>8 DEF PollAgain, WaitTimeout, HistoryError, Running, sessionVars
  <2> QED
    BY <1>2, <2>1 DEF Leave
<1>9. CASE PostSlot(s)
  BY <1>9, SlotPostKeeps
<1>10. CASE SkipSlot(s)
  <2>1. pc[s] \in Running /\ NextSlot(s, slot[s] + 1) /\ UNCHANGED chat
    BY <1>10 DEF SkipSlot, Running
  <2> QED
    BY <2>1, NextSlotOnward, OnwardKeeps
<1> QED
  BY <1>3, <1>4, <1>5, <1>6, <1>7, <1>8, <1>9, <1>10 DEF SessionStep

\* Nor does an event loop, the human or a crash.
LEMMA BotOnce ==
  ASSUME TypeOK, OnceInv, NEW b \in Bot, LoopStep(b) \/ Ping(b) \/ Crash(b)
  PROVE  OnceInv'
<1>1. CASE PostReply(b)
  <2>1. PICK to \in Bot \cup {NoBot} : Post(b, to, -1, answering[b], 0)
    BY <1>1, MayMentionType DEF PostReply
  <2> DEFINE m == [from |-> b, to |-> to, slot |-> -1, re |-> answering[b],
                   n |-> NextRunCount, heard |-> 0]
  <2>2. m \in Message /\ m.slot = -1
    <3>1. NextRunCount \in Int /\ answering[b] \in Int
      BY DEF NextRunCount, TypeOK
    <3> QED
      BY <3>1 DEF Message
  <2>3. chat' = Append(chat, m)
    BY <2>1 DEF Post
  <2>4. UNCHANGED <<pc, slot>>
    BY <1>1 DEF PostReply, sessionVars
  <2> QED
    BY <2>2, <2>3, <2>4, FollowupKeeps
<1>2. CASE Crash(b)
  <2>1. /\ pc \in [Session -> Running \cup {"idle", "spawned", "done"}]
        /\ pc' = [s \in Session |-> IF Me(s) = b /\ pc[s] # "idle" THEN "done" ELSE pc[s]]
        /\ UNCHANGED <<chat, slot>>
    BY <1>2 DEF Crash, sessionVars, TypeOK
  <2>2. ASSUME NEW t \in Session PROVE Onward(t)
    <3>1. slot[t] \in Nat
      BY SlotFacts
    <3> QED
      BY <2>1, <3>1 DEF Onward, OnceInv, Running
  <2> QED
    BY <2>1, <2>2, OnwardKeeps
<1>3. CASE ~PostReply(b) /\ ~Crash(b)
  <2>1. UNCHANGED <<chat, pc, slot>>
    BY <1>3 DEF LoopStep, HandleMention, RunCountError, LoopAcquire, SkipReply, Ping, sessionVars
  <2> QED
    BY <2>1 DEF OnceInv, OncePerSlot
<1> QED
  BY <1>1, <1>2, <1>3

\* No slot is posted twice, with any hand-offs, human mentions, degraded starts,
\* mixed summons, skipped posts and crashes, as long as a bot has one session.
THEOREM NoSlotTwice == ASSUME OneSessionEach PROVE Spec => []OncePerSlot
<1>1. Init => OnceInv
  <2> SUFFICES ASSUME Init PROVE OnceInv
    OBVIOUS
  <2>1. DOMAIN chat = {}
    BY DEF Init
  <2> QED
    BY <2>1 DEF Init, OnceInv, OncePerSlot, Running
<1>2. TypeOK /\ OnceInv /\ [Next]_vars => OnceInv'
  <2> SUFFICES ASSUME TypeOK, OnceInv, [Next]_vars PROVE OnceInv'
    OBVIOUS
  <2>1. CASE UNCHANGED vars
    BY <2>1 DEF OnceInv, OncePerSlot, vars, sessionVars
  <2> QED
    BY <2>1, SessionOnce, BotOnce DEF Next
<1>3. OnceInv => OncePerSlot
  BY DEF OnceInv
<1> QED
  BY <1>1, <1>2, <1>3, TypeCorrect, PTL DEF Spec

-----------------------------------------------------------------------------
(***************************************************************************)
(* A run can not keep itself alive.                                        *)
(***************************************************************************)
\* In the channel h message m has no answer yet; and it is for bot b.
Unanswered(h, m) == m \in DOMAIN h /\ \A i \in DOMAIN h : h[i].re # m

OpenTo(h, m, b) == Unanswered(h, m) /\ h[m].to = b

BelowCap(h, m) == RunMax > 0 => h[m].n < RunMax

\* The strengthening of FollowupsBounded: an answer is to a message below the
\* cap, no message has two answers, and while its event waits in the inbox of
\* the bot it mentions, or that bot's loop answers it, it has none.
RunInv ==
  /\ lastHuman <= Len(chat)
  /\ \A i \in DOMAIN chat :
       /\ chat[i].n >= 1
       /\ chat[i].re > 0 => chat[i].re \in DOMAIN chat /\ BelowCap(chat, chat[i].re)
  /\ \A i, j \in DOMAIN chat : chat[i].re > 0 /\ chat[i].re = chat[j].re => i = j
  /\ \A b \in Bot : \A e \in inbox[b] :
       /\ e.kind = "message"
       /\ e.re > 0 => /\ OpenTo(chat, e.re, b)
                      /\ ~(loop[b] # "idle" /\ answering[b] = e.re)
  /\ \A b \in Bot : loop[b] # "idle" /\ answering[b] > 0 =>
       OpenTo(chat, answering[b], b) /\ BelowCap(chat, answering[b])

\* A step that posts nothing and only lets go of events and answers, or hears
\* of a human's message, keeps the strengthening.
LEMMA QuietRun ==
  ASSUME TypeOK, RunInv, chat' = chat, lastHuman' = lastHuman \/ lastHuman' = Len(chat),
         \A c \in Bot : \A e \in inbox'[c] :
           e \in inbox[c] \/ (e.kind = "message" /\ ~(e.re > 0)),
         \A c \in Bot : loop'[c] # "idle" => loop[c] # "idle" /\ answering'[c] = answering[c]
  PROVE  RunInv'
<1>1. lastHuman' <= Len(chat)
  <2>1. Len(chat) \in Nat
    BY DEF TypeOK
  <2> QED
    BY <2>1 DEF RunInv
<1> QED
  BY <1>1 DEF RunInv

\* The only event of a message is the message event of the bot it mentions.
LEMMA EventOfPost ==
  ASSUME ~AppMention, NEW i, NEW e \in EventsOf(i)
  PROVE  e.re = i /\ e.kind = "message"
  BY DEF EventsOf

\* A post keeps it: the new message is unanswered, and if it is an answer then
\* its question is below the cap and nobody else has it.
LEMMA PostRun ==
  ASSUME ~AppMention, TypeOK, RunInv,
         NEW b \in Bot, NEW to \in Bot \cup {NoBot}, NEW k \in SlotIndex \cup {-1},
         NEW re \in Int, NEW ctx \in Nat, Post(b, to, k, re, ctx),
         lastHuman' = lastHuman,
         re > 0 => Unanswered(chat, re) /\ BelowCap(chat, re),
         re > 0 => \A c \in Bot : \A e \in inbox[c] : e.re # re,
         \A c \in Bot : loop'[c] # "idle" =>
           /\ loop[c] # "idle" /\ answering'[c] = answering[c]
           /\ re > 0 => answering[c] # re
  PROVE  RunInv'
<1>1. PICK m : m = [from |-> b, to |-> to, slot |-> k, re |-> re, n |-> NextRunCount,
                    heard |-> ctx]
  OBVIOUS
<1>2. PICK new : new = Len(chat) + 1
  OBVIOUS
<1>3. /\ chat \in Seq(Message) /\ Len(chat) \in Nat /\ lastHuman \in Nat
      /\ chat' = Append(chat, m) /\ inbox \in [Bot -> SUBSET Event]
  BY <1>1 DEF TypeOK, Post
<1>4. /\ DOMAIN chat = 1 .. Len(chat) /\ DOMAIN chat' = 1 .. new
      /\ \A i \in DOMAIN chat : chat'[i] = chat[i]
      /\ chat'[new] = m /\ Len(chat') = new
  BY <1>2, <1>3
<1>5. lastHuman <= Len(chat)
  BY DEF RunInv
<1>6. m.n >= 1 /\ m.re = re /\ m.to = to
  BY <1>1, <1>3, <1>5 DEF NextRunCount
<1>7. \A i : i \in DOMAIN chat' <=> i \in DOMAIN chat \/ i = new
  BY <1>2, <1>3, <1>4
<1>8. new \notin DOMAIN chat /\ new > 0
  BY <1>2, <1>3
<1>9. lastHuman' <= Len(chat')
  BY <1>2, <1>3, <1>4, <1>5
<1>10. \A x \in DOMAIN chat : BelowCap(chat, x) => BelowCap(chat', x)
  BY <1>4 DEF BelowCap
<1>11. \A x, c : x # re /\ OpenTo(chat, x, c) => OpenTo(chat', x, c)
  BY <1>4, <1>6, <1>7 DEF OpenTo, Unanswered
<1>12. OpenTo(chat', new, to)
  <2>1. \A i \in DOMAIN chat : chat[i].re # new
    BY <1>8 DEF RunInv
  <2>2. re # new
    BY <1>8 DEF Unanswered
  <2> QED
    BY <1>4, <1>6, <1>7, <1>8, <2>1, <2>2 DEF OpenTo, Unanswered
<1>13. ASSUME NEW i \in DOMAIN chat'
       PROVE  /\ chat'[i].n >= 1
              /\ chat'[i].re > 0 =>
                   chat'[i].re \in DOMAIN chat' /\ BelowCap(chat', chat'[i].re)
  <2>1. CASE i \in DOMAIN chat
    <3>1. chat'[i] = chat[i] /\ chat[i].n >= 1
      BY <1>4, <2>1 DEF RunInv
    <3>2. chat[i].re > 0 => chat[i].re \in DOMAIN chat /\ BelowCap(chat, chat[i].re)
      BY <2>1 DEF RunInv
    <3> QED
      BY <1>7, <1>10, <3>1, <3>2
  <2>2. CASE i = new
    <3>1. re > 0 => re \in DOMAIN chat /\ BelowCap(chat, re)
      BY DEF Unanswered
    <3> QED
      BY <1>4, <1>6, <1>7, <1>10, <2>2, <3>1
  <2> QED
    BY <1>7, <2>1, <2>2
<1>14. ASSUME NEW i \in DOMAIN chat', NEW j \in DOMAIN chat',
              chat'[i].re > 0, chat'[i].re = chat'[j].re
       PROVE  i = j
  BY <1>4, <1>6, <1>7, <1>14 DEF RunInv, Unanswered
<1>15. ASSUME NEW c \in Bot, NEW e \in inbox'[c]
       PROVE  /\ e.kind = "message"
              /\ e.re > 0 => /\ OpenTo(chat', e.re, c)
                             /\ ~(loop'[c] # "idle" /\ answering'[c] = e.re)
  <2>1. CASE e \in inbox[c]
    <3>1. /\ e.kind = "message"
          /\ e.re > 0 => OpenTo(chat, e.re, c) /\ ~(loop[c] # "idle" /\ answering[c] = e.re)
      BY <2>1 DEF RunInv
    <3>2. e.re > 0 => e.re # re
      BY <2>1
    <3> QED
      BY <1>11, <3>1, <3>2
  <2>2. CASE e \notin inbox[c]
    <3>1. c = to /\ e \in EventsOf(new)
      BY <1>2, <2>2 DEF Post
    <3>2. e.re = new /\ e.kind = "message"
      BY <3>1, EventOfPost
    <3>3. ~(loop'[c] # "idle" /\ answering'[c] = new)
      <4>1. loop[c] # "idle" /\ answering[c] > 0 => answering[c] \in DOMAIN chat
        BY DEF RunInv, OpenTo, Unanswered
      <4> QED
        BY <1>8, <4>1
    <3> QED
      BY <1>12, <3>1, <3>2, <3>3
  <2> QED
    BY <2>1, <2>2
<1>16. ASSUME NEW c \in Bot, loop'[c] # "idle", answering'[c] > 0
       PROVE  OpenTo(chat', answering'[c], c) /\ BelowCap(chat', answering'[c])
  <2>1. PICK x : x = answering[c]
    OBVIOUS
  <2>2. /\ answering'[c] = x /\ x > 0 /\ OpenTo(chat, x, c) /\ BelowCap(chat, x)
        /\ re > 0 => x # re
    BY <1>16, <2>1 DEF RunInv
  <2>3. x # re
    BY <2>2
  <2>4. x \in DOMAIN chat
    BY <2>2 DEF OpenTo, Unanswered
  <2> QED
    BY <1>10, <1>11, <2>2, <2>3, <2>4
<1> QED
  BY <1>9, <1>13, <1>14, <1>15, <1>16 DEF RunInv

\* What a message of the channel holds.
LEMMA MessageFields ==
  ASSUME TypeOK, NEW i \in DOMAIN chat
  PROVE  chat[i].n \in Int /\ chat[i].re \in Int
<1>1. chat \in Seq(Message)
  BY DEF TypeOK
<1>2. chat[i] \in Message
  BY <1>1
<1> QED
  BY <1>2 DEF Message

\* A session's steps keep the strengthening: its posts answer no message.
LEMMA SessionRun ==
  ASSUME ~AppMention, TypeOK, RunInv, NEW s \in Session, SessionStep(s)
  PROVE  RunInv'
<1>1. CASE PostSlot(s)
  <2>1. Me(s) \in Bot /\ slot[s] \in SlotIndex /\ heard[s] \in Nat
    BY StaticFacts, SlotFacts
  <2>2. PICK to \in Bot \cup {NoBot} : Post(Me(s), to, slot[s], 0, heard[s])
    BY <1>1, <2>1, MayMentionType DEF PostSlot
  <2>3. UNCHANGED <<lastHuman, loop, answering>>
    BY <1>1 DEF PostSlot
  <2>4. ~(0 > 0)
    OBVIOUS
  <2> QED
    BY <2>1, <2>2, <2>3, <2>4, PostRun
<1>2. CASE ~PostSlot(s)
  <2>1. UNCHANGED <<chat, lastHuman, inbox, loop, answering>>
    BY <1>2 DEF SessionStep, Receive, Begin, PollReady, PollAgain, WaitTimeout,
       HistoryError, Elapse, Acquire, SkipSlot, loopVars
  <2> QED
    BY <2>1, QuietRun
<1> QED
  BY <1>1, <1>2

\* The event loop's steps keep it: a mention is taken out of the inbox before
\* it is answered, and only below the cap.
LEMMA BotRun ==
  ASSUME ~AppMention, TypeOK, RunInv, NEW b \in Bot, LoopStep(b) \/ Ping(b) \/ Crash(b)
  PROVE  RunInv'
<1>0. /\ inbox \in [Bot -> SUBSET Event] /\ answering \in [Bot -> Int]
      /\ loop \in [Bot -> {"idle", "locking", "replying"}]
  BY DEF TypeOK
<1>1. CASE HandleMention(b)
  <2>1. PICK e \in inbox[b] :
          /\ inbox' = [inbox EXCEPT ![b] = @ \ {e}]
          /\ IF Ignored(b, e)
             THEN UNCHANGED <<loop, answering>>
             ELSE /\ loop' = [loop EXCEPT ![b] = "locking"]
                  /\ answering' = [answering EXCEPT ![b] = e.re]
    BY <1>1 DEF HandleMention
  <2>2. chat' = chat /\ lastHuman' = lastHuman
    BY <1>1 DEF HandleMention
  <2>3. \A c \in Bot : inbox'[c] \subseteq inbox[c]
    BY <1>0, <2>1
  <2>4. CASE Ignored(b, e)
    BY <2>1, <2>2, <2>3, <2>4, QuietRun
  <2>5. CASE ~Ignored(b, e)
    <3>1. loop' = [loop EXCEPT ![b] = "locking"] /\ answering' = [answering EXCEPT ![b] = e.re]
      BY <2>1, <2>5
    <3>2. e.kind = "message" /\ e.re \in Int /\ (e.re > 0 => OpenTo(chat, e.re, b))
      BY <1>0, <2>1 DEF RunInv, Event
    <3>3. e.re > 0 => BelowCap(chat, e.re)
      <4>1. ASSUME e.re > 0, RunMax > 0 PROVE chat[e.re].n < RunMax
        <5>1. e.re \in DOMAIN chat
          BY <3>2, <4>1 DEF OpenTo, Unanswered
        <5>2. chat[e.re].n \in Int
          BY <5>1, MessageFields
        <5>3. ~(chat[e.re].n >= RunMax)
          BY <2>5, <3>2, <4>1 DEF Ignored
        <5> QED
          BY <5>2, <5>3
      <4> QED
        BY <4>1 DEF BelowCap
    <3>4. ASSUME NEW c \in Bot, NEW d \in inbox'[c]
          PROVE  /\ d.kind = "message"
                 /\ d.re > 0 => /\ OpenTo(chat, d.re, c)
                                /\ ~(loop'[c] # "idle" /\ answering'[c] = d.re)
      <4>1. /\ d \in inbox[c] /\ d.kind = "message" /\ d \in Event
            /\ d.re > 0 => /\ OpenTo(chat, d.re, c)
                           /\ ~(loop[c] # "idle" /\ answering[c] = d.re)
        BY <1>0, <2>3 DEF RunInv
      <4>2. CASE c = b
        <5>1. d # e /\ e \in Event
          BY <1>0, <2>1, <4>2
        <5>2. d.re # e.re
          BY <3>2, <4>1, <5>1 DEF Event
        <5> QED
          BY <1>0, <3>1, <4>1, <4>2, <5>2
      <4>3. CASE c # b
        BY <1>0, <3>1, <4>1, <4>3
      <4> QED
        BY <4>2, <4>3
    <3>5. ASSUME NEW c \in Bot, loop'[c] # "idle", answering'[c] > 0
          PROVE  OpenTo(chat, answering'[c], c) /\ BelowCap(chat, answering'[c])
      <4>1. CASE c = b
        BY <1>0, <3>1, <3>2, <3>3, <3>5, <4>1
      <4>2. CASE c # b
        BY <1>0, <3>1, <3>5, <4>2 DEF RunInv
      <4> QED
        BY <4>1, <4>2
    <3> QED
      BY <2>2, <3>4, <3>5 DEF RunInv
  <2> QED
    BY <2>4, <2>5
<1>2. CASE RunCountError(b)
  <2>1. \A c \in Bot : inbox'[c] \subseteq inbox[c]
    BY <1>0, <1>2 DEF RunCountError
  <2> QED
    BY <1>2, <2>1, QuietRun DEF RunCountError
<1>3. CASE LoopAcquire(b)
  <2>1. \A c \in Bot : loop'[c] # "idle" => loop[c] # "idle"
    BY <1>0, <1>3 DEF LoopAcquire
  <2> QED
    BY <1>3, <2>1, QuietRun DEF LoopAcquire
<1>4. CASE PostReply(b)
  <2>1. PICK to \in Bot \cup {NoBot} : Post(b, to, -1, answering[b], 0)
    BY <1>4, MayMentionType DEF PostReply
  <2>2. /\ lastHuman' = lastHuman /\ answering' = answering
        /\ loop[b] # "idle" /\ loop' = [loop EXCEPT ![b] = "idle"]
    BY <1>4 DEF PostReply
  <2>3. PICK re \in Int : re = answering[b]
    BY <1>0
  <2>4. re > 0 => OpenTo(chat, re, b) /\ BelowCap(chat, re)
    BY <2>2, <2>3 DEF RunInv
  <2>5. ASSUME re > 0, NEW c \in Bot, NEW e \in inbox[c] PROVE e.re # re
    <3> SUFFICES ASSUME e.re = re PROVE FALSE
      OBVIOUS
    <3>1. OpenTo(chat, re, c) /\ ~(loop[c] # "idle" /\ answering[c] = re)
      BY <2>5 DEF RunInv
    <3>2. c = b
      BY <2>4, <2>5, <3>1 DEF OpenTo
    <3> QED
      BY <2>2, <2>3, <3>1, <3>2
  <2>6. ASSUME NEW c \in Bot, loop'[c] # "idle"
        PROVE  /\ loop[c] # "idle" /\ answering'[c] = answering[c]
               /\ re > 0 => answering[c] # re
    <3>1. c # b /\ loop[c] # "idle"
      BY <1>0, <2>2, <2>6
    <3>2. ASSUME re > 0, answering[c] = re PROVE FALSE
      <4>1. OpenTo(chat, re, c)
        BY <3>1, <3>2 DEF RunInv
      <4> QED
        BY <2>4, <3>1, <3>2, <4>1 DEF OpenTo
    <3> QED
      BY <2>2, <3>1, <3>2
  <2>7. re > 0 => Unanswered(chat, re)
    BY <2>4 DEF OpenTo
  <2>8. Post(b, to, -1, re, 0) /\ -1 \in SlotIndex \cup {-1} /\ 0 \in Nat
    BY <2>1, <2>3
  <2> QED
    BY <2>2, <2>4, <2>5, <2>6, <2>7, <2>8, PostRun
<1>5. CASE SkipReply(b)
  <2>1. \A c \in Bot : loop'[c] # "idle" => loop[c] # "idle"
    BY <1>0, <1>5 DEF SkipReply
  <2> QED
    BY <1>5, <2>1, QuietRun DEF SkipReply
<1>6. CASE Ping(b)
  <2>1. ASSUME NEW c \in Bot, NEW e \in inbox'[c]
        PROVE  e \in inbox[c] \/ (e.kind = "message" /\ ~(e.re > 0))
    <3>1. e \in inbox[c] \/ e \in EventsOf(-1)
      BY <1>0, <1>6 DEF Ping
    <3>2. e \in EventsOf(-1) => e.re = -1 /\ e.kind = "message"
      BY EventOfPost
    <3> QED
      BY <3>1, <3>2
  <2> QED
    BY <1>6, <2>1, QuietRun DEF Ping
<1>7. CASE Crash(b)
  <2>1. \A c \in Bot : loop'[c] # "idle" => loop[c] # "idle"
    BY <1>0, <1>7 DEF Crash
  <2> QED
    BY <1>7, <2>1, QuietRun DEF Crash
<1> QED
  BY <1>1, <1>2, <1>3, <1>4, <1>5, <1>6, <1>7 DEF LoopStep

\* The answered messages of one run have different numbers below the cap.
LEMMA RunsBounded == TypeOK /\ RunInv => FollowupsBounded
<1> SUFFICES ASSUME TypeOK, RunInv, RunMax > 0, NEW r \in 0 .. Len(chat)
             PROVE  Cardinality({i \in DOMAIN chat :
                                   chat[i].re > 0 /\ RunOf(chat[i].re) = r}) < RunMax
  BY DEF FollowupsBounded
<1> DEFINE S == {i \in DOMAIN chat : chat[i].re > 0 /\ RunOf(chat[i].re) = r}
           f == [i \in S |-> chat[chat[i].re].n]
<1>1. RunMax - 1 \in Nat /\ RunMax \in Nat
  OBVIOUS
<1>2. IsFiniteSet(1 .. RunMax - 1) /\ Cardinality(1 .. RunMax - 1) = RunMax - 1
  BY <1>1, UpTo
<1>3. ASSUME NEW i \in S
      PROVE  /\ chat[i].re \in Int /\ chat[i].re > 0
             /\ chat[chat[i].re].n \in 1 .. RunMax - 1
             /\ chat[i].re - chat[chat[i].re].n = r
  <2>1. /\ i \in DOMAIN chat /\ chat[i].re > 0 /\ chat[i].re \in DOMAIN chat
        /\ chat[chat[i].re].n < RunMax
    BY <1>1 DEF RunInv, BelowCap
  <2>2. chat[i].re \in Int /\ chat[chat[i].re].n \in Int
    BY <2>1, MessageFields
  <2>4. chat[chat[i].re].n >= 1
    BY <2>1 DEF RunInv
  <2>3. chat[i].re - chat[chat[i].re].n = r
    BY DEF RunOf
  <2> QED
    BY <1>1, <2>1, <2>2, <2>3, <2>4
<1>4. f \in [S -> 1 .. RunMax - 1]
  <2>1. \A i \in S : f[i] \in 1 .. RunMax - 1
    BY <1>3
  <2>2. f = [i \in S |-> f[i]]
    OBVIOUS
  <2> QED
    BY <2>1, <2>2, Zenon
<1>5. ASSUME NEW i \in S, NEW j \in S, f[i] = f[j] PROVE i = j
  <2>1. chat[i].re = chat[j].re
    BY <1>3, <1>5
  <2>2. i \in DOMAIN chat /\ j \in DOMAIN chat /\ chat[i].re > 0
    OBVIOUS
  <2> QED
    BY <2>1, <2>2 DEF RunInv
<1> HIDE DEF f
<1>6. Cardinality(S) \in Nat /\ Cardinality(S) <= Cardinality(1 .. RunMax - 1)
  BY <1>2, <1>4, <1>5, Into
<1> HIDE DEF S
<1>7. Cardinality(S) < RunMax
  BY <1>1, <1>2, <1>6
<1> QED
  BY <1>7 DEF S

\* However the bots mention each other, fewer than RunMax messages of a run are
\* ever answered, in a squad of any size, with any faults.  It needs that a
\* mention arrives as one event: where the app also delivers app_mention, which
\* knows no cap, the statement is false.
THEOREM RunsEnd == ASSUME ~AppMention PROVE Spec => []FollowupsBounded
<1>1. Init => RunInv
  <2> SUFFICES ASSUME Init PROVE RunInv
    OBVIOUS
  <2>1. /\ DOMAIN chat = {} /\ Len(chat) = 0 /\ lastHuman = 0
        /\ \A b \in Bot : inbox[b] = {} /\ loop[b] = "idle"
    BY DEF Init
  <2> QED
    BY <2>1 DEF RunInv
<1>2. TypeOK /\ RunInv /\ [Next]_vars => RunInv'
  <2> SUFFICES ASSUME TypeOK, RunInv, [Next]_vars PROVE RunInv'
    OBVIOUS
  <2>1. CASE UNCHANGED vars
    BY <2>1, QuietRun DEF vars, loopVars
  <2> QED
    BY <2>1, SessionRun, BotRun DEF Next
<1> QED
  BY <1>1, <1>2, RunsBounded, TypeCorrect, PTL DEF Spec
=============================================================================
