-------------------------- MODULE JoanneEmailProofs --------------------------
(***************************************************************************)
(* The mail tool for every configuration of the router, any number of      *)
(* messages and any faults: what is canceled stays unsent, mails leave     *)
(* from the active task thread and once per answer, and drafts do not get  *)
(* lost.                                                                   *)
(***************************************************************************)
EXTENDS JoanneEmail, Counting, SequenceTheorems

USE EmailAssumption

Word == [kind : {"request", "confirm", "cancel"}, at : Place, saw : SUBSET Nat]
Draft == [of : Nat, at : Place, st : {"writing", "stored", "shown", "ended"}]
Mail == [draft : Nat, by : Nat]

\* What the requester wrote, and what the pod knows about it.
TalkTypes ==
  /\ said \in Seq(Word) /\ Len(said) <= MaxMessages
  /\ inbox \in Seq(DOMAIN said)
  /\ session \in Place /\ consumed \subseteq DOMAIN said

\* The drafts and where they are.
DraftTypes ==
  /\ drafts \in Seq(Draft) /\ \A d \in DOMAIN drafts : drafts[d].of \in DOMAIN said
  /\ pending \in [Place -> 0 .. Len(drafts)]
  /\ \A t \in Place : pending[t] # 0 => drafts[pending[t]].at = t
  /\ canceled \subseteq DOMAIN drafts

\* The mails on their way and those that left.
MailTypes ==
  /\ busy \in Mail /\ (busy # Idle => busy.draft \in DOMAIN drafts /\ busy.by \in DOMAIN said)
  /\ sent \in Seq(Mail) /\ \A i \in DOMAIN sent : sent[i].draft \in DOMAIN drafts

RestTypes == lost \in Nat /\ faults \in Nat /\ setup \in Setups

\* A draft that is pending or canceled has been written, and not both; under
\* enforcement no other thread than that of the draft on its way has the session.
Final ==
  /\ \A t \in Place : pending[t] # 0 => /\ pending[t] \notin canceled
                                        /\ drafts[pending[t]].st # "writing"
  /\ \A d \in canceled : drafts[d].st # "writing"
InThread ==
  Mode = "enforce" /\ busy # Idle => session \in {0, drafts[busy.draft].at}

MailInv == TalkTypes /\ DraftTypes /\ MailTypes /\ RestTypes /\ Final /\ InThread
-----------------------------------------------------------------------------
(***************************************************************************)
(* Helpers.                                                                *)
(***************************************************************************)
LEMMA Setups1 ==
  ASSUME setup \in Setups
  PROVE  setup.messages \in 0 .. MaxMessages
  BY DEF Setup

\* A fault is counted.
LEMMA FaultCounts ==
  ASSUME faults \in Nat, NEW kind, Fault(kind)
  PROVE  faults' \in Nat /\ faults' # faults
  BY DEF Fault

\* The message at the head of the inbox.
LEMMA HeadType ==
  ASSUME TalkTypes, NEW kind, Take(kind)
  PROVE  /\ Head(inbox) \in DOMAIN said /\ Head(inbox) \in Place
         /\ said[Head(inbox)].at \in Place /\ inbox' \in Seq(DOMAIN said)
<1>1. inbox # <<>> /\ inbox' = Tail(inbox)
  BY DEF Take
<1>2. Head(inbox) \in DOMAIN said /\ inbox' \in Seq(DOMAIN said)
  BY <1>1 DEF TalkTypes
<1>3. DOMAIN said = 1 .. Len(said) /\ Len(said) \in Nat
  BY DEF TalkTypes
<1>4. said[Head(inbox)] \in Word
  BY <1>2 DEF TalkTypes
<1>5. Head(inbox) \in Place
  BY <1>2, <1>3 DEF TalkTypes, Place
<1>6. said[Head(inbox)].at \in Place
  BY <1>4 DEF Word
<1> QED
  BY <1>2, <1>5, <1>6

\* Whatever the router decides about the message at the head.
LEMMA Routed ==
  ASSUME TalkTypes, NEW kind, Take(kind), UNCHANGED said,
         \/ Consume(Head(inbox), said[Head(inbox)].at)
         \/ Execute(said[Head(inbox)].at)
  PROVE  TalkTypes'
<1>1. session' \in Place /\ consumed' \subseteq DOMAIN said
  BY HeadType DEF Consume, Execute, TalkTypes
<1> QED
  BY <1>1, HeadType DEF TalkTypes

\* A confirmation that is executed under enforcement belongs to the session.
LEMMA Confirmed ==
  ASSUME NEW t \in Place, session \in Place, Execute(t), Mode = "enforce"
  PROVE  session' = t
  BY DEF Execute, OffThread
-----------------------------------------------------------------------------
(***************************************************************************)
(* Every step keeps the invariant.                                         *)
(***************************************************************************)
LEMMA SayKeeps ==
  ASSUME MailInv, NEW kind \in {"request", "confirm", "cancel"}, NEW t \in Place, Say(kind, t)
  PROVE  MailInv'
<1> USE DEF MailInv
<1> DEFINE word == [kind |-> kind, at |-> t,
                    saw |-> {d \in DOMAIN drafts : drafts[d].at = t /\ drafts[d].st = "shown"}]
<1>1. word \in Word
  <2>1. DOMAIN drafts \subseteq Nat
    BY DEF DraftTypes
  <2> QED
    BY <2>1 DEF Word
<1>2. said' = Append(said, word) /\ Len(said) < setup.messages
  BY DEF Say
<1> HIDE DEF word
<1>3. /\ said' \in Seq(Word) /\ Len(said') = Len(said) + 1 /\ Len(said) \in Nat
      /\ DOMAIN said = 1 .. Len(said) /\ DOMAIN said' = 1 .. Len(said) + 1
      /\ \A i \in DOMAIN said : said'[i] = said[i]
  BY <1>1, <1>2 DEF TalkTypes
<1>4. Len(said') <= MaxMessages
  BY <1>2, <1>3, Setups1 DEF RestTypes
<1>5. DOMAIN said \subseteq DOMAIN said' /\ Len(said) + 1 \in DOMAIN said'
  BY <1>3
<1>6. inbox' \in Seq(DOMAIN said')
  <2>1. inbox \in Seq(DOMAIN said')
    BY <1>5 DEF TalkTypes
  <2>2. \/ inbox' = Append(inbox, Len(said) + 1)
        \/ inbox' = inbox \o <<Len(said) + 1, Len(said) + 1>>
    BY DEF Say
  <2> DEFINE n == Len(said) + 1
             S == DOMAIN said'
  <2>3. n \in S /\ inbox \in Seq(S)
    BY <1>5, <2>1
  <2> HIDE DEF n, S
  <2>4. Append(inbox, n) \in Seq(S) /\ inbox \o <<n, n>> \in Seq(S)
    BY <2>3
  <2> QED
    BY <2>2, <2>4 DEF n, S
<1>7. TalkTypes'
  BY <1>3, <1>4, <1>5, <1>6 DEF TalkTypes, Say
<1>8. UNCHANGED <<session, drafts, pending, canceled, busy, sent, lost, faults, setup>>
  BY DEF Say
<1>9. DraftTypes' /\ MailTypes'
  BY <1>5, <1>8 DEF DraftTypes, MailTypes
<1> QED
  BY <1>7, <1>8, <1>9 DEF RestTypes, Final, InThread, Mode

\* The message at the head starts a drafting goroutine.
Starts ==
  /\ \E kind : Take(kind)
  /\ Execute(said[Head(inbox)].at) /\ Begin(Head(inbox), said[Head(inbox)].at)
  /\ faults' \in Nat
  /\ UNCHANGED <<setup, said, pending, busy, sent, canceled, lost>>

\* A message starts a goroutine or leaves the drafts as they are.
LEMMA Heard ==
  ASSUME faults \in Nat, HandleRequest \/ HandleCancel \/ HandleConfirm
  PROVE  Starts \/ (UNCHANGED <<setup, said, drafts, sent, lost>> /\ faults' \in Nat)
<1> DEFINE m == Head(inbox)
           t == said[m].at
<1>1. CASE HandleRequest
  BY <1>1 DEF HandleRequest, Starts
<1>2. ASSUME NothingPending(m, t)
      PROVE  ((Execute(t) /\ Begin(m, t)) \/ UNCHANGED drafts) /\ faults' \in Nat
  BY <1>2, FaultCounts DEF NothingPending
<1>3. CASE HandleCancel
  BY <1>2, <1>3 DEF HandleCancel, Starts
<1>4. CASE HandleConfirm
  BY <1>2, <1>4 DEF HandleConfirm, Starts
<1> QED
  BY <1>1, <1>3, <1>4

\* One more draft that is being written disturbs nothing.
LEMMA StartKeeps ==
  ASSUME MailInv, Starts
  PROVE  MailInv'
<1> USE DEF MailInv
<1> DEFINE m == Head(inbox)
           draft == [of |-> m, at |-> said[m].at, st |-> "writing"]
<1>1. UNCHANGED <<said, pending, canceled, busy, sent, lost, setup>> /\ faults' \in Nat
  BY DEF Starts
<1>2. PICK kind : Take(kind)
  BY DEF Starts
<1>3. TalkTypes'
  BY <1>1, <1>2, Routed DEF Starts
<1>4. draft \in Draft /\ draft.of \in DOMAIN said
  <2>1. m \in DOMAIN said /\ said[m].at \in Place /\ m \in Nat
    BY <1>2, HeadType DEF Place
  <2> QED
    BY <2>1 DEF Draft
<1>5. drafts' = Append(drafts, draft)
  BY DEF Starts, Begin
<1> HIDE DEF draft
<1>6. /\ drafts' \in Seq(Draft) /\ Len(drafts) \in Nat /\ Len(drafts') = Len(drafts) + 1
      /\ DOMAIN drafts = 1 .. Len(drafts) /\ DOMAIN drafts' = 1 .. Len(drafts) + 1
      /\ \A d \in DOMAIN drafts : drafts'[d] = drafts[d]
      /\ drafts'[Len(drafts) + 1] = draft
  BY <1>4, <1>5 DEF DraftTypes
<1>7. DOMAIN drafts \subseteq DOMAIN drafts' /\ 0 .. Len(drafts) \subseteq 0 .. Len(drafts')
  BY <1>6
<1>8. \A d \in DOMAIN drafts' : drafts'[d].of \in DOMAIN said'
  <2> TAKE d \in DOMAIN drafts'
  <2>1. CASE d \in DOMAIN drafts
    BY <1>1, <1>6, <2>1 DEF DraftTypes
  <2>2. CASE d = Len(drafts) + 1
    BY <1>1, <1>4, <1>6, <2>2
  <2> QED
    BY <1>6, <2>1, <2>2
<1>9. \A t \in Place : pending[t] # 0 => pending[t] \in DOMAIN drafts
  BY <1>6 DEF DraftTypes
<1>10. DraftTypes'
  <2>1. pending' \in [Place -> 0 .. Len(drafts')]
    BY <1>1, <1>7 DEF DraftTypes
  <2>2. \A t \in Place : pending'[t] # 0 => drafts'[pending'[t]].at = t
    BY <1>1, <1>6, <1>9 DEF DraftTypes
  <2>3. canceled' \subseteq DOMAIN drafts'
    BY <1>1, <1>7 DEF DraftTypes
  <2> QED
    BY <1>6, <1>8, <2>1, <2>2, <2>3 DEF DraftTypes
<1>11. MailTypes'
  BY <1>1, <1>7 DEF MailTypes
<1>12. Final'
  BY <1>1, <1>6, <1>9 DEF Final, DraftTypes
<1>13. InThread'
  BY <1>1, <1>2 DEF InThread, Take
<1> QED
  BY <1>1, <1>3, <1>10, <1>11, <1>12, <1>13 DEF RestTypes

\* A request starts a goroutine or is consumed.
LEMMA RequestKeeps ==
  ASSUME MailInv, HandleRequest
  PROVE  MailInv'
<1> USE DEF MailInv
<1>1. /\ Starts \/ UNCHANGED drafts
      /\ busy = Idle /\ UNCHANGED <<said, pending, canceled, busy, sent, lost, faults, setup>>
  BY Heard DEF HandleRequest, Take, RestTypes
<1>2. TalkTypes'
  BY Routed DEF HandleRequest
<1>3. CASE UNCHANGED drafts
  BY <1>1, <1>2, <1>3 DEF DraftTypes, MailTypes, RestTypes, Final, InThread
<1> QED
  BY <1>1, <1>3, StartKeeps

\* A cancellation ends the draft of its thread and records that it was canceled.
LEMMA CancelKeeps ==
  ASSUME MailInv, HandleCancel
  PROVE  MailInv'
<1> USE DEF MailInv
<1> DEFINE t == said[Head(inbox)].at
<1>1. CASE Starts
  BY <1>1, StartKeeps
<1>2. CASE ~Starts
  <2>1. busy = Idle /\ faults' \in Nat /\ UNCHANGED <<said, drafts, busy, sent, lost, setup>>
    BY <1>2, Heard DEF HandleCancel, Take, RestTypes
  <2>2. TalkTypes'
    BY Routed DEF HandleCancel, NothingPending
  <2>3. MailTypes' /\ RestTypes' /\ InThread'
    BY <2>1 DEF MailTypes, RestTypes, InThread
  <2>4. CASE UNCHANGED <<pending, canceled>>
    BY <2>1, <2>2, <2>3, <2>4 DEF DraftTypes, Final
  <2>5. CASE /\ canceled' = canceled \cup {pending[t]} /\ pending[t] # 0
             /\ pending' = [pending EXCEPT ![t] = 0]
    <3>1. t \in Place
      BY HeadType DEF HandleCancel
    <3> HIDE DEF t
    <3>2. 0 \in 0 .. Len(drafts) /\ DOMAIN drafts = 1 .. Len(drafts)
      BY DEF DraftTypes
    <3>3. DraftTypes'
      BY <2>1, <2>5, <3>1, <3>2 DEF DraftTypes
    <3>4. Final'
      <4>1. \A d \in canceled' : drafts'[d].st # "writing"
        BY <2>1, <2>5, <3>1 DEF Final
      <4>2. ASSUME NEW u \in Place, pending'[u] # 0
            PROVE  pending'[u] \notin canceled' /\ drafts'[pending'[u]].st # "writing"
        <5>1. u # t /\ pending'[u] = pending[u]
          BY <2>5, <3>1, <4>2 DEF DraftTypes
        <5>2. pending[u] # pending[t]
          BY <3>1, <4>2, <5>1 DEF DraftTypes
        <5> QED
          BY <2>1, <2>5, <4>2, <5>1, <5>2 DEF Final
      <4> QED
        BY <4>1, <4>2 DEF Final
    <3> QED
      BY <2>2, <2>3, <3>3, <3>4
  <2> QED
    BY <2>4, <2>5 DEF HandleCancel
<1> QED
  BY <1>1, <1>2

\* A confirmation takes the draft of its thread, in the task's thread.
LEMMA ConfirmKeeps ==
  ASSUME MailInv, HandleConfirm
  PROVE  MailInv'
<1> USE DEF MailInv
<1> DEFINE m == Head(inbox)
           t == said[m].at
<1>1. CASE Starts
  BY <1>1, StartKeeps
<1>2. CASE ~Starts
  <2>1. /\ busy = Idle /\ faults' \in Nat
        /\ UNCHANGED <<said, drafts, pending, sent, canceled, lost, setup>>
    BY <1>2, Heard DEF HandleConfirm, Take, RestTypes
  <2>2. TalkTypes'
    BY Routed DEF HandleConfirm, NothingPending
  <2>3. DraftTypes' /\ RestTypes' /\ Final'
    BY <2>1 DEF DraftTypes, RestTypes, Final
  <2>4. CASE UNCHANGED busy
    BY <2>1, <2>2, <2>3, <2>4 DEF MailTypes, InThread
  <2>5. CASE Execute(t) /\ pending[t] # 0 /\ busy' = [draft |-> pending[t], by |-> m]
    <3>1. m \in DOMAIN said /\ m \in Nat /\ t \in Place
      BY HeadType DEF HandleConfirm, Place
    <3>2. Mode = "enforce" => session' = t
      BY <2>5, <3>1, Confirmed DEF TalkTypes
    <3> HIDE DEF m, t
    <3>3. pending[t] \in DOMAIN drafts /\ pending[t] \in Nat /\ drafts[pending[t]].at = t
      BY <2>5, <3>1 DEF DraftTypes
    <3>4. busy' \in Mail /\ busy'.draft \in DOMAIN drafts /\ busy'.by \in DOMAIN said
      BY <2>5, <3>1, <3>3 DEF Mail
    <3>5. MailTypes'
      BY <2>1, <3>4 DEF MailTypes
    <3>6. InThread'
      BY <2>1, <2>5, <3>2, <3>3 DEF InThread, Mode
    <3> QED
      BY <2>2, <2>3, <3>5, <3>6
  <2> QED
    BY <2>4, <2>5 DEF HandleConfirm
<1> QED
  BY <1>1, <1>2

\* The draft at the head of the mailer leaves, or Gmail's answer is lost.
LEMMA Mailed ==
  ASSUME MailTypes, busy # Idle, sent' = Append(sent, busy), UNCHANGED drafts, busy' = Idle
  PROVE  MailTypes' /\ InThread'
<1>1. /\ sent' \in Seq(Mail) /\ DOMAIN sent' = 1 .. Len(sent) + 1
      /\ DOMAIN sent = 1 .. Len(sent) /\ Len(sent) \in Nat
      /\ \A i \in DOMAIN sent : sent'[i] = sent[i]
      /\ sent'[Len(sent) + 1] = busy
  BY DEF MailTypes
<1>2. Idle \in Mail
  BY DEF Idle, Mail
<1>3. \A i \in DOMAIN sent' : i \in DOMAIN sent \/ sent'[i] = busy
  BY <1>1
<1>4. MailTypes'
  BY <1>1, <1>2, <1>3 DEF MailTypes
<1>5. InThread'
  BY DEF InThread
<1> QED
  BY <1>4, <1>5

\* Gmail's answer ends the sending.
LEMMA SendKeeps ==
  ASSUME MailInv, SendSucceeds \/ SendFails
  PROVE  MailInv'
<1> USE DEF MailInv
<1>1. busy # Idle /\ busy' = Idle
      /\ UNCHANGED <<said, inbox, session, drafts, canceled, consumed, setup>>
  BY DEF SendSucceeds, SendFails
<1>2. TalkTypes'
  BY <1>1 DEF TalkTypes
<1>3. CASE SendSucceeds
  <2>1. said[busy.by].at \in Place
    <3>1. busy.by \in DOMAIN said
      BY <1>1 DEF MailTypes
    <3>2. said[busy.by] \in Word
      BY <3>1 DEF TalkTypes
    <3> QED
      BY <3>2 DEF Word
  <2>2. pending' = [pending EXCEPT ![said[busy.by].at] = 0]
    BY <1>3 DEF SendSucceeds, ClearPending
  <2>3. MailTypes' /\ InThread'
    BY <1>1, <1>3, Mailed DEF SendSucceeds
  <2>4. 0 \in 0 .. Len(drafts)
    BY DEF DraftTypes
  <2>5. \A t \in Place : pending'[t] # 0 => pending'[t] = pending[t]
    BY <2>1, <2>2 DEF DraftTypes
  <2>6. DraftTypes'
    BY <1>1, <2>1, <2>2, <2>4, <2>5 DEF DraftTypes
  <2>7. Final'
    BY <1>1, <2>5 DEF Final
  <2> QED
    BY <1>2, <1>3, <2>3, <2>6, <2>7 DEF RestTypes, SendSucceeds
<1>4. CASE SendFails
  <2>1. UNCHANGED pending /\ faults' \in Nat /\ lost' \in Nat
    BY <1>4, FaultCounts DEF SendFails, RestTypes
  <2>2. ASSUME sent' = sent PROVE MailTypes' /\ InThread'
    BY <1>1, <2>2 DEF MailTypes, InThread, Mode, Idle, Mail
  <2>3. ASSUME sent' = Append(sent, busy) PROVE MailTypes' /\ InThread'
    BY <1>1, <2>3, Mailed
  <2>4. MailTypes' /\ InThread'
    BY <1>4, <2>2, <2>3 DEF SendFails
  <2> QED
    BY <1>1, <1>2, <2>1, <2>4 DEF DraftTypes, RestTypes, Final
<1> QED
  BY <1>3, <1>4

\* A goroutine's step changes how far its draft is, and may make it pending.
LEMMA Progress ==
  ASSUME MailInv, NEW d \in DOMAIN drafts, NEW st \in {"stored", "shown", "ended"},
         drafts' = [drafts EXCEPT ![d].st = st],
         \/ UNCHANGED pending
         \/ /\ drafts[d].st = "writing" /\ pending' = [pending EXCEPT ![drafts[d].at] = d],
         UNCHANGED <<said, inbox, session, consumed, busy, sent, canceled, lost, setup>>,
         faults' \in Nat
  PROVE  MailInv'
<1> USE DEF MailInv
<1>1. /\ drafts \in Seq(Draft) /\ DOMAIN drafts = 1 .. Len(drafts) /\ Len(drafts) \in Nat
      /\ drafts[d] \in Draft
  BY DEF DraftTypes
<1>2. [drafts[d] EXCEPT !.st = st] \in Draft
  BY <1>1 DEF Draft
<1>3. drafts' = [drafts EXCEPT ![d] = [drafts[d] EXCEPT !.st = st]]
  OBVIOUS
<1>4. drafts' \in Seq(Draft) /\ DOMAIN drafts' = DOMAIN drafts /\ Len(drafts') = Len(drafts)
  BY <1>1, <1>2, <1>3
<1>5. \A e \in DOMAIN drafts : /\ drafts'[e].at = drafts[e].at /\ drafts'[e].of = drafts[e].of
                               /\ drafts[e].st # "writing" => drafts'[e].st # "writing"
  BY <1>1, <1>3 DEF Draft
<1>6. drafts'[d].st # "writing" /\ drafts[d].at \in Place /\ d \in 0 .. Len(drafts)
  BY <1>1, <1>3 DEF Draft
<1>7. \A t \in Place :
        \/ pending'[t] = pending[t]
        \/ t = drafts[d].at /\ pending'[t] = d /\ drafts[d].st = "writing"
  BY <1>6 DEF DraftTypes
<1>8. \A t \in Place : pending[t] # 0 => pending[t] \in DOMAIN drafts
  BY <1>1 DEF DraftTypes
<1>9. TalkTypes'
  BY DEF TalkTypes
<1>10. DraftTypes'
  <2>1. pending' \in [Place -> 0 .. Len(drafts)]
    BY <1>6 DEF DraftTypes
  <2>2. \A t \in Place : pending'[t] # 0 => drafts'[pending'[t]].at = t
    BY <1>5, <1>7, <1>8 DEF DraftTypes
  <2> QED
    BY <1>4, <1>5, <2>1, <2>2 DEF DraftTypes
<1>11. MailTypes'
  BY <1>4 DEF MailTypes
<1>12. Final'
  <2>1. \A e \in canceled : e \in DOMAIN drafts /\ drafts[e].st # "writing"
    BY DEF Final, DraftTypes
  <2> QED
    BY <1>5, <1>6, <1>7, <1>8, <2>1 DEF Final
<1>13. InThread'
  BY <1>5 DEF InThread, Mode, MailTypes
<1> QED
  BY <1>9, <1>10, <1>11, <1>12, <1>13 DEF RestTypes

\* A drafting goroutine moves its own draft on.
LEMMA DraftingKeeps ==
  ASSUME MailInv, NEW d \in DOMAIN drafts, Drafting(d)
  PROVE  MailInv'
<1>1. faults \in Nat
  BY DEF MailInv, RestTypes
<1>2. CASE DraftEnds(d)
  BY <1>1, <1>2, Progress DEF DraftEnds
<1>3. CASE DraftStored(d)
  BY <1>1, <1>3, Progress DEF DraftStored
<1>4. CASE Prompt(d)
  <2>1. faults' \in Nat
    BY <1>1, <1>4, FaultCounts DEF Prompt
  <2> QED
    BY <1>4, <2>1, Progress DEF Prompt
<1> QED
  BY <1>2, <1>3, <1>4 DEF Drafting

\* What expires is gone.
LEMMA ExpireKeeps ==
  ASSUME MailInv, SessionExpires \/ \E t \in Place : DraftExpires(t)
  PROVE  MailInv'
<1> USE DEF MailInv
<1>1. RestTypes'
  BY FaultCounts DEF RestTypes, SessionExpires, DraftExpires
<1>2. CASE SessionExpires
  <2>1. /\ UNCHANGED <<said, inbox, consumed>> /\ session' = 0
        /\ UNCHANGED <<setup, drafts, pending, busy, sent, canceled>>
    BY <1>2 DEF SessionExpires
  <2>2. TalkTypes'
    BY <2>1 DEF TalkTypes, Place
  <2>3. DraftTypes' /\ MailTypes' /\ Final'
    BY <2>1 DEF DraftTypes, MailTypes, Final
  <2>4. InThread'
    BY <2>1 DEF InThread, Mode
  <2> QED
    BY <1>1, <2>2, <2>3, <2>4
<1>3. ASSUME NEW t \in Place, DraftExpires(t) PROVE MailInv'
  <2>1. /\ pending' = [pending EXCEPT ![t] = 0]
        /\ UNCHANGED <<setup, said, inbox, session, drafts, busy, sent, canceled, consumed>>
    BY <1>3 DEF DraftExpires
  <2>2. 0 \in 0 .. Len(drafts)
    BY DEF DraftTypes
  <2>3. DraftTypes' /\ Final'
    BY <2>1, <2>2 DEF DraftTypes, Final
  <2> QED
    BY <1>1, <2>1, <2>3 DEF TalkTypes, MailTypes, InThread, Mode
<1> QED
  BY <1>2, <1>3

\* A crash empties the memory, and what was sent or canceled stays so.
LEMMA CrashKeeps ==
  ASSUME MailInv, Crash
  PROVE  MailInv'
<1> USE DEF MailInv
<1>1. RestTypes' /\ TalkTypes'
  BY FaultCounts DEF RestTypes, TalkTypes, Crash, Place
<1>2. /\ drafts \in Seq(Draft) /\ DOMAIN drafts = 1 .. Len(drafts) /\ Len(drafts) \in Nat
      /\ \A d \in DOMAIN drafts : drafts[d] \in Draft
  BY DEF DraftTypes
<1>3. drafts' = [d \in 1 .. Len(drafts) |->
        IF drafts[d].st = "shown" THEN drafts[d] ELSE [drafts[d] EXCEPT !.st = "ended"]]
  BY <1>2 DEF Crash
<1>4. \A d \in DOMAIN drafts : /\ drafts'[d] \in Draft /\ drafts'[d].at = drafts[d].at
                               /\ drafts'[d].of = drafts[d].of
                               /\ drafts'[d].st # "writing"
  BY <1>2, <1>3 DEF Draft
<1>5. drafts' \in Seq(Draft) /\ DOMAIN drafts' = DOMAIN drafts /\ Len(drafts') = Len(drafts)
  BY <1>2, <1>3, <1>4
<1>6. pending' = [t \in Place |-> 0] /\ busy' = Idle /\ UNCHANGED <<setup, said, canceled>>
      /\ (sent' = sent \/ (busy # Idle /\ sent' = Append(sent, busy)))
  BY DEF Crash
<1>7. DraftTypes'
  BY <1>2, <1>4, <1>5, <1>6 DEF DraftTypes
<1>8. Final'
  BY <1>4, <1>6 DEF Final, DraftTypes
<1>9. sent' \in Seq(Mail) /\ \A i \in DOMAIN sent' :
        \/ i \in DOMAIN sent /\ sent'[i] = sent[i]
        \/ busy # Idle /\ sent'[i] = busy
  <2>1. sent \in Seq(Mail) /\ busy \in Mail
    BY DEF MailTypes
  <2>2. CASE sent' = sent
    BY <2>1, <2>2
  <2>3. CASE busy # Idle /\ sent' = Append(sent, busy)
    BY <2>1, <2>3
  <2> QED
    BY <1>6, <2>2, <2>3
<1>10. MailTypes'
  BY <1>5, <1>6, <1>9 DEF MailTypes, Idle, Mail
<1>11. InThread'
  BY <1>6 DEF InThread
<1> QED
  BY <1>1, <1>7, <1>8, <1>10, <1>11
-----------------------------------------------------------------------------
(***************************************************************************)
(* The theorems.                                                           *)
(***************************************************************************)
LEMMA InitInv == Init => MailInv
<1> SUFFICES ASSUME Init PROVE MailInv
  OBVIOUS
<1>1. DOMAIN drafts = {} /\ DOMAIN said = {} /\ DOMAIN sent = {}
      /\ Len(drafts) = 0 /\ Len(said) = 0
  BY DEF Init
<1>2. TalkTypes /\ RestTypes
  BY <1>1 DEF Init, TalkTypes, RestTypes, Place
<1>3. DraftTypes /\ Final
  BY <1>1 DEF Init, DraftTypes, Final
<1>4. MailTypes /\ InThread
  BY <1>1 DEF Init, MailTypes, InThread, Idle, Mail
<1> QED
  BY <1>2, <1>3, <1>4 DEF MailInv

\* Every step keeps the invariant.
LEMMA NextInv == MailInv /\ [Next]_vars => MailInv'
<1> SUFFICES ASSUME MailInv, [Next]_vars PROVE MailInv'
  OBVIOUS
<1>1. CASE UNCHANGED vars
  BY <1>1 DEF vars, MailInv, TalkTypes, DraftTypes, MailTypes, RestTypes, Final, InThread, Mode
<1>2. CASE Next
  BY <1>2, SayKeeps, RequestKeeps, CancelKeeps, ConfirmKeeps, SendKeeps, DraftingKeeps,
     ExpireKeeps, CrashKeeps DEF Next, EventLoop
<1> QED
  BY <1>1, <1>2

\* So it always holds.
LEMMA InvHolds == Spec => []MailInv
  BY InitInv, NextInv, PTL DEF Spec

\* The variables of the mail tool keep their types; in particular a pending
\* draft exists and sits in the thread it was requested in, whatever the
\* goroutines and the event loop do.
THEOREM MailTypesHold == Spec => []TypeOK
<1>1. MailInv => TypeOK
  <2> SUFFICES ASSUME MailInv PROVE TypeOK
    OBVIOUS
  <2>1. drafts \in Seq([of : DOMAIN said, at : Place,
                        st : {"writing", "stored", "shown", "ended"}])
    <3> DEFINE Typed == [of : DOMAIN said, at : Place,
                         st : {"writing", "stored", "shown", "ended"}]
    <3>1. /\ drafts \in Seq(Draft) /\ \A d \in DOMAIN drafts : drafts[d] \in Draft
          /\ \A d \in DOMAIN drafts : drafts[d].of \in DOMAIN said
      BY DEF MailInv, DraftTypes
    <3>2. \A d \in DOMAIN drafts : drafts[d] \in Typed
      BY <3>1 DEF Draft
    <3> HIDE DEF Typed
    <3>3. drafts \in Seq(Typed)
      BY <3>1, <3>2
    <3> QED
      BY <3>3 DEF Typed
  <2> QED
    BY <2>1 DEF MailInv, TalkTypes, DraftTypes, MailTypes, RestTypes, Word, TypeOK
<1> QED
  BY <1>1, InvHolds, PTL

\* While a task session is active under enforcement, drafts start and mails leave
\* only in its thread: a confirmation that was let through holds on to the
\* session until Gmail has answered, unless the session expires or the pod dies.
THEOREM TaskKeepsThread == Spec => InTaskThread
<1>1. ASSUME MailInv, [Next]_vars, Mode = "enforce", session # 0
      PROVE  /\ \A d \in DOMAIN drafts' \ DOMAIN drafts : drafts'[d].at = session
             /\ \A i \in DOMAIN sent' \ DOMAIN sent : drafts[sent'[i].draft].at = session
  <2>1. ASSUME NEW d \in DOMAIN drafts' \ DOMAIN drafts PROVE drafts'[d].at = session
    <3>1. CASE Starts
      <4>1. PICK t : t = said[Head(inbox)].at
        OBVIOUS
      <4>2. t = session
        BY <1>1, <3>1, <4>1 DEF Starts, Execute, OffThread
      <4>3. PICK draft : drafts' = Append(drafts, draft) /\ draft.at = t
        BY <3>1, <4>1 DEF Starts, Begin
      <4>4. drafts'[d] = draft
        BY <1>1, <4>3 DEF MailInv, DraftTypes
      <4> QED
        BY <4>2, <4>3, <4>4
    <3>2. CASE ~Starts
      <4>1. DOMAIN drafts' = DOMAIN drafts
        BY <1>1, <3>2, Heard DEF MailInv, RestTypes, Next, vars, EventLoop, Drafting, Say,
           SendSucceeds, SendFails, DraftEnds, DraftStored, Prompt, SessionExpires,
           DraftExpires, Crash
      <4> QED
        BY <4>1
    <3> QED
      BY <3>1, <3>2
  <2>2. ASSUME NEW i \in DOMAIN sent' \ DOMAIN sent PROVE drafts[sent'[i].draft].at = session
    <3>1. busy # Idle /\ sent' = Append(sent, busy)
      BY <1>1, <2>2 DEF Next, vars, EventLoop, Drafting, Say, HandleRequest, HandleCancel,
         HandleConfirm, SendSucceeds, SendFails, DraftEnds, DraftStored, Prompt,
         SessionExpires, DraftExpires, Crash
    <3>2. sent'[i] = busy
      BY <1>1, <2>2, <3>1 DEF MailInv, MailTypes
    <3> QED
      BY <1>1, <3>1, <3>2 DEF MailInv, InThread
  <2> QED
    BY <2>1, <2>2
<1> QED
  BY <1>1, InvHolds, PTL DEF Spec, InTaskThread

\* A canceled draft never reaches Gmail again: it is not pending, and its
\* goroutine can not make it pending once more.
THEOREM CanceledForGood == Spec => CancelIsFinal
<1>1. MailInv /\ [Next]_vars => (busy' # busy => busy'.draft \notin canceled)
  <2> SUFFICES ASSUME MailInv, [Next]_vars, busy' # busy PROVE busy'.draft \notin canceled
    OBVIOUS
  <2>1. Idle.draft \notin canceled
    <3>1. 0 \notin DOMAIN drafts
      BY DEF MailInv, DraftTypes
    <3> QED
      BY <3>1 DEF Idle, MailInv, DraftTypes
  <2>2. busy' = Idle \/ HandleConfirm
    BY DEF Next, vars, EventLoop, Drafting, Say, HandleRequest, HandleCancel, SendSucceeds,
           SendFails, DraftEnds, DraftStored, Prompt, SessionExpires, DraftExpires, Crash
  <2>3. CASE HandleConfirm
    <3> DEFINE t == said[Head(inbox)].at
    <3>1. t \in Place
      BY <2>3, HeadType DEF HandleConfirm, MailInv
    <3>2. pending[t] # 0 /\ busy'.draft = pending[t]
      BY <2>3 DEF HandleConfirm
    <3> QED
      BY <3>1, <3>2 DEF MailInv, Final
  <2> QED
    BY <2>1, <2>2, <2>3
<1> QED
  BY <1>1, InvHolds, PTL DEF Spec, CancelIsFinal

\* A pending draft goes away by a send in its own thread, a cancellation or a
\* fault, and in no other way.
THEOREM NoDraftVanishes == Spec => DraftsStay
<1> DEFINE Stays(t) == pending[t] # 0 /\ pending'[t] = 0 =>
                         \/ busy # Idle /\ busy' = Idle /\ said[busy.by].at = t
                         \/ pending[t] \in canceled'
                         \/ faults' # faults
<1>1. MailInv /\ [Next]_vars => \A t \in Place : Stays(t)
  <2> SUFFICES ASSUME MailInv, [Next]_vars, NEW t \in Place,
                      pending[t] # 0, pending'[t] = 0
               PROVE  \/ busy # Idle /\ busy' = Idle /\ said[busy.by].at = t
                      \/ pending[t] \in canceled'
                      \/ faults' # faults
    OBVIOUS
  <2>1. pending \in [Place -> 0 .. Len(drafts)] /\ faults \in Nat
    BY DEF MailInv, DraftTypes, RestTypes
  <2>2. \/ HandleCancel \/ SendSucceeds \/ \E d \in DOMAIN drafts : DraftStored(d)
        \/ \E u \in Place : DraftExpires(u)
        \/ Crash
    BY DEF Next, vars, EventLoop, Drafting, Say, HandleRequest, HandleConfirm,
           SendFails, DraftEnds, Prompt, SessionExpires
  <2>3. CASE HandleCancel
    BY <2>1, <2>3 DEF HandleCancel
  <2>4. CASE SendSucceeds
    BY <2>1, <2>4 DEF SendSucceeds, ClearPending
  <2>5. ASSUME NEW d \in DOMAIN drafts, DraftStored(d) PROVE FALSE
    <3>1. d # 0 /\ pending' = [pending EXCEPT ![drafts[d].at] = d]
      BY <2>5 DEF DraftStored, MailInv, DraftTypes
    <3> QED
      BY <2>1, <3>1
  <2>6. CASE Crash \/ \E u \in Place : DraftExpires(u)
    BY <2>1, <2>6, FaultCounts DEF Crash, DraftExpires
  <2> QED
    BY <2>2, <2>3, <2>4, <2>5, <2>6
<1> QED
  BY <1>1, InvHolds, PTL DEF Spec, DraftsStay
-----------------------------------------------------------------------------
(***************************************************************************)
(* A draft goes out once, and once more for each answer of Gmail's that    *)
(* was lost.                                                               *)
(***************************************************************************)
\* A draft that can still be sent: being written, pending, or on its way.
InPlay(d) ==
  \/ drafts[d].st = "writing"
  \/ busy.draft = d
  \/ \E t \in Place : pending[t] = d

\* A draft leaves play with the first send whose answer arrives, and never comes
\* back: it is written once, and the send clears the thread it is pending in.
Played ==
  \A d \in DOMAIN drafts :
    Cardinality(Sends(d)) <= IF InPlay(d) THEN lost ELSE lost + 1

\* What Gmail is asked to send is a draft that is done, of the thread it is pending in.
Held ==
  busy # Idle => /\ drafts[busy.draft].at = said[busy.by].at
                 /\ drafts[busy.draft].st # "writing"

\* Drafts and messages keep their places, and no draft is written again.
LEMMA PlacesStay ==
  ASSUME MailInv, [Next]_vars
  PROVE  /\ \A d \in DOMAIN drafts :
              /\ d \in DOMAIN drafts' /\ drafts'[d].at = drafts[d].at
              /\ drafts'[d].st = "writing" => drafts[d].st = "writing"
         /\ \A m \in DOMAIN said : said'[m] = said[m]
<1>1. /\ drafts \in Seq(Draft) /\ DOMAIN drafts = 1 .. Len(drafts) /\ Len(drafts) \in Nat
      /\ \A d \in DOMAIN drafts : drafts[d] \in Draft
      /\ said \in Seq(Word)
  BY DEF MailInv, DraftTypes, TalkTypes
<1>2. CASE UNCHANGED <<drafts, said>>
  BY <1>2
<1>3. ASSUME NEW kind, NEW t, Say(kind, t)
      PROVE  UNCHANGED drafts /\ \A m \in DOMAIN said : said'[m] = said[m]
  <2>1. PICK word : said' = Append(said, word)
    BY <1>3 DEF Say
  <2>2. \A m \in DOMAIN said : Append(said, word)[m] = said[m]
    BY <1>1
  <2> QED
    BY <1>3, <2>1, <2>2 DEF Say
<1>4. CASE Starts
  <2>1. PICK draft : drafts' = Append(drafts, draft) /\ UNCHANGED said
    BY <1>4 DEF Starts, Begin
  <2>2. \A d \in DOMAIN drafts : /\ d \in DOMAIN Append(drafts, draft)
                                 /\ Append(drafts, draft)[d] = drafts[d]
    BY <1>1
  <2> QED
    BY <2>1, <2>2
<1>5. ASSUME NEW d \in DOMAIN drafts, Drafting(d)
      PROVE  /\ \A e \in DOMAIN drafts :
                  /\ e \in DOMAIN drafts' /\ drafts'[e].at = drafts[e].at
                  /\ drafts'[e].st = "writing" => drafts[e].st = "writing"
             /\ UNCHANGED said
  <2>1. PICK st \in {"stored", "shown", "ended"} :
          drafts' = [drafts EXCEPT ![d] = [drafts[d] EXCEPT !.st = st]] /\ UNCHANGED said
    BY <1>5 DEF Drafting, DraftEnds, DraftStored, Prompt
  <2> QED
    BY <1>1, <2>1 DEF Draft
<1>6. CASE Crash
  <2>1. drafts' = [d \in DOMAIN drafts |->
          IF drafts[d].st = "shown" THEN drafts[d] ELSE [drafts[d] EXCEPT !.st = "ended"]]
        /\ UNCHANGED said
    BY <1>6 DEF Crash
  <2> QED
    BY <1>1, <2>1 DEF Draft
<1>7. CASE HandleRequest \/ HandleCancel \/ HandleConfirm
  BY <1>2, <1>4, <1>7, Heard DEF MailInv, RestTypes
<1>8. CASE SendSucceeds \/ SendFails \/ SessionExpires \/ \E t \in Place : DraftExpires(t)
  BY <1>2, <1>8 DEF SendSucceeds, SendFails, SessionExpires, DraftExpires
<1>9. CASE UNCHANGED vars
  BY <1>2, <1>9 DEF vars
<1> QED
  BY <1>3, <1>5, <1>6, <1>7, <1>8, <1>9 DEF Next, EventLoop

\* The event loop holds a draft of the thread that confirmed it.
LEMMA HeldStep == MailInv /\ Held /\ [Next]_vars => Held'
<1> SUFFICES ASSUME MailInv, Held, [Next]_vars, busy' # Idle PROVE Held'
  BY DEF Held, Idle
<1>1. /\ \A d \in DOMAIN drafts :
           /\ drafts'[d].at = drafts[d].at
           /\ drafts'[d].st = "writing" => drafts[d].st = "writing"
      /\ \A m \in DOMAIN said : said'[m] = said[m]
  BY PlacesStay
<1>2. CASE UNCHANGED busy
  <2>1. busy.draft \in DOMAIN drafts /\ busy.by \in DOMAIN said
    BY <1>2 DEF MailInv, MailTypes
  <2> QED
    BY <1>1, <1>2, <2>1 DEF Held
<1>3. CASE HandleConfirm
  <2> DEFINE m == Head(inbox)
             t == said[m].at
  <2>1. t \in Place /\ m \in DOMAIN said
    BY <1>3, HeadType DEF HandleConfirm, MailInv
  <2>2. UNCHANGED busy \/ busy' = Idle
          \/ (pending[t] # 0 /\ busy' = [draft |-> pending[t], by |-> m])
    BY <1>3 DEF HandleConfirm
  <2>3. pending[t] # 0 => /\ pending[t] \in DOMAIN drafts /\ drafts[pending[t]].at = t
                          /\ drafts[pending[t]].st # "writing"
    BY <2>1 DEF MailInv, DraftTypes, Final
  <2> HIDE DEF m
  <2> QED
    BY <1>1, <1>2, <2>1, <2>2, <2>3 DEF Held
<1>4. busy' = busy \/ busy' = Idle \/ HandleConfirm
  BY DEF Next, vars, EventLoop, Drafting, Say, HandleRequest, HandleCancel, SendSucceeds,
         SendFails, DraftEnds, DraftStored, Prompt, SessionExpires, DraftExpires, Crash
<1> QED
  BY <1>2, <1>3, <1>4

\* How often a draft went out.
LEMMA Sendings ==
  ASSUME MailTypes, NEW d
  PROVE  /\ IsFiniteSet(Sends(d)) /\ Cardinality(Sends(d)) \in Nat
         /\ Sends(d) \subseteq 1 .. Len(sent) /\ Len(sent) \in Nat
         /\ d \notin DOMAIN drafts => Cardinality(Sends(d)) = 0
<1>1. DOMAIN sent = 1 .. Len(sent) /\ Len(sent) \in Nat
  BY DEF MailTypes
<1>2. Sends(d) \in SUBSET (1 .. Len(sent))
  BY <1>1 DEF Sends
<1>3. ASSUME d \notin DOMAIN drafts PROVE Cardinality(Sends(d)) = 0
  <2>1. Sends(d) = {}
    BY <1>3 DEF Sends, MailTypes
  <2> QED
    BY <2>1, FS_EmptySet, Zenon
<1> QED
  BY <1>1, <1>2, <1>3, SomeUpTo

\* A mail that leaves counts for its own draft.
LEMMA OneSent ==
  ASSUME MailTypes, sent' = Append(sent, busy), NEW d
  PROVE  /\ Cardinality(Sends(d))' \in Nat
         /\ Cardinality(Sends(d))' <= Cardinality(Sends(d)) + 1
         /\ d # busy.draft => Cardinality(Sends(d))' = Cardinality(Sends(d))
<1>1. /\ DOMAIN sent' = 1 .. Len(sent) + 1 /\ DOMAIN sent = 1 .. Len(sent) /\ Len(sent) \in Nat
      /\ \A i \in DOMAIN sent : sent'[i] = sent[i]
      /\ sent'[Len(sent) + 1] = busy
  BY DEF MailTypes
<1>2. \A i \in DOMAIN sent' : i \in DOMAIN sent \/ i = Len(sent) + 1
  BY <1>1
<1>3. \A i \in DOMAIN sent : i \in DOMAIN sent'
  BY <1>1
<1>4. Sends(d)' \in SUBSET (Sends(d) \cup {Len(sent) + 1})
  BY <1>1, <1>2 DEF Sends
<1>5. ASSUME d # busy.draft PROVE Sends(d)' = Sends(d)
  <2>1. Sends(d)' = {i \in DOMAIN sent' : sent'[i].draft = d}
    BY DEF Sends
  <2>2. Sends(d) = {i \in DOMAIN sent : sent[i].draft = d}
    BY DEF Sends
  <2> QED
    BY <1>1, <1>2, <1>3, <1>5, <2>1, <2>2
<1>6. IsFiniteSet(Sends(d))
  BY Sendings
<1>7. PICK now : now = Sends(d)'
  OBVIOUS
<1>8. Cardinality(now) \in Nat /\ Cardinality(now) <= Cardinality(Sends(d)) + 1
  BY <1>4, <1>6, <1>7, OneMore
<1> QED
  BY <1>5, <1>7, <1>8

\* Every step keeps answers spent.
LEMMA PlayedStep == MailInv /\ Held /\ Played /\ [Next]_vars => Played'
<1> SUFFICES ASSUME MailInv, Held, Played, [Next]_vars, NEW d \in DOMAIN drafts'
             PROVE  (Cardinality(Sends(d)) <= IF InPlay(d) THEN lost ELSE lost + 1)'
  BY DEF Played
<1>1. /\ MailTypes /\ DraftTypes /\ lost \in Nat /\ Cardinality(Sends(d)) \in Nat
      /\ drafts \in Seq(Draft) /\ DOMAIN drafts = 1 .. Len(drafts) /\ Len(drafts) \in Nat
      /\ d \notin DOMAIN drafts => Cardinality(Sends(d)) = 0
  BY Sendings DEF MailInv, DraftTypes, RestTypes
<1>2. d \in DOMAIN drafts =>
        /\ Cardinality(Sends(d)) <= IF InPlay(d) THEN lost ELSE lost + 1
        /\ drafts'[d].st = "writing" => drafts[d].st = "writing"
  BY PlacesStay DEF Played
<1>3. ASSUME UNCHANGED <<sent, lost>>, d \in DOMAIN drafts => (InPlay(d)' => InPlay(d))
      PROVE  (Cardinality(Sends(d)) <= IF InPlay(d) THEN lost ELSE lost + 1)'
  <2>1. Cardinality(Sends(d))' = Cardinality(Sends(d)) /\ lost' = lost
    BY <1>3 DEF Sends
  <2> QED
    BY <1>1, <1>2, <1>3, <2>1
<1>4. CASE UNCHANGED <<sent, lost, busy, pending>>
  BY <1>2, <1>3, <1>4 DEF InPlay
<1>5. ASSUME NEW t \in Place, pending' = [pending EXCEPT ![t] = 0], UNCHANGED <<sent, lost, busy>>
      PROVE  (Cardinality(Sends(d)) <= IF InPlay(d) THEN lost ELSE lost + 1)'
  <2>1. \A u \in Place : pending'[u] = 0 \/ pending'[u] = pending[u]
    BY <1>1, <1>5 DEF DraftTypes
  <2>2. d \in DOMAIN drafts => d # 0
    BY <1>1
  <2> QED
    BY <1>2, <1>3, <1>5, <2>1, <2>2 DEF InPlay
<1>6. CASE HandleCancel
  <2>1. said[Head(inbox)].at \in Place
    BY <1>6, HeadType DEF HandleCancel, MailInv
  <2>2. UNCHANGED <<sent, lost, busy>>
    BY <1>6 DEF HandleCancel
  <2> QED
    BY <1>4, <1>5, <1>6, <2>1, <2>2 DEF HandleCancel
<1>7. CASE HandleConfirm
  <2>1. said[Head(inbox)].at \in Place
    BY <1>7, HeadType DEF HandleConfirm, MailInv
  <2>2. UNCHANGED <<sent, lost, pending>>
    BY <1>7 DEF HandleConfirm
  <2>3. busy' = busy \/ busy'.draft = pending[said[Head(inbox)].at]
    BY <1>7 DEF HandleConfirm
  <2>4. d \in DOMAIN drafts => d # 0
    BY <1>1
  <2> QED
    BY <1>2, <1>3, <2>1, <2>2, <2>3, <2>4 DEF InPlay
<1>8. CASE SendSucceeds
  <2>1. /\ busy # Idle /\ sent' = Append(sent, busy) /\ UNCHANGED <<drafts, lost>>
        /\ busy' = Idle /\ pending' = [pending EXCEPT ![said[busy.by].at] = 0]
    BY <1>8 DEF SendSucceeds, ClearPending
  <2>2. d \in DOMAIN drafts /\ d # 0
    BY <1>1, <2>1
  <2>3. \A u \in Place : pending'[u] = 0 \/ pending'[u] = pending[u]
    BY <1>1, <2>1 DEF DraftTypes
  <2>4. CASE d # busy.draft
    <3>1. Cardinality(Sends(d))' = Cardinality(Sends(d))
      BY <1>1, <2>1, <2>4, OneSent
    <3>2. InPlay(d)' => InPlay(d)
      BY <2>1, <2>2, <2>3 DEF InPlay, Idle
    <3> QED
      BY <1>1, <1>2, <2>1, <2>2, <3>1, <3>2
  <2>5. CASE d = busy.draft
    <3>1. Cardinality(Sends(d))' \in Nat /\ Cardinality(Sends(d))' <= Cardinality(Sends(d)) + 1
      BY <1>1, <2>1, OneSent
    <3>2. Cardinality(Sends(d)) <= lost
      BY <1>2, <2>2, <2>5 DEF InPlay
    <3>3. drafts[d].at = said[busy.by].at /\ drafts[d].st # "writing"
      BY <2>1, <2>5 DEF Held
    <3>4. \A u \in Place : pending[u] = d => u = said[busy.by].at
      BY <1>1, <2>2, <3>3 DEF DraftTypes
    <3>5. ~InPlay(d)'
      <4>1. \A u \in Place : pending'[u] # d
        BY <1>1, <2>1, <2>2, <2>3, <3>4 DEF DraftTypes
      <4> QED
        BY <2>1, <2>2, <3>3, <4>1 DEF InPlay, Idle
    <3>6. Cardinality(Sends(d))' <= lost' + 1
      BY <1>1, <2>1, <3>1, <3>2
    <3> QED
      BY <3>5, <3>6
  <2> QED
    BY <2>4, <2>5
<1>9. CASE SendFails
  <2>1. /\ busy # Idle /\ busy' = Idle /\ UNCHANGED <<drafts, pending>>
        /\ UNCHANGED <<sent, lost>> \/ (sent' = Append(sent, busy) /\ lost' = lost + 1)
    BY <1>9 DEF SendFails
  <2>2. d \in DOMAIN drafts /\ d # 0
    BY <1>1, <2>1
  <2>3. InPlay(d)' => InPlay(d)
    BY <2>1, <2>2 DEF InPlay, Idle
  <2>4. CASE sent' = Append(sent, busy) /\ lost' = lost + 1
    <3>1. /\ Cardinality(Sends(d))' \in Nat /\ Cardinality(Sends(d))' <= Cardinality(Sends(d)) + 1
      BY <1>1, <2>4, OneSent
    <3> QED
      BY <1>1, <1>2, <2>2, <2>3, <2>4, <3>1
  <2> QED
    BY <1>3, <2>1, <2>3, <2>4
<1>10. ASSUME NEW e \in DOMAIN drafts, DraftStored(e)
       PROVE  (Cardinality(Sends(d)) <= IF InPlay(d) THEN lost ELSE lost + 1)'
  <2>1. /\ drafts[e].st = "writing" /\ pending' = [pending EXCEPT ![drafts[e].at] = e]
        /\ UNCHANGED <<sent, lost, busy>>
    BY <1>10 DEF DraftStored
  <2>2. \A u \in Place : pending'[u] = pending[u] \/ pending'[u] = e
    BY <1>1, <2>1 DEF DraftTypes
  <2>3. d \in DOMAIN drafts => (InPlay(d)' => InPlay(d))
    BY <1>2, <2>1, <2>2 DEF InPlay
  <2> QED
    BY <1>3, <2>1, <2>3
<1>11. CASE Crash
  <2>1. /\ busy' = Idle /\ pending' = [t \in Place |-> 0] /\ UNCHANGED lost
        /\ sent' = sent \/ (busy # Idle /\ sent' = Append(sent, busy))
        /\ DOMAIN drafts' = DOMAIN drafts
    BY <1>11 DEF Crash
  <2>2. d \in DOMAIN drafts /\ d # 0
    BY <1>1, <2>1
  <2>3. InPlay(d)' => InPlay(d)
    BY <1>2, <2>1, <2>2 DEF InPlay, Idle
  <2>4. CASE busy # Idle /\ sent' = Append(sent, busy)
    <3>1. CASE d # busy.draft
      <4>1. Cardinality(Sends(d))' = Cardinality(Sends(d))
        BY <1>1, <2>4, <3>1, OneSent
      <4> QED
        BY <1>1, <1>2, <2>1, <2>2, <2>3, <4>1
    <3>2. CASE d = busy.draft
      <4>1. /\ Cardinality(Sends(d))' \in Nat /\ Cardinality(Sends(d))' <= Cardinality(Sends(d)) + 1
        BY <1>1, <2>4, OneSent
      <4>2. Cardinality(Sends(d)) <= lost
        BY <1>2, <2>2, <3>2 DEF InPlay
      <4>3. ~InPlay(d)'
        <5>1. drafts'[d].st # "writing"
          BY <1>2, <2>2, <2>4, <3>2 DEF Held
        <5> QED
          BY <2>1, <2>2, <5>1 DEF InPlay, Idle
      <4>4. Cardinality(Sends(d))' <= lost' + 1
        BY <1>1, <2>1, <4>1, <4>2
      <4> QED
        BY <4>3, <4>4
    <3> QED
      BY <3>1, <3>2
  <2> QED
    BY <1>3, <2>1, <2>3, <2>4
<1>12. \/ UNCHANGED <<sent, lost, busy, pending>>
       \/ HandleCancel \/ HandleConfirm \/ SendSucceeds \/ SendFails
       \/ \E e \in DOMAIN drafts : DraftStored(e)
       \/ \E t \in Place : DraftExpires(t)
       \/ Crash
  BY DEF Next, vars, EventLoop, Drafting, Say, HandleRequest, DraftEnds, Prompt, SessionExpires
<1>13. ASSUME NEW t \in Place, DraftExpires(t)
       PROVE  (Cardinality(Sends(d)) <= IF InPlay(d) THEN lost ELSE lost + 1)'
  BY <1>5, <1>13 DEF DraftExpires
<1> QED
  BY <1>4, <1>6, <1>7, <1>8, <1>9, <1>10, <1>11, <1>12, <1>13

\* A retry never duplicates a mail by itself: a draft goes out a second time
\* only if Gmail's answer to an earlier send was lost, whatever repeated
\* confirmations, doubled events, new drafts and crashes happen.
THEOREM OnePerAnswer == Spec => []SentOncePerAnswer
<1>1. Init => Held /\ Played
  BY DEF Init, Held, Played
<1>2. MailInv /\ Played => SentOncePerAnswer
  <2> SUFFICES ASSUME MailInv, Played, NEW d \in DOMAIN drafts
               PROVE  Cardinality(Sends(d)) <= 1 + lost
    BY DEF SentOncePerAnswer
  <2>1. Cardinality(Sends(d)) \in Nat /\ lost \in Nat
    BY Sendings DEF MailInv, RestTypes
  <2>2. Cardinality(Sends(d)) <= IF InPlay(d) THEN lost ELSE lost + 1
    BY DEF Played
  <2> QED
    BY <2>1, <2>2
<1> QED
  BY <1>1, <1>2, InitInv, NextInv, HeldStep, PlayedStep, PTL DEF Spec
-----------------------------------------------------------------------------
(***************************************************************************)
(* Refinement of Outbox.                                                   *)
(***************************************************************************)
\* The outbox as the mail tool keeps it.
Fates == [d \in DOMAIN drafts |-> Fate(d)]
Out == [i \in DOMAIN sent |-> sent[i].draft]

\* Nothing is canceled while Gmail is asked to send it.
Uncanceled == busy # Idle => busy.draft \notin canceled

OutboxInv == MailInv /\ Held /\ Uncanceled

\* Cancellations are for good, and only reach drafts that are pending.
LEMMA CanceledStay ==
  ASSUME MailInv, [Next]_vars
  PROVE  /\ canceled \subseteq canceled'
         /\ canceled' = canceled
              \/ (busy = Idle /\ busy' = Idle
                  /\ \A d \in canceled' \ canceled : \E t \in Place : pending[t] = d /\ d # 0)
<1>1. CASE HandleCancel
  <2>1. said[Head(inbox)].at \in Place
    BY <1>1, HeadType DEF HandleCancel, MailInv
  <2> QED
    BY <1>1, <2>1 DEF HandleCancel, Take
<1>2. CASE ~HandleCancel
  BY <1>2 DEF Next, vars, EventLoop, Drafting, Say, HandleRequest, HandleConfirm, SendSucceeds,
         SendFails, DraftEnds, DraftStored, Prompt, SessionExpires, DraftExpires, Crash
<1> QED
  BY <1>1, <1>2

\* What the event loop takes was pending, and what becomes pending was written.
LEMMA TakenInTurn ==
  ASSUME MailInv, [Next]_vars
  PROVE  /\ busy' = busy \/ busy' = Idle \/ \E t \in Place : pending[t] # 0 /\ busy'.draft = pending[t]
         /\ \A t \in Place : \/ pending'[t] \in {0, pending[t]}
                             \/ /\ pending'[t] \in DOMAIN drafts
                                /\ drafts[pending'[t]].st = "writing"
<1>0. pending \in [Place -> 0 .. Len(drafts)]
  BY DEF MailInv, DraftTypes
<1>1. CASE HandleConfirm
  <2>1. said[Head(inbox)].at \in Place
    BY <1>1, HeadType DEF HandleConfirm, MailInv
  <2> QED
    BY <1>1, <2>1 DEF HandleConfirm
<1>2. CASE HandleCancel
  BY <1>0, <1>2 DEF HandleCancel
<1>3. CASE SendSucceeds
  BY <1>0, <1>3 DEF SendSucceeds, ClearPending
<1>4. ASSUME NEW d \in DOMAIN drafts, DraftStored(d)
      PROVE  /\ UNCHANGED busy
             /\ \A t \in Place : pending'[t] = pending[t]
                                   \/ (pending'[t] = d /\ drafts[d].st = "writing")
  BY <1>0, <1>4 DEF DraftStored
<1>5. CASE Crash \/ \E t \in Place : DraftExpires(t)
  BY <1>0, <1>5 DEF Crash, DraftExpires
<1>6. CASE UNCHANGED pending /\ (UNCHANGED busy \/ busy' = Idle)
  BY <1>6
<1>7. \/ HandleConfirm \/ HandleCancel \/ SendSucceeds \/ Crash
      \/ \E d \in DOMAIN drafts : DraftStored(d)
      \/ \E t \in Place : DraftExpires(t)
      \/ UNCHANGED pending /\ (UNCHANGED busy \/ busy' = Idle)
  BY DEF Next, vars, EventLoop, Drafting, Say, HandleRequest, SendFails, DraftEnds, Prompt,
         SessionExpires
<1> QED
  BY <1>1, <1>2, <1>3, <1>4, <1>5, <1>6, <1>7

\* A draft is canceled or waits only after it was written, and what the event
\* loop holds or a thread keeps is waiting.
LEMMA FateIs ==
  ASSUME MailInv, NEW d \in DOMAIN drafts
  PROVE  /\ Fate(d) \in {"writing", "waiting", "canceled", "done"}
         /\ Fate(d) = "canceled" <=> d \in canceled
         /\ Fate(d) = "writing" <=> drafts[d].st = "writing"
         /\ Fate(d) = "waiting" <=> /\ d \notin canceled /\ drafts[d].st # "writing"
                                    /\ busy.draft = d \/ pending[drafts[d].at] = d
<1>1. d \in canceled => drafts[d].st # "writing"
  BY DEF MailInv, Final
<1> QED
  BY <1>1 DEF Fate

\* While Gmail is asked, nobody cancels.
LEMMA UncanceledStep == MailInv /\ Uncanceled /\ [Next]_vars => Uncanceled'
<1> SUFFICES ASSUME MailInv, Uncanceled, [Next]_vars, busy' # Idle
             PROVE  busy'.draft \notin canceled'
  BY DEF Uncanceled, Idle
<1>1. canceled' = canceled
  BY CanceledStay
<1>2. \A t \in Place : pending[t] # 0 => pending[t] \notin canceled
  BY DEF MailInv, Final
<1> QED
  BY <1>1, <1>2, TakenInTurn DEF Uncanceled

LEMMA OutboxHolds == Spec => []OutboxInv
<1>1. Init => Held /\ Uncanceled
  BY DEF Init, Held, Uncanceled
<1> QED
  BY <1>1, InitInv, NextInv, HeldStep, UncanceledStep, PTL DEF Spec, OutboxInv

\* A draft that is in some thread is in its own.
LEMMA OwnThread ==
  ASSUME MailInv, NEW d \in DOMAIN drafts
  PROVE  /\ d # 0 /\ d # Idle.draft /\ drafts[d].at \in Place
         /\ \A t \in Place : pending[t] = d => t = drafts[d].at
<1>1. drafts \in Seq(Draft) /\ DOMAIN drafts = 1 .. Len(drafts) /\ drafts[d] \in Draft
  BY DEF MailInv, DraftTypes
<1> QED
  BY <1>1 DEF MailInv, DraftTypes, Draft, Idle

\* No step moves a draft but onwards.
LEMMA FateMoves ==
  ASSUME OutboxInv, OutboxInv', [Next]_vars, NEW d \in DOMAIN drafts
  PROVE  d \in DOMAIN drafts' /\ Fate(d)' \in Box!After[Fate(d)]
<1> USE DEF OutboxInv
<1>1. /\ d \in DOMAIN drafts' /\ drafts'[d].at = drafts[d].at
      /\ drafts'[d].st = "writing" => drafts[d].st = "writing"
  BY PlacesStay
<1>2. d # 0 /\ drafts[d].at \in Place /\ \A t \in Place : pending[t] = d => t = drafts[d].at
  BY OwnThread
<1>3. busy'.draft = d => busy.draft = d \/ pending[drafts[d].at] = d
  BY <1>2, TakenInTurn DEF Idle
<1>4. pending'[drafts[d].at] = d => pending[drafts[d].at] = d \/ drafts[d].st = "writing"
  BY <1>2, TakenInTurn
<1>5. d \in canceled => d \in canceled'
  BY CanceledStay
<1>6. d \in canceled' => d \in canceled \/ pending[drafts[d].at] = d
  BY <1>2, CanceledStay
<1>7. pending[drafts[d].at] = d => drafts[d].st # "writing"
  BY <1>2 DEF MailInv, Final
<1>8. /\ Fate(d) \in {"writing", "waiting", "canceled", "done"}
      /\ Fate(d) = "canceled" <=> d \in canceled
      /\ Fate(d) = "writing" <=> drafts[d].st = "writing"
      /\ Fate(d) = "waiting" <=> /\ d \notin canceled /\ drafts[d].st # "writing"
                                 /\ busy.draft = d \/ pending[drafts[d].at] = d
  BY FateIs
<1>9. /\ Fate(d)' \in {"writing", "waiting", "canceled", "done"}
      /\ Fate(d)' = "canceled" <=> d \in canceled'
      /\ Fate(d)' = "writing" => drafts'[d].st = "writing"
      /\ Fate(d)' = "waiting" => busy'.draft = d \/ pending'[drafts'[d].at] = d
  BY DEF Fate
<1>10. CASE Fate(d) = "writing"
  <2>1. Fate(d)' # "canceled"
    BY <1>6, <1>7, <1>8, <1>9, <1>10
  <2> QED
    BY <1>1, <1>9, <1>10, <2>1 DEF Box!After
<1>11. CASE Fate(d) = "waiting"
  <2>1. Fate(d)' # "writing"
    BY <1>1, <1>8, <1>9, <1>11
  <2> QED
    BY <1>1, <1>9, <1>11, <2>1 DEF Box!After
<1>12. CASE Fate(d) = "canceled"
  BY <1>1, <1>5, <1>8, <1>9, <1>12 DEF Box!After
<1>13. CASE Fate(d) = "done"
  <2>1. Fate(d)' = "done"
    BY <1>1, <1>3, <1>4, <1>6, <1>8, <1>9, <1>13
  <2> QED
    BY <1>1, <1>13, <2>1 DEF Box!After
<1> QED
  BY <1>8, <1>10, <1>11, <1>12, <1>13

\* A sequence is known by its length and its elements.
LEMMA AppendIs ==
  ASSUME NEW S, NEW s \in Seq(S), NEW t \in Seq(S), NEW x \in S, NEW n \in Nat,
         Len(s) = n, Len(t) = n + 1, t[n + 1] = x, \A i \in 1 .. n : t[i] = s[i]
  PROVE  t = Append(s, x)
<1>1. PICK u \in Seq(S) : /\ u = Append(s, x) /\ Len(u) = n + 1 /\ u[n + 1] = x
                          /\ \A i \in 1 .. n : u[i] = s[i]
  BY AppendProperties
<1>2. \A i \in 1 .. n + 1 : t[i] = u[i]
  BY <1>1
<1>3. t = u
  BY <1>1, <1>2, SeqEqual
<1> QED
  BY <1>1, <1>3

\* Unless a draft begins, all move on.
LEMMA AllOnward ==
  ASSUME OutboxInv, OutboxInv', [Next]_vars, DOMAIN drafts' = DOMAIN drafts
  PROVE  Box!Onward
<1>1. \A d \in DOMAIN drafts : Fate(d)' \in Box!After[Fate(d)]
  BY FateMoves
<1>2. DOMAIN Fates = DOMAIN drafts /\ DOMAIN Fates' = DOMAIN drafts
  BY DEF Fates
<1>3. \A d \in DOMAIN drafts : Fates[d] = Fate(d) /\ Fates'[d] = Fate(d)'
  BY DEF Fates
<1>4. \A d \in DOMAIN Fates : Fates'[d] \in Box!After[Fates[d]]
  BY <1>1, <1>2, <1>3
<1> QED
  BY <1>2, <1>4 DEF Box!Onward, Fates

\* One more draft begins, and the others are left alone.
LEMMA StartBegins ==
  ASSUME MailInv, Starts
  PROVE  Box!Begin
<1>1. /\ UNCHANGED <<pending, busy, canceled, sent, lost>>
      /\ \E draft : drafts' = Append(drafts, draft) /\ draft.st = "writing"
  BY DEF Starts, Begin
<1>2. PICK draft : drafts' = Append(drafts, draft) /\ draft.st = "writing"
  BY <1>1
<1>3. PICK n \in Nat : n = Len(drafts)
  BY DEF MailInv, DraftTypes
<1>4. /\ DOMAIN drafts = 1 .. n /\ DOMAIN drafts' = 1 .. n + 1
      /\ \A d \in 1 .. n : drafts'[d] = drafts[d]
      /\ drafts'[n + 1].st = "writing"
  BY <1>2, <1>3 DEF MailInv, DraftTypes
<1>5. n + 1 \notin canceled
  BY <1>3, <1>4 DEF MailInv, DraftTypes
<1>6. \A d \in 1 .. n : Fate(d)' = Fate(d)
  BY <1>1, <1>4 DEF Fate
<1>7. Fate(n + 1)' = "writing"
  BY <1>1, <1>4, <1>5 DEF Fate
<1>8. PICK old : old = Fates
  OBVIOUS
<1>9. old = [d \in 1 .. n |-> Fate(d)]
  BY <1>4, <1>8 DEF Fates
<1>10. old \in Seq({"writing", "waiting", "canceled", "done"}) /\ Len(old) = n
  <2>1. \A d \in 1 .. n : Fate(d) \in {"writing", "waiting", "canceled", "done"}
    BY <1>4, FateIs
  <2> QED
    BY <1>3, <1>9, <2>1
<1>11. PICK new : new = Fates'
  OBVIOUS
<1>12. new = [d \in 1 .. n + 1 |-> Fate(d)']
  BY <1>4, <1>11 DEF Fates
<1>13. /\ Len(new) = n + 1 /\ new[n + 1] = "writing" /\ \A d \in 1 .. n : new[d] = old[d]
  BY <1>3, <1>6, <1>7, <1>9, <1>12
<1>14. new = Append(old, "writing")
  <2>1. PICK Known : Known = {"writing", "waiting", "canceled", "done"}
    OBVIOUS
  <2>2. "writing" \in Known /\ old \in Seq(Known)
    BY <1>10, <2>1
  <2>3. new \in Seq(Known)
    <3>1. \A d \in 1 .. n + 1 : new[d] \in Known
      BY <1>3, <1>10, <1>13, <2>2
    <3> QED
      BY <1>3, <1>12, <3>1
  <2> QED
    BY <1>3, <1>10, <1>13, <2>2, <2>3, AppendIs
<1>15. Out' = Out
  BY <1>1 DEF Out
<1> QED
  BY <1>1, <1>8, <1>11, <1>14, <1>15 DEF Box!Begin, Fates, Out

\* A mail that leaves is one more draft in the abstract outbox.
LEMMA OutGrows ==
  ASSUME MailTypes, sent' = Append(sent, busy)
  PROVE  Out' = Append(Out, busy.draft)
<1>1. PICK n \in Nat : n = Len(sent)
  BY DEF MailTypes
<1>2. sent \in Seq(Mail) /\ busy \in Mail /\ \A i \in 1 .. n : sent[i] \in Mail
  BY <1>1 DEF MailTypes
<1>3. /\ DOMAIN sent = 1 .. n /\ DOMAIN sent' = 1 .. n + 1
      /\ \A i \in 1 .. n : sent'[i] = sent[i]
      /\ sent'[n + 1] = busy
  BY <1>1, <1>2
<1>4. PICK d \in Nat : d = busy.draft
  BY <1>2 DEF Mail
<1>5. PICK old : old = Out
  OBVIOUS
<1>6. PICK new : new = Out'
  OBVIOUS
<1>7. old = [i \in 1 .. n |-> sent[i].draft] /\ \A i \in 1 .. n : sent[i].draft \in Nat
  BY <1>2, <1>3, <1>5 DEF Out, Mail
<1>8. old \in Seq(Nat) /\ Len(old) = n
  BY <1>7
<1>9. new = [i \in 1 .. n + 1 |-> sent'[i].draft]
  BY <1>3, <1>6 DEF Out
<1>10. new \in Seq(Nat) /\ Len(new) = n + 1 /\ new[n + 1] = d
       /\ \A i \in 1 .. n : new[i] = old[i]
  <2>1. \A i \in 1 .. n + 1 : sent'[i].draft \in Nat
    BY <1>3, <1>4, <1>7
  <2> QED
    BY <1>3, <1>4, <1>7, <1>9, <2>1
<1>11. new = Append(old, d)
  BY <1>8, <1>10, AppendIs
<1> QED
  BY <1>4, <1>5, <1>6, <1>11

\* The draft on its way is waiting, and is done once Gmail's answer is in.
LEMMA MailLeaves ==
  ASSUME OutboxInv, OutboxInv', [Next]_vars, busy # Idle, busy' = Idle,
         sent' = Append(sent, busy), DOMAIN drafts' = DOMAIN drafts,
         \/ lost' = lost /\ pending'[drafts[busy.draft].at] = 0
         \/ lost' = lost + 1
  PROVE  \E d \in DOMAIN drafts : Box!Leave(d)
<1> USE DEF OutboxInv
<1>1. PICK d \in DOMAIN drafts : d = busy.draft
  BY DEF MailInv, MailTypes
<1>2. Fate(d) = "waiting"
  BY <1>1, FateIs DEF Held, Uncanceled
<1>3. canceled' = canceled
  BY CanceledStay
<1>4. drafts'[d].at = drafts[d].at /\ drafts'[d].st # "writing" /\ d # 0 /\ d # Idle.draft
  BY <1>1, PlacesStay, OwnThread DEF Held
<1>5. Fate(d)' # "canceled"
  BY <1>1, <1>3, <1>4 DEF Fate, Uncanceled
<1>6. lost' = lost /\ pending'[drafts[busy.draft].at] = 0 => Fate(d)' = "done"
  BY <1>1, <1>3, <1>4 DEF Fate, Uncanceled
<1>7. Fates[d] = Fate(d) /\ Fates'[d] = Fate(d)'
  BY <1>1 DEF Fates
<1>8. Out' = Append(Out, d)
  BY <1>1, OutGrows DEF MailInv
<1>9. Box!Onward
  BY AllOnward
<1> QED
  BY <1>2, <1>5, <1>6, <1>7, <1>8, <1>9 DEF Box!Leave, Fates, Out

\* Every step of the tool is a step of the outbox or leaves it as it is.
LEMMA OutboxStep ==
  OutboxInv /\ OutboxInv' /\ [Next]_vars => [Box!Next]_<<Fates, Out, lost>>
<1> SUFFICES ASSUME OutboxInv, OutboxInv', [Next]_vars PROVE Box!Next
  BY DEF Box!Next
<1>1. CASE Starts
  BY <1>1, StartBegins DEF OutboxInv, Box!Next
<1>2. DOMAIN drafts' = DOMAIN drafts \/ Starts
  BY Heard DEF OutboxInv, MailInv, RestTypes, Next, vars, EventLoop, Drafting, Say,
     SendSucceeds, SendFails, DraftEnds, DraftStored, Prompt, SessionExpires, DraftExpires, Crash
<1>3. CASE DOMAIN drafts' = DOMAIN drafts /\ UNCHANGED <<sent, lost>>
  <2>1. Box!Onward
    BY <1>3, AllOnward
  <2>2. Out' = Out
    BY <1>3 DEF Out
  <2> QED
    BY <1>3, <2>1, <2>2 DEF Box!Next, Out
<1>4. ASSUME DOMAIN drafts' = DOMAIN drafts, busy # Idle, busy' = Idle,
             sent' = Append(sent, busy),
             \/ lost' = lost /\ pending'[drafts[busy.draft].at] = 0
             \/ lost' = lost + 1
      PROVE  Box!Next
  <2>1. PICK d \in DOMAIN drafts : Box!Leave(d)
    BY <1>4, MailLeaves
  <2>2. d \in DOMAIN Fates
    BY <2>1 DEF Fates
  <2> QED
    BY <2>1, <2>2 DEF Box!Next, Fates
<1>5. busy # Idle => drafts[busy.draft].at = said[busy.by].at /\ drafts[busy.draft].at \in Place
  BY OwnThread DEF OutboxInv, Held, MailInv, MailTypes
<1>6. pending \in [Place -> 0 .. Len(drafts)]
  BY DEF OutboxInv, MailInv, DraftTypes
<1>7. CASE SendSucceeds
  <2>1. pending'[drafts[busy.draft].at] = 0
    BY <1>5, <1>6, <1>7 DEF SendSucceeds, ClearPending
  <2> QED
    BY <1>4, <1>7, <2>1 DEF SendSucceeds
<1>8. CASE SendFails
  BY <1>3, <1>4, <1>8 DEF SendFails
<1>9. CASE Crash
  <2>1. busy # Idle => pending'[drafts[busy.draft].at] = 0
    BY <1>5, <1>9 DEF Crash
  <2>2. DOMAIN drafts' = DOMAIN drafts /\ busy' = Idle /\ UNCHANGED lost
        /\ (UNCHANGED sent \/ (busy # Idle /\ sent' = Append(sent, busy)))
    BY <1>9 DEF Crash
  <2> QED
    BY <1>3, <1>4, <2>1, <2>2
<1>10. UNCHANGED <<sent, lost>> \/ SendSucceeds \/ SendFails \/ Crash
  BY DEF Next, vars, EventLoop, Drafting, Say, HandleRequest, HandleCancel, HandleConfirm,
         DraftEnds, DraftStored, Prompt, SessionExpires, DraftExpires
<1> QED
  BY <1>1, <1>2, <1>3, <1>7, <1>8, <1>9, <1>10

\* Whatever is confirmed, repeated, superseded, expired or crashed, each draft
\* goes its way once: the mail tool implements the outbox.
THEOREM MailsOutbox == Spec => KeepsOutbox
<1>1. Init => Box!Init
  BY DEF Init, Box!Init
<1> QED
  BY <1>1, OutboxHolds, OutboxStep, PTL DEF Spec, KeepsOutbox, Box!Spec, Fates, Out
=============================================================================
