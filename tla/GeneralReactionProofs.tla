----------------------- MODULE GeneralReactionProofs -----------------------
(***************************************************************************)
(* Type correctness of GeneralReaction, the exclusiveness of acquired      *)
(* claims and the budget of reactions, for every squad, winner, lock       *)
(* configuration and fault bound.                                          *)
(***************************************************************************)
EXTENDS GeneralReaction, Counting

\* What a claim leaves behind is well typed for every status it can return.
LEMMA AfterClaimType ==
  ASSUME TypeOK, NEW b \in Bot,
         NEW st \in {"acquired", "already_claimed", "backend_unavailable"},
         AfterClaim(b, st)
  PROVE  /\ pc' \in [Bot -> {"idle", "delayed", "claiming", "reacting",
                             "releasing", "deleting", "done"}]
         /\ status' \in [Bot -> {"none", "acquired", "already_claimed",
                                 "backend_unavailable"}]
  BY DEF TypeOK, AfterClaim

\* The types are kept by every step of every pod and by the key's expiry.
LEMMA TypeStep == TypeOK /\ [Next]_vars => TypeOK'
<1> USE ReactionAssumption DEF TypeOK, NoFault, Fault
<1> SUFFICES ASSUME TypeOK, [Next]_vars PROVE TypeOK'
  OBVIOUS
<1>1. CASE UNCHANGED vars
  BY <1>1 DEF vars
<1>2. CASE Expire
  BY <1>2 DEF Expire
<1>3. ASSUME NEW b \in Bot, BotStep(b) PROVE TypeOK'
  <2>1. CASE Receive(b)
    BY <2>1 DEF Receive
  <2>2. CASE DelayOver(b)
    BY <2>2 DEF DelayOver
  <2>3. CASE Claim(b)
    BY <2>3, AfterClaimType DEF Claim, SetNX
  <2>4. CASE ClaimError(b)
    BY <2>4, AfterClaimType DEF ClaimError
  <2>5. CASE ClaimWithoutLock(b)
    BY <2>5, AfterClaimType DEF ClaimWithoutLock
  <2>6. CASE React(b)
    BY <2>6 DEF React
  <2>7. CASE ReactFails(b)
    BY <2>7 DEF ReactFails
  <2>8. CASE ReleaseGet(b)
    BY <2>8 DEF ReleaseGet
  <2>9. CASE ReleaseDel(b)
    BY <2>9 DEF ReleaseDel
  <2>10. CASE Crash(b)
    BY <2>10 DEF Crash
  <2>11. CASE ClaimAgain(b)
    BY <2>11 DEF ClaimAgain
  <2>12. CASE ReleaseAgain(b)
    BY <2>12 DEF ReleaseAgain
  <2> QED
    BY <1>3, <2>1, <2>2, <2>3, <2>4, <2>5, <2>6, <2>7, <2>8, <2>9, <2>10,
       <2>11, <2>12
       DEF BotStep
<1> QED
  BY <1>1, <1>2, <1>3 DEF Next

\* The variables stay in their types in every reachable state.
THEOREM ReactionTypes == Spec => []TypeOK
<1>1. Init => TypeOK
  BY ReactionAssumption DEF Init, TypeOK
<1> QED
  BY <1>1, TypeStep, PTL DEF Spec

\* A claim that does not acquire the key makes nobody a holder.
LEMMA ClaimMissed ==
  ASSUME TypeOK, HoldersOwnKey, Reliable,
         NEW b \in Bot, pc[b] = "claiming", UNCHANGED reacted,
         NEW st \in {"already_claimed", "backend_unavailable"},
         AfterClaim(b, st),
         key' = key \/ key = NoBot
  PROVE  HoldersOwnKey'
<1>1. b \notin reacted
  BY DEF HoldersOwnKey
<1>2. Holders' \subseteq Holders
  BY DEF Holders, AfterClaim, TypeOK
<1>3. Holders' \subseteq {key'}
  <2>1. CASE key' = key
    BY <1>2, <2>1 DEF HoldersOwnKey
  <2>2. CASE key = NoBot
    BY <1>2, <2>2, ReactionAssumption DEF HoldersOwnKey, Holders
  <2> QED
    BY <2>1, <2>2
<1> QED
  BY <1>1, <1>3 DEF HoldersOwnKey, AfterClaim, TypeOK

\* What has gone wrong stays on record.
LEMMA SeenGrows == [Next]_vars => seen \subseteq seen'
<1> USE DEF NoFault, Fault
<1>1. CASE UNCHANGED vars
  BY <1>1 DEF vars
<1>2. CASE Expire
  BY <1>2 DEF Expire
<1>3. ASSUME NEW b \in Bot, BotStep(b) PROVE seen \subseteq seen'
  BY <1>3 DEF BotStep, Receive, DelayOver, Claim, ClaimError, ClaimAgain,
     ClaimWithoutLock, React, ReactFails, ReleaseGet, ReleaseDel,
     ReleaseAgain, Crash
<1> QED
  BY <1>1, <1>2, <1>3 DEF Next

\* Holders keep the key in every step: an acquisition starts from a free key
\* that nobody holds, and only the holder deletes it.
LEMMA HoldersStep == TypeOK /\ HoldersOwnKey /\ [Next]_vars => HoldersOwnKey'
<1> SUFFICES ASSUME TypeOK, HoldersOwnKey, [Next]_vars, Reliable'
             PROVE  HoldersOwnKey'
  BY DEF HoldersOwnKey
<1>0. Reliable
  BY SeenGrows DEF Reliable
<1> USE <1>0, ReactionAssumption DEF NoFault, Fault
<1>1. CASE UNCHANGED vars
  BY <1>1 DEF vars, HoldersOwnKey, Holders
<1>2. CASE Expire
  BY <1>2 DEF Expire, Reliable
<1>3. ASSUME NEW b \in Bot, BotStep(b) PROVE HoldersOwnKey'
  <2>1. CASE Receive(b)
    BY <2>1 DEF Receive, HoldersOwnKey, Holders, TypeOK
  <2>2. CASE DelayOver(b)
    BY <2>2 DEF DelayOver, HoldersOwnKey, Holders, TypeOK
  <2>3. CASE Claim(b)
    <3>1. CASE key = NoBot
      <4>1. Holders = {}
        BY <3>1 DEF HoldersOwnKey, Holders
      <4>2. key' = b /\ AfterClaim(b, "acquired") /\ reacted' = reacted
        BY <2>3, <3>1 DEF Claim, SetNX
      <4>3. Holders' \subseteq {b}
        BY <4>1, <4>2 DEF Holders, AfterClaim, TypeOK
      <4>4. pc[b] = "claiming" /\ b \notin reacted
        BY <2>3 DEF Claim, HoldersOwnKey
      <4> QED
        BY <4>2, <4>3, <4>4 DEF HoldersOwnKey, AfterClaim, TypeOK
    <3>2. CASE key # NoBot
      BY <2>3, <3>2, ClaimMissed DEF Claim, SetNX
    <3> QED
      BY <3>1, <3>2
  <2>4. CASE ClaimError(b)
    BY <2>4, ClaimMissed DEF ClaimError
  <2>5. CASE ClaimWithoutLock(b)
    BY <2>5, ClaimMissed DEF ClaimWithoutLock
  <2>6. CASE React(b)
    BY <2>6 DEF React, HoldersOwnKey, Holders, TypeOK
  <2>7. CASE ReactFails(b)
    <3>1. reacted' = reacted /\ b \notin reacted
      BY <2>7 DEF ReactFails, HoldersOwnKey, Reliable
    <3> QED
      BY <2>7, <3>1 DEF ReactFails, HoldersOwnKey, Holders, TypeOK
  <2>8. CASE ReleaseGet(b)
    BY <2>8 DEF ReleaseGet, HoldersOwnKey, Holders, TypeOK
  <2>9. CASE ReleaseDel(b)
    <3>1. b \in Holders /\ b \notin reacted
      BY <2>9 DEF ReleaseDel, HoldersOwnKey, Holders
    <3>2. Holders \subseteq {b}
      BY <3>1 DEF HoldersOwnKey
    <3>3. Holders' = {}
      BY <2>9, <3>1, <3>2 DEF ReleaseDel, Holders, TypeOK
    <3> QED
      BY <2>9, <3>1, <3>3 DEF ReleaseDel, HoldersOwnKey, TypeOK
  <2>10. CASE Crash(b)
    BY <2>10 DEF Crash, HoldersOwnKey, Holders, TypeOK
  <2>11. CASE ClaimAgain(b)
    <3>1. CASE key = NoBot
      <4>1. Holders = {}
        BY <3>1 DEF HoldersOwnKey, Holders
      <4>2. Holders' = {}
        BY <2>11, <4>1 DEF ClaimAgain, Holders
      <4> QED
        BY <2>11, <4>2 DEF ClaimAgain, HoldersOwnKey
    <3>2. CASE key # NoBot
      BY <2>11, <3>2 DEF ClaimAgain, HoldersOwnKey, Holders
    <3> QED
      BY <3>1, <3>2
  <2>12. CASE ReleaseAgain(b)
    BY <2>12 DEF ReleaseAgain, Reliable
  <2> QED
    BY <1>3, <2>1, <2>2, <2>3, <2>4, <2>5, <2>6, <2>7, <2>8, <2>9, <2>10,
       <2>11, <2>12
       DEF BotStep
<1> QED
  BY <1>1, <1>2, <1>3 DEF Next

\* The claimed reaction is exclusive: without expiry and lost answers, no two
\* bots that acquired the claim ever react to the same message, whatever
\* Redis errors, refused reactions, releases and crashes happen.
THEOREM ExclusiveClaims == Spec => []ClaimsExclusive
<1>1. Init => TypeOK /\ HoldersOwnKey
  BY ReactionAssumption DEF Init, TypeOK, HoldersOwnKey, Holders
<1>2. TypeOK /\ HoldersOwnKey /\ [Next]_vars => TypeOK' /\ HoldersOwnKey'
  BY TypeStep, HoldersStep
<1>3. TypeOK /\ HoldersOwnKey => ClaimsExclusive
  BY DEF TypeOK, HoldersOwnKey, Holders, ClaimsExclusive
<1> QED
  BY <1>1, <1>2, <1>3, PTL DEF Spec
-----------------------------------------------------------------------------
\* The strengthening of ReactionsBudget.  There is one ticket: it lies in
\* Redis while the key is free, a claim hands it to a bot that has reacted or
\* is about to, and that bot may carry it back.  Only a fault makes another.
\* The winner needs none when it has no lock.
Exempt == IF Winner \in locked THEN {} ELSE {Winner}

Admitted == {b \in Bot : b \in reacted \/ pc[b] = "reacting"} \ Exempt

GivingBack == {b \in Bot : pc[b] \in {"releasing", "deleting"}}

InRedis == IF key = NoBot THEN 1 ELSE 0

BudgetInv ==
  /\ IsFiniteSet(Admitted) /\ IsFiniteSet(GivingBack)
  /\ Cardinality(Admitted) + Cardinality(GivingBack) + InRedis <= 1 + faults

\* A step that admits nobody, gives nothing back and frees no key, or pays for
\* the freed key with a fault, stays within the budget.
LEMMA NobodyMore ==
  ASSUME TypeOK, BudgetInv, Admitted' \subseteq Admitted, GivingBack' \subseteq GivingBack,
         \/ faults' = faults /\ (key' = NoBot => key = NoBot)
         \/ faults' = faults + 1
  PROVE  BudgetInv'
<1>1. /\ IsFiniteSet(Admitted') /\ Cardinality(Admitted') \in Nat
      /\ Cardinality(Admitted) \in Nat /\ Cardinality(Admitted') <= Cardinality(Admitted)
  BY Part DEF BudgetInv
<1>2. /\ IsFiniteSet(GivingBack') /\ Cardinality(GivingBack') \in Nat
      /\ Cardinality(GivingBack) \in Nat
      /\ Cardinality(GivingBack') <= Cardinality(GivingBack)
  BY Part DEF BudgetInv
<1>3. faults \in Nat
  BY ReactionAssumption DEF TypeOK
<1> QED
  BY <1>1, <1>2, <1>3 DEF BudgetInv, InRedis

\* A step that admits one bot stays within it when it takes the key or is a
\* fault.
LEMMA OneAdmitted ==
  ASSUME TypeOK, BudgetInv, NEW b, Admitted' \subseteq Admitted \cup {b},
         GivingBack' \subseteq GivingBack, key' = NoBot => key = NoBot,
         \/ faults' = faults /\ key = NoBot /\ key' # NoBot
         \/ faults' = faults + 1
  PROVE  BudgetInv'
<1>1. /\ IsFiniteSet(Admitted') /\ Cardinality(Admitted') \in Nat
      /\ Cardinality(Admitted) \in Nat /\ Cardinality(Admitted') <= Cardinality(Admitted) + 1
  BY OneMore DEF BudgetInv
<1>2. /\ IsFiniteSet(GivingBack') /\ Cardinality(GivingBack') \in Nat
      /\ Cardinality(GivingBack) \in Nat
      /\ Cardinality(GivingBack') <= Cardinality(GivingBack)
  BY Part DEF BudgetInv
<1>3. faults \in Nat
  BY ReactionAssumption DEF TypeOK
<1> QED
  BY <1>1, <1>2, <1>3 DEF BudgetInv, InRedis

\* Neither the claims and reactions nor the lock configuration change.
LEMMA SameSets ==
  ASSUME UNCHANGED <<pc, reacted, locked>>
  PROVE  Admitted' = Admitted /\ GivingBack' = GivingBack
  BY DEF Admitted, GivingBack, Exempt

\* Every step stays within the budget.
LEMMA BudgetStep == TypeOK /\ BudgetInv /\ [Next]_vars => BudgetInv'
<1> SUFFICES ASSUME TypeOK, BudgetInv, [Next]_vars PROVE BudgetInv'
  OBVIOUS
<1> USE ReactionAssumption DEF NoFault, Fault
<1>1. CASE UNCHANGED vars
  BY <1>1, SameSets, NobodyMore DEF vars
<1>2. CASE Expire
  BY <1>2, SameSets, NobodyMore DEF Expire
<1>3. ASSUME NEW b \in Bot, BotStep(b) PROVE BudgetInv'
  <2>1. CASE Receive(b)
    <3>1. Admitted' \subseteq Admitted /\ GivingBack' \subseteq GivingBack
      BY <2>1 DEF Receive, Admitted, GivingBack, Exempt, TypeOK
    <3> QED
      BY <2>1, <3>1, NobodyMore DEF Receive
  <2>2. CASE DelayOver(b)
    <3>1. Admitted' \subseteq Admitted /\ GivingBack' \subseteq GivingBack
      BY <2>2 DEF DelayOver, Admitted, GivingBack, Exempt, TypeOK
    <3> QED
      BY <2>2, <3>1, NobodyMore DEF DelayOver
  <2>3. CASE Claim(b)
    <3>1. GivingBack' \subseteq GivingBack
      BY <2>3 DEF Claim, SetNX, AfterClaim, GivingBack, TypeOK
    <3>2. CASE key = NoBot
      <4>1. Admitted' \subseteq Admitted \cup {b}
        BY <2>3, <3>2 DEF Claim, SetNX, AfterClaim, Admitted, Exempt, TypeOK
      <4>2. key' # NoBot /\ faults' = faults
        BY <2>3, <3>2 DEF Claim, SetNX
      <4> QED
        BY <3>1, <3>2, <4>1, <4>2, OneAdmitted
    <3>3. CASE key # NoBot
      <4>1. Admitted' \subseteq Admitted
        BY <2>3, <3>3 DEF Claim, SetNX, AfterClaim, Admitted, Exempt, TypeOK,
           WinnerShouldPost, FailoverShouldPost
      <4>2. key' = key /\ faults' = faults
        BY <2>3, <3>3 DEF Claim, SetNX
      <4> QED
        BY <3>1, <4>1, <4>2, NobodyMore
    <3> QED
      BY <3>2, <3>3
  <2>4. CASE ClaimError(b)
    <3>1. Admitted' \subseteq Admitted \cup {b} /\ GivingBack' \subseteq GivingBack
      BY <2>4 DEF ClaimError, AfterClaim, Admitted, GivingBack, Exempt, TypeOK
    <3>2. faults' = faults + 1 /\ (key' = NoBot => key = NoBot)
      BY <2>4 DEF ClaimError
    <3> QED
      BY <3>1, <3>2, OneAdmitted
  <2>5. CASE ClaimWithoutLock(b)
    <3>1. Admitted' \subseteq Admitted
      BY <2>5 DEF ClaimWithoutLock, AfterClaim, Admitted, Exempt, TypeOK,
         FailoverShouldPost
    <3>2. GivingBack' \subseteq GivingBack
      BY <2>5 DEF ClaimWithoutLock, AfterClaim, GivingBack, TypeOK
    <3> QED
      BY <2>5, <3>1, <3>2, NobodyMore DEF ClaimWithoutLock
  <2>6. CASE React(b)
    <3>1. Admitted' \subseteq Admitted /\ GivingBack' \subseteq GivingBack
      BY <2>6 DEF React, Admitted, GivingBack, Exempt, TypeOK
    <3> QED
      BY <2>6, <3>1, NobodyMore DEF React
  <2>7. CASE ReactFails(b)
    <3>1. Admitted' \subseteq Admitted
      BY <2>7 DEF ReactFails, Admitted, Exempt, TypeOK
    <3>2. GivingBack' \subseteq GivingBack \cup {b}
      BY <2>7 DEF ReactFails, GivingBack, TypeOK
    <3>3. faults' = faults + 1 /\ key' = key /\ faults \in Nat
      BY <2>7 DEF ReactFails, TypeOK
    <3>4. /\ IsFiniteSet(Admitted') /\ Cardinality(Admitted') \in Nat
          /\ Cardinality(Admitted) \in Nat
          /\ Cardinality(Admitted') <= Cardinality(Admitted)
      BY <3>1, Part DEF BudgetInv
    <3>5. /\ IsFiniteSet(GivingBack') /\ Cardinality(GivingBack') \in Nat
          /\ Cardinality(GivingBack) \in Nat
          /\ Cardinality(GivingBack') <= Cardinality(GivingBack) + 1
      BY <3>2, OneMore DEF BudgetInv
    <3> QED
      BY <3>3, <3>4, <3>5 DEF BudgetInv, InRedis
  <2>8. CASE ReleaseGet(b)
    <3>1. Admitted' \subseteq Admitted /\ GivingBack' \subseteq GivingBack
      BY <2>8 DEF ReleaseGet, Admitted, GivingBack, Exempt, TypeOK
    <3> QED
      BY <2>8, <3>1, NobodyMore DEF ReleaseGet
  <2>9. CASE ReleaseDel(b)
    <3>1. Admitted' \subseteq Admitted
      BY <2>9 DEF ReleaseDel, Admitted, Exempt, TypeOK
    <3>2. GivingBack' \subseteq GivingBack \ {b} /\ b \in GivingBack
      BY <2>9 DEF ReleaseDel, GivingBack, TypeOK
    <3>3. faults' >= faults /\ faults \in Nat /\ faults' \in Nat
      BY <2>9 DEF ReleaseDel, TypeOK
    <3>4. /\ IsFiniteSet(Admitted') /\ Cardinality(Admitted') \in Nat
          /\ Cardinality(Admitted) \in Nat
          /\ Cardinality(Admitted') <= Cardinality(Admitted)
      BY <3>1, Part DEF BudgetInv
    <3>5. /\ IsFiniteSet(GivingBack') /\ Cardinality(GivingBack') \in Nat
          /\ Cardinality(GivingBack) \in Nat
          /\ Cardinality(GivingBack') + 1 <= Cardinality(GivingBack)
      BY <3>2, OneLess DEF BudgetInv
    <3> QED
      BY <3>3, <3>4, <3>5 DEF BudgetInv, InRedis
  <2>10. CASE Crash(b)
    <3>1. Admitted' \subseteq Admitted /\ GivingBack' \subseteq GivingBack
      BY <2>10 DEF Crash, Admitted, GivingBack, Exempt, TypeOK
    <3> QED
      BY <2>10, <3>1, NobodyMore DEF Crash
  <2>11. CASE ClaimAgain(b)
    BY <2>11, SameSets, NobodyMore DEF ClaimAgain
  <2>12. CASE ReleaseAgain(b)
    BY <2>12, SameSets, NobodyMore DEF ReleaseAgain
  <2> QED
    BY <1>3, <2>1, <2>2, <2>3, <2>4, <2>5, <2>6, <2>7, <2>8, <2>9, <2>10,
       <2>11, <2>12
       DEF BotStep
<1> QED
  BY <1>1, <1>2, <1>3 DEF Next

\* Every reaction beyond the first, or beyond the lockless winner's, is paid
\* for by a fault of its own, in a squad of any size.
THEOREM BudgetKept == Spec => []ReactionsBudget
<1>1. Init => TypeOK
  BY ReactionAssumption DEF Init, TypeOK
<1>2. Init => BudgetInv
  <2> SUFFICES ASSUME Init PROVE BudgetInv
    OBVIOUS
  <2>1. Admitted = {} /\ GivingBack = {}
    BY DEF Init, Admitted, GivingBack
  <2>2. IsFiniteSet({}) /\ Cardinality({}) = 0
    BY FS_EmptySet
  <2>3. faults = 0
    BY DEF Init
  <2> QED
    BY <2>1, <2>2, <2>3 DEF BudgetInv, InRedis
<1>3. TypeOK /\ BudgetInv /\ [Next]_vars => TypeOK' /\ BudgetInv'
  BY TypeStep, BudgetStep
<1>4. TypeOK /\ BudgetInv => ReactionsBudget
  <2> SUFFICES ASSUME TypeOK, BudgetInv PROVE ReactionsBudget
    OBVIOUS
  <2>1. faults \in Nat /\ Cardinality(Admitted) \in Nat /\ Cardinality(GivingBack) \in Nat
    BY ReactionAssumption, FS_CardinalityType DEF TypeOK, BudgetInv
  <2>2. Cardinality(Admitted) <= 1 + faults
    BY <2>1 DEF BudgetInv, InRedis
  <2>3. CASE Winner \in locked
    <3>1. reacted \subseteq Admitted
      BY <2>3 DEF Admitted, Exempt, TypeOK
    <3>2. Cardinality(reacted) <= Cardinality(Admitted) /\ Cardinality(reacted) \in Nat
      BY <3>1, Part DEF BudgetInv
    <3> QED
      BY <2>1, <2>2, <2>3, <3>2 DEF ReactionsBudget
  <2>4. CASE Winner \notin locked
    <3>1. reacted \subseteq Admitted \cup {Winner}
      BY <2>4 DEF Admitted, Exempt, TypeOK
    <3>2. Cardinality(reacted) <= Cardinality(Admitted) + 1 /\ Cardinality(reacted) \in Nat
      BY <3>1, OneMore DEF BudgetInv
    <3> QED
      BY <2>1, <2>2, <2>4, <3>2 DEF ReactionsBudget
  <2> QED
    BY <2>3, <2>4
<1> QED
  BY <1>1, <1>2, <1>3, <1>4, PTL DEF Spec
=============================================================================
