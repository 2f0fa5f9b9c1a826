------------------------- MODULE OutboundGateProofs -------------------------
(***************************************************************************)
(* The gate's memory is bounded and no window of the channel ever holds    *)
(* more posts than allowed, for every number of goroutines, window and     *)
(* limit.                                                                  *)
(***************************************************************************)
EXTENDS OutboundGate, Counting

USE GateAssumption

\* prune returns post times, and never more than it got.
LEMMA PruneType ==
  ASSUME NEW ts \in Seq(0 .. MaxTime)
  PROVE  /\ Prune(ts) \in Seq(0 .. MaxTime)
         /\ Len(Prune(ts)) <= Len(ts)
<1> DEFINE old == {i \in DOMAIN ts : \A j \in 1 .. i : ts[j] < now - Window}
<1>1. Len(ts) \in Nat /\ DOMAIN ts = 1 .. Len(ts)
  OBVIOUS
<1>2. IsFiniteSet(1 .. Len(ts)) /\ Cardinality(1 .. Len(ts)) = Len(ts)
  <2>1. IsFiniteSet(1 .. Len(ts))
    BY <1>1, FS_Interval
  <2>2. \A a, b \in Int : Cardinality(a .. b) = IF a > b THEN 0 ELSE b - a + 1
    BY FS_Interval, Zenon
  <2>3. 1 \in Int /\ Len(ts) \in Int
    BY <1>1
  <2>4. Cardinality(1 .. Len(ts)) = IF 1 > Len(ts) THEN 0 ELSE Len(ts) - 1 + 1
    BY <2>2, <2>3, Zenon
  <2>5. (IF 1 > Len(ts) THEN 0 ELSE Len(ts) - 1 + 1) = Len(ts)
    BY <1>1
  <2> QED
    BY <2>1, <2>4, <2>5
<1>3. Cardinality(old) \in Nat /\ Cardinality(old) <= Len(ts)
  BY <1>1, <1>2, FS_Subset, FS_CardinalityType
<1>4. Prune(ts) = SubSeq(ts, Cardinality(old) + 1, Len(ts))
  BY DEF Prune
<1> HIDE DEF old
<1>5. \A i \in Cardinality(old) + 1 .. Len(ts) : i \in 1 .. Len(ts)
  BY <1>1, <1>3
<1>6. Prune(ts) \in Seq(0 .. MaxTime)
  <2>1. PICK k \in Nat : k = Cardinality(old)
    BY <1>3
  <2>2. SubSeq(ts, k + 1, Len(ts)) \in Seq(0 .. MaxTime)
    BY <1>1, <2>1
  <2> QED
    BY <1>4, <2>1, <2>2
<1>7. Len(Prune(ts)) = Len(ts) - Cardinality(old)
  BY <1>1, <1>3, <1>4
<1> QED
  BY <1>1, <1>3, <1>6, <1>7

\* The types are kept by every step.
LEMMA TypeStep == TypeOK /\ [Next]_vars => TypeOK'
<1> SUFFICES ASSUME TypeOK, [Next]_vars PROVE TypeOK'
  OBVIOUS
<1> USE DEF TypeOK
<1>1. CASE UNCHANGED vars
  BY <1>1 DEF vars
<1>2. CASE Tick
  <2>1. now' \in 0 .. MaxTime
    BY <1>2 DEF Tick
  <2> QED
    BY <1>2, <2>1 DEF Tick
<1>3. ASSUME NEW c \in Caller,
             Lock(c) \/ Check(c) \/ Post(c) \/ PostFails(c) \/ Record(c)
      PROVE  TypeOK'
  <2>1. CASE Lock(c)
    BY <2>1 DEF Lock
  <2>2. CASE Check(c)
    <3>1. times' \in Seq(0 .. MaxTime)
      BY <2>2, PruneType DEF Check
    <3> QED
      BY <2>2, <3>1 DEF Check
  <2>3. CASE Post(c)
    <3>1. posts' \in Seq(0 .. MaxTime)
      BY <2>3 DEF Post
    <3> QED
      BY <2>3, <3>1 DEF Post
  <2>4. CASE PostFails(c)
    <3>1. CASE UNCHANGED <<posts, lost>>
      BY <2>4, <3>1 DEF PostFails
    <3>2. CASE lost < MaxLost /\ lost' = lost + 1 /\ posts' = Append(posts, now)
      <4>1. posts' \in Seq(0 .. MaxTime)
        BY <3>2
      <4>2. lost' \in 0 .. MaxLost
        BY <3>2
      <4> QED
        BY <2>4, <4>1, <4>2 DEF PostFails
    <3> QED
      BY <2>4, <3>1, <3>2 DEF PostFails
  <2>5. CASE Record(c)
    <3>1. times' \in Seq(0 .. MaxTime)
      <4>1. Prune(times) \in Seq(0 .. MaxTime)
        BY PruneType
      <4>2. Append(Prune(times), now) \in Seq(0 .. MaxTime)
        BY <4>1
      <4> QED
        BY <2>5, <4>2 DEF Record
    <3> QED
      BY <2>5, <3>1 DEF Record
  <2> QED
    BY <1>3, <2>1, <2>2, <2>3, <2>4, <2>5
<1> QED
  BY <1>1, <1>2, <1>3 DEF Next

\* The variables stay in their types in every reachable state.
THEOREM GateTypes == Spec => []TypeOK
<1>1. Init => TypeOK
  BY DEF Init, TypeOK
<1> QED
  BY <1>1, TypeStep, PTL DEF Spec

-----------------------------------------------------------------------------
\* The strengthening of GateBounded: whoever is past Lock holds b.mu, and
\* whoever is past an allowing look-up still finds room in the window.
GateInv ==
  /\ \A c \in Caller : pc[c] # "idle" => mu = c
  /\ MaxPosts > 0 =>
       /\ Len(times) <= MaxPosts
       /\ \A c \in Caller : pc[c] \in {"posting", "posted"} => Len(times) < MaxPosts

\* The strengthening is kept by every step: times only changes under b.mu.
LEMMA GateStep == TypeOK /\ GateInv /\ [Next]_vars => GateInv'
<1> SUFFICES ASSUME TypeOK, GateInv, [Next]_vars PROVE GateInv'
  OBVIOUS
<1> USE DEF TypeOK
<1>0. Len(times) \in Nat
  OBVIOUS
<1>1. CASE UNCHANGED vars
  BY <1>1 DEF vars, GateInv
<1>2. CASE Tick
  BY <1>2 DEF Tick, GateInv
<1>3. ASSUME NEW c \in Caller,
             Lock(c) \/ Check(c) \/ Post(c) \/ PostFails(c) \/ Record(c)
      PROVE  GateInv'
  <2>1. CASE Lock(c)
    BY <2>1 DEF Lock, GateInv
  <2>2. CASE Check(c)
    <3>1. mu = c /\ \A d \in Caller \ {c} : pc[d] = "idle"
      BY <2>2 DEF Check, GateInv
    <3>2. \A d \in Caller \ {c} : pc'[d] = "idle"
      BY <2>2, <3>1 DEF Check
    <3>3. pc'[c] # "idle" => mu' = c
      BY <2>2, <3>1 DEF Check
    <3>4. ASSUME MaxPosts > 0
          PROVE  /\ Len(times') <= MaxPosts
                 /\ pc'[c] \in {"posting", "posted"} => Len(times') < MaxPosts
      <4>1. times' = Prune(times)
        BY <2>2, <3>4 DEF Check
      <4>2. Len(Prune(times)) <= Len(times) /\ Len(Prune(times)) \in Nat
        BY PruneType
      <4>3. Len(times) <= MaxPosts
        BY <3>4 DEF GateInv
      <4>4. Len(times') <= MaxPosts
        BY <1>0, <4>1, <4>2, <4>3
      <4>5. pc'[c] \in {"posting", "posted"} => Allow(times')
        BY <2>2 DEF Check
      <4> QED
        BY <3>4, <4>4, <4>5 DEF Allow
    <3> QED
      BY <3>2, <3>3, <3>4 DEF GateInv
  <2>3. CASE Post(c)
    BY <2>3 DEF Post, GateInv
  <2>4. CASE PostFails(c)
    BY <2>4 DEF PostFails, GateInv
  <2>5. CASE Record(c)
    <3>1. mu = c /\ \A d \in Caller \ {c} : pc[d] = "idle"
      BY <2>5 DEF Record, GateInv
    <3>2. \A d \in Caller : pc'[d] = "idle"
      BY <2>5, <3>1 DEF Record
    <3>3. ASSUME MaxPosts > 0 PROVE Len(times') <= MaxPosts
      <4>1. times' = Append(Prune(times), now)
        BY <2>5, <3>3 DEF Record
      <4>2. Prune(times) \in Seq(0 .. MaxTime) /\ Len(Prune(times)) <= Len(times)
        BY PruneType
      <4>3. Len(times') = Len(Prune(times)) + 1
        BY <4>1, <4>2
      <4>4. Len(times) < MaxPosts
        BY <2>5, <3>3 DEF Record, GateInv
      <4>5. Len(Prune(times)) \in Nat
        BY <4>2
      <4> QED
        BY <1>0, <4>2, <4>3, <4>4, <4>5
    <3> QED
      BY <3>2, <3>3 DEF GateInv
  <2> QED
    BY <1>3, <2>1, <2>2, <2>3, <2>4, <2>5
<1> QED
  BY <1>1, <1>2, <1>3 DEF Next

\* However many goroutines post, the gate never holds more than MaxPosts
\* times: b.mu covers the look-up, the LLM call, the post and the record.
THEOREM GateNeverOverfull == Spec => []GateBounded
<1>1. Init => TypeOK /\ GateInv
  BY DEF Init, TypeOK, GateInv
<1>2. TypeOK /\ GateInv /\ [Next]_vars => TypeOK' /\ GateInv'
  BY TypeStep, GateStep
<1>3. GateInv => GateBounded
  BY DEF GateInv, GateBounded
<1> QED
  BY <1>1, <1>2, <1>3, PTL DEF Spec
-----------------------------------------------------------------------------
\* The entries of a list of times that lie at u or later, and whether the
\* lock holder's message is in Slack but not in the gate yet.
Since(ts, u) == {i \in DOMAIN ts : ts[i] >= u}

Unrecorded == IF \E c \in Caller : pc[c] = "posted" THEN 1 ELSE 0

\* The strengthening of WindowLimit: however much of the current window one
\* looks at, the gate remembers the posts in it, apart from those Slack
\* denied and the one being recorded.
WindowInv ==
  /\ \A i \in DOMAIN posts : posts[i] <= now
  /\ MaxPosts > 0 =>
       \A u \in (now - Window) .. now :
         Cardinality(Since(posts, u))
           <= Cardinality(Since(times, u)) + lost + Unrecorded
  /\ WindowLimit

\* prune drops a prefix of the list, all of it older than the window.
LEMMA PruneDrops ==
  ASSUME NEW ts \in Seq(0 .. MaxTime), now \in Nat
  PROVE  \E k \in 0 .. Len(ts) :
           /\ \A i \in 1 .. k : ts[i] < now - Window
           /\ Len(Prune(ts)) = Len(ts) - k
           /\ \A j \in 1 .. Len(ts) - k : Prune(ts)[j] = ts[k + j]
<1> DEFINE old == {i \in DOMAIN ts : \A j \in 1 .. i : ts[j] < now - Window}
<1> DEFINE k == Cardinality(old)
<1>1. Len(ts) \in Nat /\ DOMAIN ts = 1 .. Len(ts)
  OBVIOUS
<1>2. old \in SUBSET (1 .. Len(ts)) /\ \A i \in old : 1 .. i \subseteq old
  <2>1. old \in SUBSET (1 .. Len(ts))
    BY <1>1
  <2>2. ASSUME NEW i \in old, NEW j \in 1 .. i PROVE j \in old
    <3>1. i \in Nat /\ i <= Len(ts) /\ \A l \in 1 .. i : ts[l] < now - Window
      BY <1>1
    <3>2. j \in DOMAIN ts /\ 1 .. j \subseteq 1 .. i
      BY <1>1, <3>1
    <3> QED
      BY <3>1, <3>2
  <2> QED
    BY <2>1, <2>2
<1>3. Prune(ts) = SubSeq(ts, k + 1, Len(ts))
  BY DEF Prune
<1>4. \A i \in old : ts[i] < now - Window
  BY <1>1
<1> HIDE DEF old
<1>5. old = 1 .. k /\ k \in Nat /\ k <= Len(ts)
  BY <1>1, <1>2, Segment
<1> HIDE DEF k
<1>6. \A i \in 1 .. k : ts[i] < now - Window
  BY <1>4, <1>5
<1>7. k \in Nat /\ k <= Len(ts)
  BY <1>5
<1>8. Len(Prune(ts)) = Len(ts) - k
  <2>1. Len(SubSeq(ts, k + 1, Len(ts))) = Len(ts) - k
    BY <1>7
  <2> QED
    BY <1>3, <2>1, Zenon
<1>9. \A j \in 1 .. Len(ts) - k : Prune(ts)[j] = ts[k + j]
  BY ONLY <1>1, <1>3, <1>7, ts \in Seq(0 .. MaxTime)
<1>10. k \in 0 .. Len(ts)
  BY <1>1, <1>7
<1> QED
  BY <1>6, <1>8, <1>9, <1>10, Zenon

\* Since is a finite set.
LEMMA SinceFinite ==
  ASSUME NEW ts \in Seq(0 .. MaxTime), NEW u \in Int
  PROVE  /\ IsFiniteSet(Since(ts, u)) /\ Cardinality(Since(ts, u)) \in Nat
         /\ Cardinality(Since(ts, u)) <= Len(ts)
<1>1. Len(ts) \in Nat /\ Since(ts, u) \in SUBSET (1 .. Len(ts))
  BY DEF Since
<1> QED
  BY <1>1, SomeUpTo

\* prune loses no time that lies in the window.
LEMMA PruneKeeps ==
  ASSUME NEW ts \in Seq(0 .. MaxTime), now \in Nat, NEW u \in Int, u >= now - Window
  PROVE  Cardinality(Since(ts, u)) <= Cardinality(Since(Prune(ts), u))
<1>1. PICK k \in 0 .. Len(ts) :
        /\ \A i \in 1 .. k : ts[i] < now - Window
        /\ Len(Prune(ts)) = Len(ts) - k
        /\ \A j \in 1 .. Len(ts) - k : Prune(ts)[j] = ts[k + j]
  BY PruneDrops
<1>2. Prune(ts) \in Seq(0 .. MaxTime)
  BY PruneType
<1>3. IsFiniteSet(Since(Prune(ts), u))
  BY <1>2, SinceFinite
<1>4. Since(ts, u) \in SUBSET Int
  BY DEF Since
<1>5. ASSUME NEW x \in Since(ts, u) PROVE x - k \in Since(Prune(ts), u)
  <2>1. x \in 1 .. Len(ts) /\ ts[x] >= u /\ ts[x] \in Int
    BY <1>5 DEF Since
  <2>2. ~(x <= k)
    BY <1>1, <2>1
  <2>3. x - k \in 1 .. Len(ts) - k /\ k + (x - k) = x
    BY <2>1, <2>2
  <2>4. Prune(ts)[x - k] = ts[x]
    BY <1>1, <2>3
  <2>5. DOMAIN Prune(ts) = 1 .. Len(ts) - k
    BY <1>1, <1>2
  <2> QED
    BY <2>1, <2>3, <2>4, <2>5 DEF Since
<1>6. k \in Int
  OBVIOUS
<1> QED
  BY <1>3, <1>4, <1>5, <1>6, Shifted

\* One time more at the end of a list: counted when it is late enough.
LEMMA AppendCounts ==
  ASSUME NEW ts \in Seq(0 .. MaxTime), NEW x \in 0 .. MaxTime, NEW u \in Int
  PROVE  Cardinality(Since(Append(ts, x), u))
           = Cardinality(Since(ts, u)) + (IF x >= u THEN 1 ELSE 0)
<1>1. Len(ts) \in Nat /\ DOMAIN ts = 1 .. Len(ts)
      /\ DOMAIN Append(ts, x) = 1 .. Len(ts) + 1
  OBVIOUS
<1>2. Append(ts, x)[Len(ts) + 1] = x /\ \A i \in 1 .. Len(ts) : Append(ts, x)[i] = ts[i]
  OBVIOUS
<1>3. IsFiniteSet(Since(ts, u)) /\ Cardinality(Since(ts, u)) \in Nat
  BY SinceFinite
<1>4. Len(ts) + 1 \notin Since(ts, u)
  BY <1>1 DEF Since
<1>5. CASE x >= u
  <2>1. Since(Append(ts, x), u) = Since(ts, u) \cup {Len(ts) + 1}
    BY <1>1, <1>2, <1>5 DEF Since
  <2>2. Cardinality(Since(ts, u) \cup {Len(ts) + 1}) = Cardinality(Since(ts, u)) + 1
    BY <1>3, <1>4, FS_AddElement
  <2> QED
    BY <1>5, <2>1, <2>2
<1>6. CASE ~(x >= u)
  <2>1. Since(Append(ts, x), u) = Since(ts, u)
    BY <1>1, <1>2, <1>6 DEF Since
  <2> QED
    BY <1>3, <1>6, <2>1
<1> QED
  BY <1>5, <1>6

\* A post made now fits into every window, when the current one has room.
LEMMA PostFits ==
  ASSUME TypeOK, WindowInv, MaxPosts > 0, NEW l \in Nat, lost <= l,
         Cardinality(Since(posts, now - Window)) + 1 <= MaxPosts + l,
         NEW t \in 0 .. now, NEW p, p = Append(posts, now)
  PROVE  Cardinality({i \in DOMAIN p : p[i] \in (t - Window) .. t}) <= MaxPosts + l
<1> DEFINE In(q) == {i \in DOMAIN q : q[i] \in (t - Window) .. t}
<1>1. /\ now \in Nat /\ lost \in Nat /\ posts \in Seq(0 .. MaxTime)
      /\ now \in 0 .. MaxTime /\ p \in Seq(0 .. MaxTime)
  BY DEF TypeOK
<1>2. t = now => In(p) \in SUBSET Since(p, now - Window)
  <2> SUFFICES ASSUME t = now, NEW i \in In(p) PROVE i \in Since(p, now - Window)
    OBVIOUS
  <2>1. i \in DOMAIN p /\ p[i] \in (now - Window) .. now
    OBVIOUS
  <2>2. p[i] >= now - Window
    BY <2>1
  <2> QED
    BY <2>1, <2>2 DEF Since
<1>3. t # now => In(p) = In(posts)
  <2> SUFFICES ASSUME t # now PROVE In(p) = In(posts)
    OBVIOUS
  <2>1. /\ DOMAIN p = 1 .. Len(posts) + 1 /\ DOMAIN posts = 1 .. Len(posts)
        /\ Len(posts) \in Nat /\ p[Len(posts) + 1] = now
        /\ \A i \in 1 .. Len(posts) : p[i] = posts[i]
    BY <1>1
  <2>2. now \notin (t - Window) .. t
    BY <1>1
  <2>3. \A i \in DOMAIN p : i \in DOMAIN posts \/ i = Len(posts) + 1
    BY <2>1
  <2>4. In(p) \subseteq In(posts)
    BY <2>1, <2>2, <2>3
  <2>5. In(posts) \subseteq In(p)
    BY <2>1
  <2> QED
    BY <2>4, <2>5
<1>4. Cardinality(In(posts)) <= MaxPosts + lost
  BY DEF WindowInv, WindowLimit
<1>5. Len(posts) \in Nat /\ In(posts) \in SUBSET (1 .. Len(posts))
  <2>1. Len(posts) \in Nat /\ DOMAIN posts = 1 .. Len(posts)
    BY <1>1
  <2> QED
    BY <2>1
<1> SUFFICES Cardinality(In(p)) <= MaxPosts + l
  OBVIOUS
<1> HIDE DEF In
<1>6. CASE t = now
  <2> DEFINE w == now - Window
  <2>1. w \in Int /\ now >= w
    BY <1>1
  <2> HIDE DEF w
  <2>2. /\ IsFiniteSet(Since(p, w)) /\ Cardinality(Since(p, w)) \in Nat
        /\ Cardinality(Since(posts, w)) \in Nat
    BY <1>1, <2>1, SinceFinite
  <2>3. Cardinality(Since(p, w)) = Cardinality(Since(posts, w)) + 1
    BY <1>1, <2>1, AppendCounts
  <2>4. In(p) \in SUBSET Since(p, w)
    BY <1>2, <1>6 DEF w
  <2>5. Cardinality(In(p)) <= Cardinality(Since(p, w)) /\ Cardinality(In(p)) \in Nat
    BY <2>2, <2>4, Part
  <2>6. Cardinality(Since(posts, w)) + 1 <= MaxPosts + l
    BY DEF w
  <2> QED
    BY <2>2, <2>3, <2>5, <2>6
<1>7. CASE t # now
  <2>1. Cardinality(In(posts)) \in Nat
    BY <1>5, SomeUpTo
  <2> QED
    BY <1>1, <1>3, <1>4, <1>7, <2>1
<1> QED
  BY <1>6, <1>7

\* One more post is one more time known, lost or not yet recorded.
LEMMA OnePostMore ==
  \A shown, known, open, before, after \in Nat :
    shown <= known + before /\ open + after >= before + 1
      => shown + 1 <= known + after + open
OBVIOUS

\* The strengthening is kept when the lock holder's message appears in Slack,
\* reported or not.
LEMMA PostKeepsWindow ==
  ASSUME TypeOK, TypeOK', GateInv, WindowInv, NEW c \in Caller, pc[c] = "posting",
         posts' = Append(posts, now), now' = now, times' = times,
         \/ lost' = lost /\ pc'[c] = "posted"
         \/ lost' = lost + 1
  PROVE  WindowInv'
<1>1. /\ now \in Nat /\ lost \in Nat /\ lost' \in Nat /\ Len(times) \in Nat
      /\ posts \in Seq(0 .. MaxTime) /\ times \in Seq(0 .. MaxTime)
      /\ posts' \in Seq(0 .. MaxTime) /\ now \in 0 .. MaxTime
  BY DEF TypeOK
<1>2. Unrecorded = 0
  BY DEF GateInv, Unrecorded
<1>3. (Unrecorded' = 0 \/ Unrecorded' = 1) /\ (pc'[c] = "posted" => Unrecorded' = 1)
  BY Zenon DEF Unrecorded
<1>4. Unrecorded' + lost' >= lost + 1 /\ lost <= lost'
  <2>1. CASE lost' = lost /\ pc'[c] = "posted"
    <3>1. Unrecorded' = 1
      BY <1>3, <2>1
    <3> QED
      BY <1>1, <2>1, <3>1
  <2>2. CASE lost' = lost + 1
    BY <1>1, <1>3, <2>2
  <2> QED
    BY <2>1, <2>2
<1>5. \A i \in DOMAIN posts' : posts'[i] <= now'
  <2>1. \A i \in DOMAIN posts : posts[i] <= now
    BY DEF WindowInv
  <2>2. /\ DOMAIN posts' = 1 .. Len(posts) + 1 /\ DOMAIN posts = 1 .. Len(posts)
        /\ Len(posts) \in Nat /\ posts'[Len(posts) + 1] = now
        /\ \A i \in 1 .. Len(posts) : posts'[i] = posts[i]
    BY <1>1
  <2>3. ASSUME NEW i \in DOMAIN posts' PROVE posts'[i] <= now
    <3>1. CASE i \in DOMAIN posts
      BY <2>1, <2>2, <3>1
    <3>2. CASE i = Len(posts) + 1
      BY <1>1, <2>2, <3>2
    <3> QED
      BY <2>2, <2>3, <3>1, <3>2
  <2> QED
    BY <2>3
<1>6. ASSUME MaxPosts > 0, NEW u \in (now - Window) .. now
      PROVE  /\ Cardinality(Since(posts, u)) <= Cardinality(Since(times, u)) + lost
             /\ Cardinality(Since(posts, u)) \in Nat
             /\ Cardinality(Since(times, u)) \in Nat
             /\ Cardinality(Since(times, u)) <= Len(times)
             /\ Cardinality(Since(posts', u)) = Cardinality(Since(posts, u)) + 1
  <2>1. u \in Int /\ now >= u
    BY <1>1
  <2>2. Cardinality(Since(posts, u)) <= Cardinality(Since(times, u)) + lost + Unrecorded
    BY <1>6 DEF WindowInv
  <2>3. /\ Cardinality(Since(posts, u)) \in Nat
        /\ Cardinality(Since(times, u)) \in Nat
        /\ Cardinality(Since(times, u)) <= Len(times)
    BY <1>1, <2>1, SinceFinite
  <2>4. Cardinality(Since(posts', u)) = Cardinality(Since(posts, u)) + 1
    BY <1>1, <2>1, AppendCounts
  <2>5. Cardinality(Since(posts, u)) <= Cardinality(Since(times, u)) + lost
    BY <1>1, <1>2, <2>2, <2>3
  <2> QED
    BY <2>3, <2>4, <2>5
<1>7. ASSUME MaxPosts > 0, NEW u \in (now - Window) .. now
      PROVE  Cardinality(Since(posts', u))
               <= Cardinality(Since(times, u)) + lost' + Unrecorded'
  <2>1. PICK shown \in Nat : shown = Cardinality(Since(posts, u))
    BY <1>6, <1>7
  <2>2. PICK known \in Nat : known = Cardinality(Since(times, u))
    BY <1>6, <1>7
  <2>3. PICK open \in Nat : open = Unrecorded'
    BY <1>3
  <2>4. Cardinality(Since(posts', u)) = shown + 1 /\ shown <= known + lost
    BY <1>6, <1>7, <2>1, <2>2
  <2>5. open + lost' >= lost + 1
    BY <1>4, <2>3
  <2>6. shown + 1 <= known + lost' + open
    <3>1. shown \in Nat /\ known \in Nat /\ open \in Nat /\ lost \in Nat /\ lost' \in Nat
      BY <1>1
    <3>2. shown <= known + lost /\ open + lost' >= lost + 1
      BY <2>4, <2>5
    <3> QED
      BY <3>1, <3>2, OnePostMore, Zenon
  <2> QED
    BY <2>2, <2>3, <2>4, <2>6
<1>8. ASSUME MaxPosts > 0, NEW t \in 0 .. now
      PROVE  Cardinality({i \in DOMAIN posts' : posts'[i] \in (t - Window) .. t})
               <= MaxPosts + lost'
  <2>1. Len(times) < MaxPosts
    BY <1>8 DEF GateInv
  <2>2. now - Window \in (now - Window) .. now
    BY <1>1
  <2>3. Cardinality(Since(posts, now - Window)) + 1 <= MaxPosts + lost'
    <3> DEFINE w == now - Window
    <3>1. w \in (now - Window) .. now
      BY <2>2
    <3> HIDE DEF w
    <3>2. /\ Cardinality(Since(posts, w)) <= Cardinality(Since(times, w)) + lost
          /\ Cardinality(Since(posts, w)) \in Nat /\ Cardinality(Since(times, w)) \in Nat
          /\ Cardinality(Since(times, w)) <= Len(times)
      BY <1>6, <1>8, <3>1
    <3>3. lost \in Nat /\ lost' \in Nat /\ lost <= lost' /\ Len(times) \in Nat /\ MaxPosts \in Nat
      BY <1>1, <1>4
    <3>4. Cardinality(Since(posts, w)) + 1 <= MaxPosts + lost'
      BY ONLY <2>1, <3>2, <3>3
    <3> QED
      BY <3>4 DEF w
  <2>4. lost' \in Nat /\ lost <= lost'
    BY <1>1, <1>4
  <2> QED
    BY <1>8, <2>3, <2>4, PostFits
<1> QED
  BY <1>5, <1>7, <1>8 DEF WindowInv, WindowLimit

\* The strengthening is kept by every step.
LEMMA WindowStep == TypeOK /\ TypeOK' /\ GateInv /\ WindowInv /\ [Next]_vars => WindowInv'
<1> SUFFICES ASSUME TypeOK, TypeOK', GateInv, WindowInv, [Next]_vars PROVE WindowInv'
  OBVIOUS
<1>0. /\ now \in Nat /\ lost \in Nat /\ now \in 0 .. MaxTime
      /\ posts \in Seq(0 .. MaxTime) /\ times \in Seq(0 .. MaxTime)
      /\ Prune(times) \in Seq(0 .. MaxTime)
  BY PruneType DEF TypeOK
<1>1. CASE UNCHANGED vars
  BY <1>1 DEF vars, WindowInv, WindowLimit, Unrecorded
<1>2. CASE Tick
  <2>1. now' = now + 1 /\ UNCHANGED <<times, pc, posts, lost>>
    BY <1>2 DEF Tick
  <2>2. \A i \in DOMAIN posts : posts[i] <= now /\ posts[i] \in Int
    BY <1>0 DEF WindowInv
  <2>3. Unrecorded' = Unrecorded /\ Unrecorded \in Nat
    BY <2>1, Zenon DEF Unrecorded
  <2>4. ASSUME MaxPosts > 0, NEW u \in (now' - Window) .. now'
        PROVE  Cardinality(Since(posts, u))
                 <= Cardinality(Since(times, u)) + lost + Unrecorded
    <3>1. CASE u \in (now - Window) .. now
      BY <2>4, <3>1 DEF WindowInv
    <3>2. CASE u = now + 1
      <4>1. Since(posts, u) = {}
        BY <1>0, <2>2, <3>2 DEF Since
      <4>2. u \in Int
        BY <1>0, <3>2
      <4>3. Cardinality(Since(posts, u)) = 0
        BY <4>1, FS_EmptySet, Zenon
      <4>4. Cardinality(Since(times, u)) \in Nat
        BY <1>0, <4>2, SinceFinite
      <4> QED
        BY <1>0, <2>3, <4>3, <4>4
    <3> QED
      BY <1>0, <2>1, <2>4, <3>1, <3>2
  <2>5. ASSUME MaxPosts > 0, NEW t \in 0 .. now'
        PROVE  Cardinality({i \in DOMAIN posts : posts[i] \in (t - Window) .. t})
                 <= MaxPosts + lost
    <3> DEFINE In(v) == {i \in DOMAIN posts : posts[i] \in (v - Window) .. v}
    <3>1. \A v \in 0 .. now : Cardinality(In(v)) <= MaxPosts + lost
      BY <2>5 DEF WindowInv, WindowLimit
    <3>2. t \notin 0 .. now => In(t) \in SUBSET In(now)
      BY <1>0, <2>1, <2>2
    <3>3. Len(posts) \in Nat /\ In(now) \in SUBSET (1 .. Len(posts))
      BY <1>0
    <3> SUFFICES Cardinality(In(t)) <= MaxPosts + lost
      OBVIOUS
    <3> HIDE DEF In
    <3>4. CASE t \notin 0 .. now
      <4>1. IsFiniteSet(In(now)) /\ Cardinality(In(now)) \in Nat
        BY <3>3, SomeUpTo
      <4>2. Cardinality(In(t)) <= Cardinality(In(now)) /\ Cardinality(In(t)) \in Nat
        BY <3>2, <3>4, <4>1, Part
      <4>3. Cardinality(In(now)) <= MaxPosts + lost
        BY <1>0, <3>1
      <4> QED
        BY <1>0, <4>1, <4>2, <4>3
    <3> QED
      BY <3>1, <3>4
  <2>6. \A i \in DOMAIN posts' : posts'[i] <= now'
    BY <1>0, <2>1, <2>2
  <2> QED
    BY <2>1, <2>3, <2>4, <2>5, <2>6 DEF WindowInv, WindowLimit
<1>3. ASSUME NEW c \in Caller,
             Lock(c) \/ Check(c) \/ Post(c) \/ PostFails(c) \/ Record(c)
      PROVE  WindowInv'
  <2>1. CASE Lock(c)
    <3>1. pc'[c] = "locked" /\ pc[c] = "idle" /\ \A d \in Caller \ {c} : pc'[d] = pc[d]
      BY <2>1 DEF Lock, TypeOK
    <3>2. Unrecorded' = Unrecorded
      BY <3>1 DEF Unrecorded
    <3> QED
      BY <2>1, <3>2 DEF Lock, WindowInv, WindowLimit
  <2>2. CASE Check(c)
    <3>1. /\ pc'[c] # "posted" /\ pc[c] # "posted"
          /\ \A d \in Caller \ {c} : pc'[d] = pc[d]
      BY <2>2 DEF Check, TypeOK
    <3>2. Unrecorded' = Unrecorded /\ Unrecorded \in Nat
      BY <3>1 DEF Unrecorded
    <3>3. ASSUME MaxPosts > 0, NEW u \in (now - Window) .. now
          PROVE  Cardinality(Since(posts, u))
                   <= Cardinality(Since(times', u)) + lost + Unrecorded
      <4>1. u \in Int /\ u >= now - Window
        BY <1>0
      <4>2. times' = Prune(times)
        BY <2>2, <3>3 DEF Check
      <4>3. Cardinality(Since(times, u)) <= Cardinality(Since(times', u))
        BY <1>0, <4>1, <4>2, PruneKeeps
      <4>4. /\ Cardinality(Since(times, u)) \in Nat
            /\ Cardinality(Since(times', u)) \in Nat
            /\ Cardinality(Since(posts, u)) \in Nat
        BY <1>0, <4>1, <4>2, SinceFinite
      <4>5. Cardinality(Since(posts, u)) <= Cardinality(Since(times, u)) + lost + Unrecorded
        BY <3>3 DEF WindowInv
      <4>6. lost \in Nat /\ Unrecorded \in Nat
        BY <1>0 DEF Unrecorded
      <4> QED
        BY ONLY <3>2, <4>3, <4>4, <4>5, <4>6
    <3> QED
      BY <2>2, <3>2, <3>3 DEF Check, WindowInv, WindowLimit
  <2>3. CASE Post(c)
    <3>1. pc'[c] = "posted"
      BY <2>3 DEF Post, TypeOK
    <3> QED
      BY <2>3, <3>1, PostKeepsWindow DEF Post
  <2>4. CASE PostFails(c)
    <3>1. CASE UNCHANGED <<posts, lost>>
      <4>1. /\ pc'[c] # "posted" /\ pc[c] # "posted"
            /\ \A d \in Caller \ {c} : pc'[d] = pc[d]
        BY <2>4 DEF PostFails, TypeOK
      <4>2. Unrecorded' = Unrecorded
        BY <4>1 DEF Unrecorded
      <4> QED
        BY <2>4, <3>1, <4>2 DEF PostFails, WindowInv, WindowLimit
    <3>2. CASE lost' = lost + 1 /\ posts' = Append(posts, now)
      BY <2>4, <3>2, PostKeepsWindow DEF PostFails
    <3> QED
      BY <2>4, <3>1, <3>2 DEF PostFails
  <2>5. CASE Record(c)
    <3>1. Unrecorded = 1
      BY <2>5, Zenon DEF Record, Unrecorded
    <3>2. Unrecorded' \in Nat
      BY DEF Unrecorded
    <3>3. ASSUME MaxPosts > 0, NEW u \in (now - Window) .. now
          PROVE  Cardinality(Since(posts, u))
                   <= Cardinality(Since(times', u)) + lost + Unrecorded'
      <4>1. u \in Int /\ u >= now - Window /\ now >= u
        BY <1>0
      <4>2. times' = Append(Prune(times), now)
        BY <2>5, <3>3 DEF Record
      <4>3. Cardinality(Since(times', u)) = Cardinality(Since(Prune(times), u)) + 1
        BY <1>0, <4>1, <4>2, AppendCounts
      <4>4. Cardinality(Since(times, u)) <= Cardinality(Since(Prune(times), u))
        BY <1>0, <4>1, PruneKeeps
      <4>5. /\ Cardinality(Since(times, u)) \in Nat
            /\ Cardinality(Since(Prune(times), u)) \in Nat
            /\ Cardinality(Since(posts, u)) \in Nat
        BY <1>0, <4>1, SinceFinite
      <4>6. Cardinality(Since(posts, u)) <= Cardinality(Since(times, u)) + lost + Unrecorded
        BY <3>3 DEF WindowInv
      <4>7. lost \in Nat
        BY <1>0
      <4> QED
        BY ONLY <3>1, <3>2, <4>3, <4>4, <4>5, <4>6, <4>7
    <3> QED
      BY <2>5, <3>3 DEF Record, WindowInv, WindowLimit
  <2> QED
    BY <1>3, <2>1, <2>2, <2>3, <2>4, <2>5
<1> QED
  BY <1>1, <1>2, <1>3 DEF Next

\* Whatever the pods' goroutines do, and however long each reply takes between
\* its look-up and its post, no window of the channel holds more of the pod's
\* messages than the limit and the unreported ones.
THEOREM NoWindowOverfull == Spec => []WindowLimit
<1>1. Init => WindowInv
  <2> SUFFICES ASSUME Init PROVE WindowInv
    OBVIOUS
  <2>1. posts = <<>> /\ times = <<>> /\ lost = 0 /\ now = 0
    BY DEF Init
  <2>2. Unrecorded = 0
    BY Zenon DEF Init, Unrecorded
  <2>3. \A u : Since(<<>>, u) = {}
    BY DEF Since
  <2>4. Cardinality({}) = 0
    BY FS_EmptySet
  <2>5. \A t : {i \in DOMAIN posts : posts[i] \in (t - Window) .. t} = {}
    BY <2>1
  <2>6. \A u : Cardinality(Since(posts, u)) = 0 /\ Cardinality(Since(times, u)) = 0
    BY <2>1, <2>3, <2>4, Zenon
  <2>7. \A t : Cardinality({i \in DOMAIN posts : posts[i] \in (t - Window) .. t}) = 0
    BY <2>4, <2>5, Zenon
  <2>8. MaxPosts > 0 => \A t \in 0 .. now :
          Cardinality({i \in DOMAIN posts : posts[i] \in (t - Window) .. t}) <= MaxPosts + lost
    <3>1. 0 <= MaxPosts + lost
      BY <2>1
    <3> QED
      BY <2>7, <3>1, Zenon
  <2>9. \A i \in DOMAIN posts : posts[i] <= now
    BY <2>1
  <2> QED
    BY <2>1, <2>2, <2>6, <2>8, <2>9 DEF WindowInv, WindowLimit
<1>2. Init => TypeOK /\ GateInv
  BY DEF Init, TypeOK, GateInv
<1>3. TypeOK /\ GateInv /\ WindowInv /\ [Next]_vars => TypeOK' /\ GateInv' /\ WindowInv'
  BY TypeStep, GateStep, WindowStep
<1>4. WindowInv => WindowLimit
  BY DEF WindowInv
<1> QED
  BY <1>1, <1>2, <1>3, <1>4, PTL DEF Spec
=============================================================================
