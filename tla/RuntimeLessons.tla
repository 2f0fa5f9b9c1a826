--------------------------- MODULE RuntimeLessons ---------------------------
(***************************************************************************)
(* The active lessons of one employee, a list in one Redis key that every  *)
(* pod of the employee loads, changes and saves as a whole.                *)
(*                                                                         *)
(* There are three lessons, and each has one confidence: 1 is the most     *)
(* certain.  So the sorted list is a function from lessons to the time of  *)
(* their last update, 0 for a lesson that is not in it.                    *)
(***************************************************************************)
EXTENDS Integers, FiniteSets

Lesson == 1 .. 3

VARIABLES
  stored,   \* the list in Redis
  expiry,   \* when the key expires, 0 without a key
  now

lessonVars == <<stored, expiry, now>>

NoLessons == [l \in Lesson |-> 0]

\* filterExpired
Fresh(list, ttl) == [l \in Lesson |-> IF list[l] > now - ttl THEN list[l] ELSE 0]

Better(list, l) == {k \in 1 .. l - 1 : list[k] # 0}

\* The first lessons of the sorted list.
First(list, max) == [l \in Lesson |-> IF Cardinality(Better(list, l)) < max THEN list[l] ELSE 0]

\* upsertLesson
Upsert(list, lesson, max) == First([list EXCEPT ![lesson] = now], max)

\* PromptPrefix: the lessons that prompts show.
Shown(max, ttl) ==
  LET list == First(Fresh(stored, ttl), max) IN {l \in Lesson : list[l] # 0}

\* SaveActive
SaveList(list, ttl) == stored' = list /\ expiry' = now + ttl

\* Time passes; Redis drops the key when its time is over.
Tick(horizon) ==
  /\ now < horizon
  /\ now' = now + 1
  /\ IF expiry = now + 1 THEN stored' = NoLessons /\ expiry' = 0
     ELSE UNCHANGED <<stored, expiry>>
=============================================================================
