--------------------------- MODULE MonitorsProofs ---------------------------
(***************************************************************************)
(* Theorems about the objects that threads share through a mutex and       *)
(* condition variables, for any number of threads and calls: one           *)
(* notify_one() per change is enough for Semaphore, BoundedBlockingQueue   *)
(* and BlockingQueue.                                                      *)
(***************************************************************************)
EXTENDS Semaphore, BoundedBlockingQueue, FiniteSetTheorems, TLAPS

-----------------------------------------------------------------------------
(* Sets of threads.                                                        *)

\* notify_one() wakes one thread if there is one, and nobody else.
LEMMA NotifiedOne ==
    ASSUME NEW waiting, NEW after \in NotifyOne(waiting)
    PROVE  \/ waiting = {} /\ after = {}
           \/ \E t \in waiting : after = waiting \ {t}
BY DEF NotifyOne

\* Counting threads one by one.
LEMMA CountUp ==
    ASSUME NEW A, IsFiniteSet(A), NEW x, x \notin A
    PROVE  Cardinality(A \cup {x}) = Cardinality(A) + 1
BY FS_AddElement

\* A thread that leaves makes one less.
LEMMA CountDownBy ==
    ASSUME NEW A, IsFiniteSet(A), NEW x, x \in A
    PROVE  Cardinality(A \ {x}) = Cardinality(A) - 1
BY FS_RemoveElement

\* A larger set of threads counts no less.
LEMMA CountMore ==
    ASSUME NEW A, NEW B, IsFiniteSet(B), A \subseteq B
    PROVE  /\ Cardinality(A) <= Cardinality(B)
           /\ Cardinality(A) \in Nat /\ Cardinality(B) \in Nat
BY FS_Subset, FS_CardinalityType

-----------------------------------------------------------------------------
(* Semaphore.                                                              *)

\* Whoever is on the condition variable has blocked.
SemaphoreTypeOK ==
    /\ count_ \in Nat
    /\ cv_ \subseteq {t \in Waiters : blocked[t] # "none"}
    /\ blocked \in [Waiters -> {"none", "wait", "timed"}]
    /\ swallowed \in BOOLEAN

\* Each step keeps the types.
LEMMA SemaphoreTypeStep ==
    SemaphoreTypeOK /\ [SemaphoreNext]_semaphoreVars => SemaphoreTypeOK'
<1> SUFFICES ASSUME SemaphoreTypeOK, [SemaphoreNext]_semaphoreVars
             PROVE  SemaphoreTypeOK'
  OBVIOUS
<1> USE DEF SemaphoreTypeOK
<1>1. ASSUME NEW t \in Waiters, Notify(t) PROVE SemaphoreTypeOK'
  <2>1. cv_' \subseteq cv_
    BY <1>1, NotifiedOne DEF Notify
  <2> QED
    BY <1>1, <2>1 DEF Notify
<1>2. ASSUME NEW t \in Waiters, TryWait(t) PROVE SemaphoreTypeOK'
  BY <1>2 DEF TryWait
<1>3. ASSUME NEW t \in Waiters, NEW fn \in {"wait", "timed"}, Wait(t, fn)
      PROVE  SemaphoreTypeOK'
  <2>1. CASE count_ = 0
    BY <1>3, <2>1 DEF Wait
  <2>2. CASE count_ # 0
    BY <1>3, <2>2 DEF Wait
  <2> QED
    BY <2>1, <2>2
<1>4. ASSUME NEW t \in Waiters, WaitReturns(t) PROVE SemaphoreTypeOK'
  <2>1. CASE count_ = 0
    BY <1>4, <2>1 DEF WaitReturns, Woken
  <2>2. CASE count_ # 0
    BY <1>4, <2>2 DEF WaitReturns, Woken
  <2> QED
    BY <2>1, <2>2
<1>5. ASSUME NEW t \in Waiters, TimesOut(t) PROVE SemaphoreTypeOK'
  BY <1>5 DEF TimesOut
<1>6. ASSUME NEW t \in Waiters, WaitSpurious(t) PROVE SemaphoreTypeOK'
  BY <1>6 DEF WaitSpurious
<1>7. CASE UNCHANGED semaphoreVars
  BY <1>7 DEF semaphoreVars
<1> QED
  BY <1>1, <1>2, <1>3, <1>4, <1>5, <1>6, <1>7 DEF SemaphoreNext

\* Each step keeps as many threads awake as there is to take.
LEMMA SemaphoreStep ==
    SemaphoreTypeOK /\ NotifyWakesEnough /\ [SemaphoreNext]_semaphoreVars
        => NotifyWakesEnough'
<1> SUFFICES ASSUME SemaphoreTypeOK, NotifyWakesEnough,
                    [SemaphoreNext]_semaphoreVars,
                    cv_' # {}, ~swallowed'
             PROVE  Cardinality(Woken') >= count_'
  BY DEF NotifyWakesEnough
<1>0. /\ IsFiniteSet(Woken) /\ IsFiniteSet(Woken')
      /\ Cardinality(Woken) \in Nat /\ Cardinality(Woken') \in Nat
      /\ count_ \in Nat /\ blocked \in [Waiters -> {"none", "wait", "timed"}]
      /\ cv_ \subseteq {t \in Waiters : blocked[t] # "none"}
  BY SemaphoreAssumption, FS_Subset, FS_CardinalityType DEF Woken, SemaphoreTypeOK
\* A step that takes nothing off the woken threads and adds nothing to the
\* count.
<1>a. ASSUME count_' <= count_, count_' \in Nat, Woken \subseteq Woken',
             cv_ # {}, ~swallowed
      PROVE  Cardinality(Woken') >= count_'
  BY <1>0, <1>a, CountMore DEF NotifyWakesEnough
\* An empty semaphore.
<1>b. ASSUME count_' = 0 PROVE Cardinality(Woken') >= count_'
  BY <1>0, <1>b
<1>1. ASSUME NEW t \in Waiters, Notify(t) PROVE Cardinality(Woken') >= count_'
  <2>1. count_' = count_ + 1 /\ blocked' = blocked /\ swallowed' = swallowed
    BY <1>1 DEF Notify
  <2>2. PICK u \in cv_ : cv_' = cv_ \ {u}
    BY <1>1, NotifiedOne DEF Notify
  <2>3. Woken' = Woken \cup {u} /\ u \notin Woken
    BY <1>0, <2>1, <2>2 DEF Woken
  <2>4. Cardinality(Woken) >= count_
    BY <2>1, <2>2 DEF NotifyWakesEnough
  <2>5. Cardinality(Woken') = Cardinality(Woken) + 1
    BY <1>0, <2>3, CountUp
  <2> QED
    BY <1>0, <2>1, <2>4, <2>5
<1>2. ASSUME NEW t \in Waiters, TryWait(t) PROVE Cardinality(Woken') >= count_'
  BY <1>0, <1>2, <1>a DEF TryWait, Woken
<1>3. ASSUME NEW t \in Waiters, NEW fn \in {"wait", "timed"}, Wait(t, fn)
      PROVE  Cardinality(Woken') >= count_'
  <2>1. CASE count_ = 0
    BY <1>3, <2>1, <1>b DEF Wait
  <2>2. CASE count_ # 0
    BY <1>0, <1>3, <2>2, <1>a DEF Wait, Woken
  <2> QED
    BY <2>1, <2>2
<1>4. ASSUME NEW t \in Waiters, WaitReturns(t)
      PROVE  Cardinality(Woken') >= count_'
  <2>1. CASE count_ = 0
    BY <1>4, <2>1, <1>b DEF WaitReturns
  <2>2. CASE count_ # 0
    <3>1. /\ t \in Woken /\ count_' = count_ - 1 /\ cv_' = cv_
          /\ swallowed' = swallowed
          /\ blocked' = [blocked EXCEPT ![t] = "none"]
      BY <1>4, <2>2 DEF WaitReturns
    <3>2. Woken' = Woken \ {t}
      BY <1>0, <3>1 DEF Woken
    <3>3. Cardinality(Woken') = Cardinality(Woken) - 1
      BY <1>0, <3>1, <3>2, CountDownBy
    <3>4. Cardinality(Woken) >= count_
      BY <3>1 DEF NotifyWakesEnough
    <3> QED
      BY <1>0, <3>1, <3>3, <3>4
  <2> QED
    BY <2>1, <2>2
\* A thread that was woken gives up only when there is nothing to take.
<1>5. ASSUME NEW t \in Waiters, TimesOut(t) PROVE Cardinality(Woken') >= count_'
  <2>1. /\ blocked' = [blocked EXCEPT ![t] = "none"] /\ cv_' = cv_ \ {t}
        /\ count_' = count_ /\ cv_ # {} /\ ~swallowed
        /\ t \in cv_ \/ count_ = 0
    <3>1. /\ swallowed' = (swallowed \/ (t \notin cv_ /\ count_ > 0))
          /\ blocked' = [blocked EXCEPT ![t] = "none"] /\ cv_' = cv_ \ {t}
          /\ count_' = count_
      BY <1>5 DEF TimesOut
    <3>2. ~swallowed /\ ~(t \notin cv_ /\ count_ > 0)
      BY <3>1
    <3> QED
      BY <1>0, <3>1, <3>2
  <2>2. CASE t \in cv_
    <3>1. Woken \subseteq Woken'
      BY <1>0, <2>1, <2>2 DEF Woken
    <3> QED
      BY <1>0, <2>1, <3>1, <1>a
  <2> QED
    BY <2>1, <2>2, <1>b
<1>6. ASSUME NEW t \in Waiters, WaitSpurious(t)
      PROVE  Cardinality(Woken') >= count_'
  BY <1>0, <1>6, <1>a DEF WaitSpurious, Woken
<1>7. CASE UNCHANGED semaphoreVars
  BY <1>0, <1>7, <1>a DEF semaphoreVars, Woken
<1> QED
  BY <1>1, <1>2, <1>3, <1>4, <1>5, <1>6, <1>7 DEF SemaphoreNext

\* For any number of threads and any count: a thread sleeps with a positive
\* count only if as many others are awake for it, until a wait that was woken
\* reports a timeout.
THEOREM OneNotifyIsEnough == SemaphoreSpec => []NotifyWakesEnough
<1>1. SemaphoreInit => SemaphoreTypeOK /\ NotifyWakesEnough
  BY SemaphoreAssumption DEF SemaphoreInit, SemaphoreTypeOK, NotifyWakesEnough
<1>2. SemaphoreTypeOK /\ NotifyWakesEnough /\ [SemaphoreNext]_semaphoreVars
          => (SemaphoreTypeOK /\ NotifyWakesEnough)'
  BY SemaphoreTypeStep, SemaphoreStep
<1> QED
  BY <1>1, <1>2, PTL DEF SemaphoreSpec

-----------------------------------------------------------------------------
(* BoundedBlockingQueue, and BlockingQueue.                                *)

\* Who waits for values is in take(), who waits for room in put().
QueueTypeOK ==
    /\ capacity_ \in Nat
    /\ queue_ \in Nat
    /\ call \in [Threads -> {"none", "put", "take"}]
    /\ cvnotempty_ \subseteq {t \in Threads : call[t] = "take"}
    /\ cvnotfull_ \subseteq {t \in Threads : call[t] = "put"}

\* Each step keeps the types.
LEMMA QueueTypeStep == QueueTypeOK /\ [QueueNext]_queueVars => QueueTypeOK'
<1> SUFFICES ASSUME QueueTypeOK, [QueueNext]_queueVars PROVE QueueTypeOK'
  OBVIOUS
<1> USE DEF QueueTypeOK
<1>1. ASSUME NEW t \in Threads, CallPut(t) \/ CallTake(t) PROVE QueueTypeOK'
  BY <1>1 DEF CallPut, CallTake
<1>2. ASSUME NEW t \in Threads, PutWaits(t) \/ TakeWaits(t) PROVE QueueTypeOK'
  BY <1>2 DEF PutWaits, TakeWaits, Running
<1>3. ASSUME NEW t \in Threads, Put(t) PROVE QueueTypeOK'
  <2>1. cvnotempty_' \subseteq cvnotempty_
    BY <1>3, NotifiedOne DEF Put
  <2> QED
    BY <1>3, <2>1 DEF Put, Running, Waiting
<1>4. ASSUME NEW t \in Threads, Take(t) PROVE QueueTypeOK'
  <2>1. cvnotfull_' \subseteq cvnotfull_
    BY <1>4, NotifiedOne DEF Take
  <2> QED
    BY <1>4, <2>1 DEF Take, Running, Waiting
<1>5. ASSUME NEW t \in Threads, QueueSpurious(t) PROVE QueueTypeOK'
  BY <1>5 DEF QueueSpurious
<1>6. CASE UNCHANGED queueVars
  BY <1>6 DEF queueVars
<1> QED
  BY <1>1, <1>2, <1>3, <1>4, <1>5, <1>6 DEF QueueNext, Step

\* Those on their way to a value, and those on their way to a place.
TakersEnough == cvnotempty_ # {} => Cardinality(Running("take")) >= queue_
PuttersEnough ==
    cvnotfull_ # {} => Cardinality(Running("put")) >= capacity_ - queue_

\* Each step keeps enough takers awake.
LEMMA TakersStep ==
    QueueTypeOK /\ TakersEnough /\ [QueueNext]_queueVars => TakersEnough'
<1> SUFFICES ASSUME QueueTypeOK, TakersEnough, [QueueNext]_queueVars,
                    cvnotempty_' # {}
             PROVE  Cardinality(Running("take")') >= queue_'
  BY DEF TakersEnough
<1> DEFINE R == Running("take")
<1>0. /\ IsFiniteSet(R) /\ IsFiniteSet(R')
      /\ Cardinality(R) \in Nat /\ Cardinality(R') \in Nat
  BY QueueAssumption, FS_Subset, FS_CardinalityType DEF Running
<1>1. /\ queue_ \in Nat /\ call \in [Threads -> {"none", "put", "take"}]
      /\ cvnotempty_ \subseteq {t \in Threads : call[t] = "take"}
      /\ cvnotfull_ \subseteq {t \in Threads : call[t] = "put"}
  BY DEF QueueTypeOK
<1>a. ASSUME queue_' = queue_, R \subseteq R', cvnotempty_ # {}
      PROVE  Cardinality(R') >= queue_'
  BY <1>0, <1>1, <1>a, CountMore DEF TakersEnough
<1>2. ASSUME NEW t \in Threads, CallPut(t) \/ CallTake(t)
      PROVE  Cardinality(R') >= queue_'
  <2>1. R \subseteq R'
    BY <1>1, <1>2 DEF CallPut, CallTake, Running, Waiting
  <2> QED
    BY <1>2, <2>1, <1>a DEF CallPut, CallTake
<1>3. ASSUME NEW t \in Threads, PutWaits(t) PROVE Cardinality(R') >= queue_'
  <2>1. R \subseteq R'
    BY <1>1, <1>3 DEF PutWaits, Running, Waiting
  <2> QED
    BY <1>3, <2>1, <1>a DEF PutWaits
<1>4. ASSUME NEW t \in Threads, Put(t) PROVE Cardinality(R') >= queue_'
  <2>1. PICK u \in cvnotempty_ : cvnotempty_' = cvnotempty_ \ {u}
    BY <1>4, NotifiedOne DEF Put
  <2>2. R' = R \cup {u} /\ u \notin R
    BY <1>1, <1>4, <2>1 DEF Put, Running, Waiting
  <2>3. Cardinality(R') = Cardinality(R) + 1
    BY <1>0, <2>2, CountUp
  <2>4. Cardinality(R) >= queue_ /\ queue_' = queue_ + 1
    BY <1>4, <2>1 DEF TakersEnough, Put
  <2> QED
    BY <1>0, <1>1, <2>3, <2>4
<1>5. ASSUME NEW t \in Threads, TakeWaits(t) PROVE Cardinality(R') >= queue_'
  BY <1>0, <1>5 DEF TakeWaits
<1>6. ASSUME NEW t \in Threads, Take(t) PROVE Cardinality(R') >= queue_'
  <2>1. cvnotfull_' \subseteq cvnotfull_
    BY <1>6, NotifiedOne DEF Take
  <2>2. R' = R \ {t} /\ t \in R
    BY <1>1, <1>6, <2>1 DEF Take, Running, Waiting
  <2>3. Cardinality(R') = Cardinality(R) - 1
    BY <1>0, <2>2, CountDownBy
  <2>4. Cardinality(R) >= queue_ /\ queue_' = queue_ - 1
    BY <1>6 DEF TakersEnough, Take
  <2> QED
    BY <1>0, <1>1, <2>3, <2>4
<1>7. ASSUME NEW t \in Threads, QueueSpurious(t)
      PROVE  Cardinality(R') >= queue_'
  <2>1. R \subseteq R'
    BY <1>1, <1>7 DEF QueueSpurious, Running, Waiting
  <2> QED
    BY <1>7, <2>1, <1>a DEF QueueSpurious
<1>8. CASE UNCHANGED queueVars
  BY <1>8, <1>a DEF queueVars, Running, Waiting
<1> QED
  BY <1>2, <1>3, <1>4, <1>5, <1>6, <1>7, <1>8 DEF QueueNext, Step

\* Each step keeps enough putters awake.
LEMMA PuttersStep ==
    QueueTypeOK /\ PuttersEnough /\ [QueueNext]_queueVars => PuttersEnough'
<1> SUFFICES ASSUME QueueTypeOK, PuttersEnough, [QueueNext]_queueVars,
                    cvnotfull_' # {}
             PROVE  Cardinality(Running("put")') >= capacity_' - queue_'
  BY DEF PuttersEnough
<1> DEFINE R == Running("put")
<1>0. /\ IsFiniteSet(R) /\ IsFiniteSet(R')
      /\ Cardinality(R) \in Nat /\ Cardinality(R') \in Nat
  BY QueueAssumption, FS_Subset, FS_CardinalityType DEF Running
<1>1. /\ queue_ \in Nat /\ capacity_ \in Nat
      /\ call \in [Threads -> {"none", "put", "take"}]
      /\ cvnotempty_ \subseteq {t \in Threads : call[t] = "take"}
      /\ cvnotfull_ \subseteq {t \in Threads : call[t] = "put"}
  BY DEF QueueTypeOK
<1>a. ASSUME queue_' = queue_, capacity_' = capacity_, R \subseteq R',
             cvnotfull_ # {}
      PROVE  Cardinality(R') >= capacity_' - queue_'
  BY <1>0, <1>1, <1>a, CountMore DEF PuttersEnough
<1>2. ASSUME NEW t \in Threads, CallPut(t) \/ CallTake(t)
      PROVE  Cardinality(R') >= capacity_' - queue_'
  <2>1. R \subseteq R'
    BY <1>1, <1>2 DEF CallPut, CallTake, Running, Waiting
  <2> QED
    BY <1>2, <2>1, <1>a DEF CallPut, CallTake
<1>3. ASSUME NEW t \in Threads, PutWaits(t)
      PROVE  Cardinality(R') >= capacity_' - queue_'
  BY <1>0, <1>1, <1>3 DEF PutWaits, Full
<1>4. ASSUME NEW t \in Threads, Put(t)
      PROVE  Cardinality(R') >= capacity_' - queue_'
  <2>1. cvnotempty_' \subseteq cvnotempty_
    BY <1>4, NotifiedOne DEF Put
  <2>2. R' = R \ {t} /\ t \in R
    BY <1>1, <1>4, <2>1 DEF Put, Running, Waiting
  <2>3. Cardinality(R') = Cardinality(R) - 1
    BY <1>0, <2>2, CountDownBy
  <2>4. Cardinality(R) >= capacity_ - queue_ /\ queue_' = queue_ + 1
        /\ capacity_' = capacity_
    BY <1>4 DEF PuttersEnough, Put
  <2> QED
    BY <1>0, <1>1, <2>3, <2>4
<1>5. ASSUME NEW t \in Threads, TakeWaits(t)
      PROVE  Cardinality(R') >= capacity_' - queue_'
  <2>1. R \subseteq R'
    BY <1>1, <1>5 DEF TakeWaits, Running, Waiting
  <2> QED
    BY <1>5, <2>1, <1>a DEF TakeWaits
<1>6. ASSUME NEW t \in Threads, Take(t)
      PROVE  Cardinality(R') >= capacity_' - queue_'
  <2>1. PICK u \in cvnotfull_ : cvnotfull_' = cvnotfull_ \ {u}
    BY <1>6, NotifiedOne DEF Take
  <2>2. R' = R \cup {u} /\ u \notin R
    BY <1>1, <1>6, <2>1 DEF Take, Running, Waiting
  <2>3. Cardinality(R') = Cardinality(R) + 1
    BY <1>0, <2>2, CountUp
  <2>4. Cardinality(R) >= capacity_ - queue_ /\ queue_' = queue_ - 1
        /\ capacity_' = capacity_
    BY <1>6, <2>1 DEF PuttersEnough, Take
  <2> QED
    BY <1>0, <1>1, <2>3, <2>4
<1>7. ASSUME NEW t \in Threads, QueueSpurious(t)
      PROVE  Cardinality(R') >= capacity_' - queue_'
  <2>1. R \subseteq R'
    BY <1>1, <1>7 DEF QueueSpurious, Running, Waiting
  <2> QED
    BY <1>7, <2>1, <1>a DEF QueueSpurious
<1>8. CASE UNCHANGED queueVars
  BY <1>8, <1>a DEF queueVars, Running, Waiting
<1> QED
  BY <1>2, <1>3, <1>4, <1>5, <1>6, <1>7, <1>8 DEF QueueNext, Step

\* For any number of threads and any capacity: whoever sleeps with values to
\* take, or with room to put, has as many threads awake before it.
THEOREM NobodyIsForgotten == QueueSpec => []NobodyForgotten
<1>1. QueueInit => QueueTypeOK /\ TakersEnough /\ PuttersEnough
  BY QueueAssumption
  DEF QueueInit, QueueTypeOK, TakersEnough, PuttersEnough, Unbounded
<1>2. QueueTypeOK /\ TakersEnough /\ PuttersEnough /\ [QueueNext]_queueVars
          => (QueueTypeOK /\ TakersEnough /\ PuttersEnough)'
  BY QueueTypeStep, TakersStep, PuttersStep
<1>3. TakersEnough /\ PuttersEnough => NobodyForgotten
  BY DEF TakersEnough, PuttersEnough, NobodyForgotten
<1> QED
  BY <1>1, <1>2, <1>3, PTL DEF QueueSpec
=============================================================================
