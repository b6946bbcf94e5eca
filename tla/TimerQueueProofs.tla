-------------------------- MODULE TimerQueueProofs --------------------------
(***************************************************************************)
(* Theorems about TimerQueue for any set of timers, times and intervals:   *)
(* type correctness, entries filed under their expiration, cancellations   *)
(* that stick, and a timerfd armed in time.                                *)
(***************************************************************************)
EXTENDS TimerQueue, SequenceTheorems, TLAPS

-----------------------------------------------------------------------------
(* Type correctness.                                                       *)

\* What resetTimer() may leave in the timerfd, whatever the garbage.
LEMMA ResetTimerType ==
    ASSUME TypeOK, NEW time \in Nat, ResetTimer(time)
    PROVE  armed' \in Nat /\ periodic' \in BOOLEAN /\ readable' \in BOOLEAN
BY DEF TypeOK, ResetTimer, fdVars

\* A queue of calls about known timers stays one when more become known.
LEMMA RequestsMonotonic ==
    ASSUME NEW A, NEW B, A \subseteq B,
           NEW s \in Seq({"add", "cancel"} \X A)
    PROVE  s \in Seq({"add", "cancel"} \X B)
<1>1. {"add", "cancel"} \X A \subseteq {"add", "cancel"} \X B
  OBVIOUS
<1> QED
  BY <1>1, SeqMonotonic

\* Every step keeps the types.
LEMMA TypeInvariance == TypeOK /\ [Next]_vars => TypeOK'
<1> SUFFICES ASSUME TypeOK, [Next]_vars PROVE TypeOK'
  OBVIOUS
<1> USE TimesAssumption, IntervalsAssumption DEF TypeOK
<1>1. ASSUME NEW t \in Timers, NEW time \in Times, NEW interval \in Intervals,
             AddTimer(t, time, interval)
      PROVE  TypeOK'
  <2>1. armed' \in Nat /\ periodic' \in BOOLEAN /\ readable' \in BOOLEAN
    BY <1>1, ResetTimerType DEF AddTimer, AddTimerInLoop, fdVars
  <2>2. requests' \in Seq({"add", "cancel"} \X created')
    BY <1>1, RequestsMonotonic DEF AddTimer
  <2>3. timers_' \subseteq (Nat \ {0}) \X created'
    BY <1>1 DEF AddTimer, AddTimerInLoop
  <2> QED
    BY <1>1, <2>1, <2>2, <2>3 DEF AddTimer, AddTimerInLoop
<1>2. ASSUME NEW t \in Timers, NEW time \in Times, NEW interval \in Intervals,
             AddTimerRemote(t, time, interval)
      PROVE  TypeOK'
  <2>1. requests \in Seq({"add", "cancel"} \X created')
    BY <1>2, RequestsMonotonic DEF AddTimerRemote
  <2>2. <<"add", t>> \in {"add", "cancel"} \X created'
    BY <1>2 DEF AddTimerRemote
  <2>3. requests' \in Seq({"add", "cancel"} \X created')
    BY <1>2, <2>1, <2>2, AppendProperties DEF AddTimerRemote
  <2> QED
    BY <1>2, <2>3 DEF AddTimerRemote, fdVars
<1>3. ASSUME NEW t \in Timers, Cancel(t) PROVE TypeOK'
  BY <1>3 DEF Cancel, CancelInLoop, fdVars
<1>4. ASSUME NEW t \in Timers, CancelRemote(t) PROVE TypeOK'
  <2>1. requests' \in Seq({"add", "cancel"} \X created')
    BY <1>4, AppendProperties DEF CancelRemote, histVars
  <2> QED
    BY <1>4, <2>1 DEF CancelRemote, histVars, queueVars, fdVars
<1>5. CASE RunRequest
  <2> DEFINE op == Head(requests)[1]
             t == Head(requests)[2]
  <2>1. /\ Head(requests) \in {"add", "cancel"} \X created
        /\ requests' \in Seq({"add", "cancel"} \X created)
    BY <1>5, HeadTailProperties DEF RunRequest
  <2>2. t \in created /\ t \in Timers
    BY <2>1
  <2> HIDE DEF t
  <2>3. CASE /\ AddTimerInLoop(t, expiration_[t])
             /\ UNCHANGED <<expiration_, cancelled>>
    <3>1. armed' \in Nat /\ periodic' \in BOOLEAN /\ readable' \in BOOLEAN
      BY <2>2, <2>3, ResetTimerType DEF AddTimerInLoop, IsFirst, fdVars
    <3> QED
      BY <1>5, <2>1, <2>2, <2>3, <3>1 DEF RunRequest, AddTimerInLoop
  <2>4. CASE CancelInLoop(t) /\ UNCHANGED <<fdVars, added>>
    BY <1>5, <2>1, <2>2, <2>4 DEF RunRequest, CancelInLoop, fdVars
  <2> QED
    BY <1>5, <2>3, <2>4 DEF RunRequest, t
<1>6. CASE PollReports \/ HandleRead
  BY <1>6 DEF PollReports, HandleRead, queueVars, fdVars, histVars
<1>7. CASE ExtractExpired
  BY <1>7 DEF ExtractExpired, histVars
<1>8. ASSUME NEW t \in Timers, RunTimer(t) PROVE TypeOK'
  BY <1>8 DEF RunTimer, fdVars
<1>9. CASE TimerReturns
  BY <1>9 DEF TimerReturns, queueVars, fdVars, histVars
<1>10. CASE FinishBatch
  <2>1. expiration_' \in [Timers -> Nat \ {0}]
    BY <1>10 DEF FinishBatch, Reinserted, Rearm, Restarted
  <2>2. timers_' \subseteq (Nat \ {0}) \X created
    BY <1>10, <2>1 DEF FinishBatch, Reinserted, Rearm, Restarted
  <2>3. armed' \in Nat /\ periodic' \in BOOLEAN /\ readable' \in BOOLEAN
    BY <1>10, <2>2, ResetTimerType DEF FinishBatch, Reinserted, Rearm
  <2> QED
    BY <1>10, <2>1, <2>2, <2>3 DEF FinishBatch, Reinserted, Rearm, histVars
<1>11. CASE TimerfdExpires
  <2>1. armed' \in {now + 1, 0} /\ readable' = TRUE
    BY <1>11, Zenon DEF TimerfdExpires
  <2>2. armed' \in Nat
    BY <2>1
  <2> QED
    BY <1>11, <2>1, <2>2 DEF TimerfdExpires, queueVars, histVars
<1>12. CASE Tick
  BY <1>12 DEF Tick, queueVars, fdVars, histVars
<1>13. CASE UNCHANGED vars
  BY <1>13 DEF vars, queueVars, fdVars, histVars
<1> QED
  BY <1>1, <1>2, <1>3, <1>4, <1>5, <1>6, <1>7, <1>8, <1>9, <1>10, <1>11,
     <1>12, <1>13 DEF Next, UserCall, LoopStep

\* The types hold initially.
LEMMA TypeInit == Init => TypeOK
<1> SUFFICES ASSUME Init PROVE TypeOK
  OBVIOUS
<1>1. requests \in Seq({"add", "cancel"} \X created)
  BY EmptySeq DEF Init
<1>2. /\ expiration_ \in [Timers -> Nat \ {0}]
      /\ interval_ \in [Timers -> Nat]
      /\ timers_ \subseteq (Nat \ {0}) \X created
  BY DEF Init
<1> QED
  BY <1>1, <1>2 DEF Init, TypeOK

\* TypeOK is an invariant of the timer queue.
THEOREM TypeCorrect == Spec => []TypeOK
BY TypeInit, TypeInvariance, PTL DEF Spec

-----------------------------------------------------------------------------
(* Entries are filed under their timer's expiration.                       *)

\* The inductive form of KeysMatch: restart() may change the expiration of
\* the timers of a batch because the multimap no longer holds them.
KeysInv ==
    /\ KeysMatch
    /\ pc \in {"idle", "read"} => expired = {}
    /\ \A entry \in timers_ : entry[2] \notin expired

\* Every step preserves it.
LEMMA KeysInvariance == TypeOK /\ KeysInv /\ [Next]_vars => KeysInv'
<1> SUFFICES ASSUME TypeOK, KeysInv, [Next]_vars PROVE KeysInv'
  OBVIOUS
<1> USE DEF KeysInv, KeysMatch
<1>0. /\ timers_ \subseteq (Nat \ {0}) \X created
      /\ expiration_ \in [Timers -> Nat \ {0}]
      /\ expired \subseteq created /\ created \subseteq Timers
      /\ pc \in {"idle", "read", "batch", "cb"}
  BY DEF TypeOK
<1>1. ASSUME NEW t \in Timers, NEW time \in Times, NEW interval \in Intervals,
             AddTimer(t, time, interval)
      PROVE  KeysInv'
  <2>1. \A u \in created : expiration_'[u] = expiration_[u]
    BY <1>0, <1>1 DEF AddTimer
  <2>2. expiration_'[t] = time /\ t \notin created
    BY <1>0, <1>1 DEF AddTimer
  <2>3. timers_' = timers_ \cup {<<time, t>>} /\ expired' = expired /\ pc' = pc
    BY <1>1 DEF AddTimer, AddTimerInLoop
  <2> QED
    BY <1>0, <2>1, <2>2, <2>3
<1>2. ASSUME NEW t \in Timers, NEW time \in Times, NEW interval \in Intervals,
             AddTimerRemote(t, time, interval)
      PROVE  KeysInv'
  <2>1. \A u \in created : expiration_'[u] = expiration_[u]
    BY <1>0, <1>2 DEF AddTimerRemote
  <2> QED
    BY <1>0, <1>2, <2>1 DEF AddTimerRemote
<1>3. ASSUME NEW t \in Timers, CancelInLoop(t), pc' = pc PROVE KeysInv'
  BY <1>3 DEF CancelInLoop
<1>4. ASSUME NEW t \in Timers, Cancel(t) PROVE KeysInv'
  BY <1>3, <1>4 DEF Cancel
<1>5. ASSUME NEW t \in Timers, CancelRemote(t) PROVE KeysInv'
  BY <1>5 DEF CancelRemote, queueVars
<1>6. CASE RunRequest
  <2> DEFINE t == Head(requests)[2]
  <2>1. t \in Timers
    <3>1. Head(requests) \in {"add", "cancel"} \X created
      BY <1>6, HeadTailProperties DEF RunRequest, TypeOK
    <3> QED
      BY <1>0, <3>1
  <2> HIDE DEF t
  <2>2. pc = "idle" /\ pc' = pc
    BY <1>6 DEF RunRequest
  <2>3. CASE AddTimerInLoop(t, expiration_[t]) /\ UNCHANGED expiration_
    BY <2>2, <2>3 DEF AddTimerInLoop, IsFirst
  <2>4. CASE CancelInLoop(t)
    BY <1>3, <2>1, <2>2, <2>4
  <2> QED
    BY <1>6, <2>3, <2>4 DEF RunRequest, t
<1>7. CASE PollReports \/ HandleRead
  BY <1>7 DEF PollReports, HandleRead, queueVars
<1>8. CASE ExtractExpired
  <2> DEFINE due == {entry \in timers_ : entry[1] <= sampled}
  <2>1. /\ timers_' = timers_ \ due
        /\ expired' = {entry[2] : entry \in due}
        /\ expiration_' = expiration_ /\ pc' = "batch"
    BY <1>8 DEF ExtractExpired
  <2>2. ASSUME NEW a \in timers_, NEW b \in timers_, a[2] = b[2]
        PROVE  a = b
    BY <1>0, <2>2
  <2> QED
    BY <2>1, <2>2
<1>9. ASSUME NEW t \in Timers, RunTimer(t) PROVE KeysInv'
  BY <1>9 DEF RunTimer
<1>10. CASE TimerReturns
  BY <1>10 DEF TimerReturns, queueVars
<1>11. CASE FinishBatch
  <2>1. /\ timers_' = timers_ \cup {<<expiration_'[t], t>> : t \in Restarted}
        /\ expired' = {}
    BY <1>11 DEF FinishBatch, Reinserted, Rearm
  <2>2. \A t \in Timers : t \notin expired => expiration_'[t] = expiration_[t]
    BY <1>11 DEF FinishBatch, Reinserted, Rearm, Restarted
  <2> QED
    BY <1>0, <2>1, <2>2
<1>12. CASE TimerfdExpires \/ Tick
  BY <1>12 DEF TimerfdExpires, Tick, queueVars
<1>13. CASE UNCHANGED vars
  BY <1>13 DEF vars, queueVars
<1> QED
  BY <1>1, <1>2, <1>4, <1>5, <1>6, <1>7, <1>8, <1>9, <1>10, <1>11, <1>12,
     <1>13 DEF Next, UserCall, LoopStep

\* An empty multimap satisfies it.
LEMMA KeysInit == Init => KeysInv
BY DEF Init, KeysInv, KeysMatch

\* For any timers and any interleaving of adds, cancels and batches,
\* cancelInLoop() looks a timer up where it is filed.
THEOREM KeysCorrect == Spec => []KeysMatch
<1>1. Init => TypeOK /\ KeysInv
  BY TypeInit, KeysInit
<1>2. TypeOK /\ KeysInv /\ [Next]_vars => (TypeOK /\ KeysInv)'
  BY TypeInvariance, KeysInvariance
<1>3. KeysInv => KeysMatch
  BY DEF KeysInv
<1> QED
  BY <1>1, <1>2, <1>3, PTL DEF Spec

-----------------------------------------------------------------------------
(* The timerfd is armed in time.                                           *)

\* When settime() does not fail, resetTimer() arms for exactly its argument.
LEMMA ResetTimerArms ==
    ASSUME NEW time \in Nat, ResetTimer(time), "invalid" \notin Garbage
    PROVE  armed' = time
BY DEF ResetTimer

\* addTimerInLoop() leaves the timerfd armed in time for the new timer and
\* for all the others.
LEMMA AddKeepsArmed ==
    ASSUME TypeOK, ArmedInTime, "invalid" \notin Garbage,
           NEW t, NEW time \in Nat \ {0}, AddTimerInLoop(t, time), pc' = pc
    PROVE  ArmedInTime'
<1> SUFFICES ASSUME pc = "idle", NEW entry \in timers_'
             PROVE  readable' \/ (armed' # 0 /\ armed' <= entry[1])
  BY DEF ArmedInTime
<1>0. timers_ \subseteq (Nat \ {0}) \X created /\ armed \in Nat
  BY DEF TypeOK
<1>1. entry \in timers_ \/ entry = <<time, t>>
  BY DEF AddTimerInLoop, IsFirst
<1>2. CASE \A e \in timers_ : time < e[1]
  <2>1. armed' = time
    BY <1>2, ResetTimerArms DEF AddTimerInLoop, IsFirst
  <2> QED
    BY <1>0, <1>1, <1>2, <2>1
<1>3. CASE \E e \in timers_ : ~(time < e[1])
  <2>1. PICK e \in timers_ : ~(time < e[1])
    BY <1>3
  <2>2. armed' = armed /\ readable' = readable
    BY <1>3 DEF AddTimerInLoop, IsFirst, fdVars
  <2>3. e[1] <= time
    BY <1>0, <2>1
  <2>4. readable \/ (armed # 0 /\ armed <= e[1])
    BY DEF ArmedInTime
  <2>5. CASE entry \in timers_
    BY <2>2, <2>5 DEF ArmedInTime
  <2>6. CASE entry = <<time, t>>
    <3>1. e[1] \in Nat
      BY <1>0
    <3>2. armed <= e[1] => armed <= time
      BY <1>0, <2>3, <3>1
    <3> QED
      BY <2>2, <2>4, <2>6, <3>2
  <2> QED
    BY <1>1, <2>5, <2>6
<1> QED
  BY <1>2, <1>3

\* Every step preserves ArmedInTime when settime() does not fail.
LEMMA ArmedInvariance ==
    ASSUME "invalid" \notin Garbage
    PROVE  TypeOK /\ ArmedInTime /\ [Next]_vars => ArmedInTime'
<1> SUFFICES ASSUME TypeOK, ArmedInTime, [Next]_vars PROVE ArmedInTime'
  OBVIOUS
<1>0. /\ timers_ \subseteq (Nat \ {0}) \X created
      /\ expiration_ \in [Timers -> Nat \ {0}]
      /\ created \subseteq Timers /\ armed \in Nat
  BY DEF TypeOK
<1>1. ASSUME NEW t \in Timers, NEW time \in Times, NEW interval \in Intervals,
             AddTimer(t, time, interval)
      PROVE  ArmedInTime'
  <2>1. time \in Nat \ {0}
    BY TimesAssumption
  <2> QED
    BY <1>1, <2>1, AddKeepsArmed DEF AddTimer
<1>2. ASSUME NEW t \in Timers, NEW time \in Times, NEW interval \in Intervals,
             AddTimerRemote(t, time, interval)
      PROVE  ArmedInTime'
  BY <1>2 DEF AddTimerRemote, ArmedInTime, fdVars
<1>3. ASSUME NEW t, CancelInLoop(t), UNCHANGED <<fdVars, pc>>
      PROVE  ArmedInTime'
  BY <1>3 DEF CancelInLoop, ArmedInTime, fdVars
<1>4. ASSUME NEW t \in Timers, Cancel(t) \/ CancelRemote(t)
      PROVE  ArmedInTime'
  <2>1. CASE Cancel(t)
    BY <1>3, <2>1 DEF Cancel, fdVars
  <2>2. CASE CancelRemote(t)
    BY <2>2 DEF CancelRemote, ArmedInTime, queueVars, fdVars
  <2> QED
    BY <1>4, <2>1, <2>2
<1>5. CASE RunRequest
  <2> DEFINE t == Head(requests)[2]
  <2>1. expiration_[t] \in Nat \ {0}
    <3>1. Head(requests) \in {"add", "cancel"} \X created
      BY <1>5, HeadTailProperties DEF RunRequest, TypeOK
    <3> QED
      BY <1>0, <3>1
  <2> HIDE DEF t
  <2>2. CASE AddTimerInLoop(t, expiration_[t])
    BY <1>5, <2>1, <2>2, AddKeepsArmed DEF RunRequest
  <2>3. CASE CancelInLoop(t) /\ UNCHANGED <<fdVars, added>>
    BY <1>3, <1>5, <2>3 DEF RunRequest, fdVars
  <2> QED
    BY <1>5, <2>2, <2>3 DEF RunRequest, t
<1>6. CASE PollReports \/ HandleRead \/ ExtractExpired
  BY <1>6 DEF PollReports, HandleRead, ExtractExpired, ArmedInTime,
              queueVars, fdVars
<1>7. ASSUME NEW t \in Timers, RunTimer(t) PROVE ArmedInTime'
  BY <1>7 DEF RunTimer, ArmedInTime
<1>8. CASE TimerReturns
  BY <1>8 DEF TimerReturns, ArmedInTime
<1>9. CASE FinishBatch
  <2>1. timers_' \subseteq (Nat \ {0}) \X created'
    BY <1>9, TypeInvariance DEF TypeOK
  <2>2. CASE timers_' = {}
    BY <2>2 DEF ArmedInTime
  <2>3. ASSUME NEW first \in timers_',
               \A entry \in timers_' : first[1] <= entry[1],
               ResetTimer(first[1])
        PROVE  ArmedInTime'
    <3>1. first[1] \in Nat \ {0}
      BY <2>1
    <3>2. armed' = first[1]
      BY <2>3, <3>1, ResetTimerArms
    <3> QED
      BY <2>3, <3>1, <3>2 DEF ArmedInTime
  <2> QED
    BY <1>9, <2>2, <2>3 DEF FinishBatch, Reinserted, Rearm
<1>10. CASE TimerfdExpires
  BY <1>10 DEF TimerfdExpires, ArmedInTime, queueVars
<1>11. CASE Tick
  BY <1>11 DEF Tick, ArmedInTime, queueVars, fdVars
<1>12. CASE UNCHANGED vars
  BY <1>12 DEF vars, ArmedInTime, queueVars, fdVars
<1> QED
  BY <1>1, <1>2, <1>4, <1>5, <1>6, <1>7, <1>8, <1>9, <1>10, <1>11, <1>12
     DEF Next, UserCall, LoopStep

\* For any timers, if the interval that resetTimer() leaves uninitialised is
\* never invalid, the loop never sleeps past its earliest timer.
THEOREM ArmedCorrect ==
    ASSUME "invalid" \notin Garbage
    PROVE  Spec => []ArmedInTime
<1>1. Init => TypeOK /\ ArmedInTime
  BY TypeInit DEF Init, ArmedInTime
<1>2. TypeOK /\ ArmedInTime /\ [Next]_vars => (TypeOK /\ ArmedInTime)'
  BY TypeInvariance, ArmedInvariance
<1> QED
  BY <1>1, <1>2, PTL DEF Spec

-----------------------------------------------------------------------------
(* Cancellations stick.                                                    *)

\* The inductive form of CancelSticks.  A timer whose cancellation has been
\* carried out was added before, so no queued call adds it any more: each
\* timer is added by one call.
CancelInv ==
    /\ CancelSticks
    /\ cancelled \subseteq added
    /\ pc \in {"batch", "cb"} => callingExpiredTimers_ = TRUE
    /\ \A i \in 1..Len(requests) :
           requests[i][1] = "add" => requests[i][2] \notin added
    /\ \A i, j \in 1..Len(requests) :
           requests[i] = requests[j] /\ requests[i][1] = "add" => i = j

\* Every step preserves it.
LEMMA CancelInvariance ==
    TypeOK /\ KeysInv /\ CancelInv /\ [Next]_vars => CancelInv'
<1> SUFFICES ASSUME TypeOK, KeysInv, CancelInv, [Next]_vars PROVE CancelInv'
  OBVIOUS
<1> USE DEF CancelInv, CancelSticks
<1> DEFINE Calls == {"add", "cancel"} \X created
<1>0. /\ timers_ \subseteq (Nat \ {0}) \X created
      /\ expired \subseteq created /\ created \subseteq Timers
      /\ added \subseteq created /\ cancelled \subseteq created
      /\ interval_ \in [Timers -> Nat]
      /\ requests \in Seq(Calls)
      /\ Len(requests) \in Nat
      /\ \A i \in 1..Len(requests) : requests[i] \in Calls
  BY LenProperties, ElementOfSeq DEF TypeOK
<1>1. ASSUME NEW t \in Timers, NEW time \in Times, NEW interval \in Intervals,
             AddTimer(t, time, interval)
      PROVE  CancelInv'
  <2>1. t \notin created /\ \A u \in created : interval_'[u] = interval_[u]
    BY <1>0, <1>1 DEF AddTimer
  <2>2. \A i \in 1..Len(requests) : requests[i][2] # t
    BY <1>0, <2>1
  <2>3. CancelSticks'
    BY <1>0, <1>1, <2>1 DEF AddTimer, AddTimerInLoop
  <2> QED
    BY <1>1, <2>1, <2>2, <2>3 DEF AddTimer, AddTimerInLoop
<1>2. ASSUME NEW t \in Timers, NEW time \in Times, NEW interval \in Intervals,
             AddTimerRemote(t, time, interval)
      PROVE  CancelInv'
  <2>1. t \notin created /\ \A u \in created : interval_'[u] = interval_[u]
    BY <1>0, <1>2 DEF AddTimerRemote
  <2>2. \A i \in 1..Len(requests) : requests[i][2] # t
    BY <1>0, <2>1
  <2>3. /\ Len(requests') = Len(requests) + 1
        /\ \A i \in 1..Len(requests) : requests'[i] = requests[i]
        /\ requests'[Len(requests) + 1] = <<"add", t>>
    BY <1>0, <1>2 DEF AddTimerRemote
  <2>4. CancelSticks'
    BY <1>0, <1>2, <2>1 DEF AddTimerRemote
  <2>5. ASSUME NEW i \in 1..Len(requests')
        PROVE  \/ i \in 1..Len(requests) /\ requests'[i] = requests[i]
               \/ i = Len(requests) + 1 /\ requests'[i] = <<"add", t>>
    BY <1>0, <2>3
  <2>6. \A i \in 1..Len(requests') :
            requests'[i][1] = "add" => requests'[i][2] \notin added'
    BY <1>0, <1>2, <2>1, <2>5 DEF AddTimerRemote
  <2>7. \A i, j \in 1..Len(requests') :
            requests'[i] = requests'[j] /\ requests'[i][1] = "add" => i = j
    BY <2>2, <2>5
  <2> QED
    BY <1>2, <2>4, <2>6, <2>7 DEF AddTimerRemote
<1>3. ASSUME NEW t \in Timers, CancelInLoop(t),
             UNCHANGED <<pc, interval_, added>>
      PROVE  CancelSticks' /\ cancelled' \subseteq added'
  <2>1. \A entry \in timers_ : entry[2] = t => entry = <<expiration_[t], t>>
    BY <1>0 DEF KeysInv, KeysMatch
  <2>2. \A entry \in timers_' : entry[2] # t
    BY <1>3, <2>1 DEF CancelInLoop
  <2>3. timers_' \subseteq timers_ /\ expired' = expired
        /\ cancelingTimers_ \subseteq cancelingTimers_'
    BY <1>3 DEF CancelInLoop
  <2>4. t \in expired => t \in cancelingTimers_'
    <3> SUFFICES ASSUME t \in expired PROVE t \in cancelingTimers_'
      OBVIOUS
    <3>1. callingExpiredTimers_ = TRUE
      BY DEF KeysInv, TypeOK
    <3>2. <<expiration_[t], t>> \notin timers_
      BY DEF KeysInv
    <3> QED
      BY <1>3, <3>1, <3>2 DEF CancelInLoop
  <2>5. cancelled' \subseteq cancelled \cup {t} /\ cancelled' \subseteq added
    BY <1>3 DEF CancelInLoop
  <2> QED
    BY <1>3, <2>2, <2>3, <2>4, <2>5
<1>4. ASSUME NEW t \in Timers, Cancel(t) PROVE CancelInv'
  BY <1>3, <1>4 DEF Cancel, CancelInLoop
<1>5. ASSUME NEW t \in Timers, CancelRemote(t) PROVE CancelInv'
  <2>1. /\ Len(requests') = Len(requests) + 1
        /\ \A i \in 1..Len(requests) : requests'[i] = requests[i]
        /\ requests'[Len(requests) + 1] = <<"cancel", t>>
    BY <1>0, <1>5 DEF CancelRemote
  <2>2. ASSUME NEW i \in 1..Len(requests')
        PROVE  \/ i \in 1..Len(requests) /\ requests'[i] = requests[i]
               \/ i = Len(requests) + 1 /\ requests'[i] = <<"cancel", t>>
    BY <1>0, <2>1
  <2>3. UNCHANGED <<queueVars, interval_, pc, histVars>>
    BY <1>5 DEF CancelRemote
  <2>4. \A i \in 1..Len(requests') :
            requests'[i][1] = "add" => requests'[i][2] \notin added'
    BY <2>2, <2>3 DEF histVars
  <2>5. \A i, j \in 1..Len(requests') :
            requests'[i] = requests'[j] /\ requests'[i][1] = "add" => i = j
    BY <2>2
  <2> QED
    BY <2>3, <2>4, <2>5 DEF queueVars, histVars
<1>6. CASE RunRequest
  <2> DEFINE op == Head(requests)[1]
             t == Head(requests)[2]
  <2>1. requests # <<>> /\ requests' = Tail(requests) /\ pc = "idle"
        /\ UNCHANGED <<pc, interval_, created>>
    BY <1>6 DEF RunRequest
  <2>2. /\ Len(requests') = Len(requests) - 1
        /\ \A i \in 1..Len(requests') : requests'[i] = requests[i + 1]
        /\ Head(requests) = requests[1]
        /\ 1 \in 1..Len(requests)
    BY <1>0, <2>1, HeadTailProperties, EmptySeq
  <2>3. Head(requests) \in Calls /\ t \in created /\ t \in Timers
    BY <1>0, <2>2
  <2>4. ASSUME NEW i \in 1..Len(requests')
        PROVE  i + 1 \in 1..Len(requests) /\ requests'[i] = requests[i + 1]
               /\ i + 1 # 1
    BY <1>0, <2>2
  <2>5. \A i, j \in 1..Len(requests') :
            requests'[i] = requests'[j] /\ requests'[i][1] = "add" => i = j
    <3> SUFFICES ASSUME NEW i \in 1..Len(requests'),
                        NEW j \in 1..Len(requests'),
                        requests'[i] = requests'[j], requests'[i][1] = "add"
                 PROVE  i = j
      OBVIOUS
    <3>1. i + 1 = j + 1
      BY <2>4
    <3> QED
      BY <3>1, <1>0, <2>2
  <2>6. CASE op = "add" /\ AddTimerInLoop(t, expiration_[t])
             /\ UNCHANGED <<expiration_, cancelled>>
    <3>1. t \notin added /\ Head(requests) = <<"add", t>>
      BY <2>2, <2>3, <2>6
    <3>2. \A i \in 1..Len(requests') :
              requests'[i][1] = "add" => requests'[i][2] \notin added'
      <4> SUFFICES ASSUME NEW i \in 1..Len(requests'),
                          requests'[i][1] = "add"
                   PROVE  requests'[i][2] \notin added \cup {t}
        BY <2>6 DEF AddTimerInLoop, IsFirst
      <4>1. requests[i + 1][2] \notin added
        BY <2>4
      <4>2. requests[i + 1] # requests[1]
        BY <2>2, <2>4, <3>1
      <4>3. requests[i + 1] \in Calls /\ requests[i + 1][1] = "add"
        BY <1>0, <2>4
      <4>4. requests[i + 1] = <<"add", requests[i + 1][2]>>
        BY <4>3
      <4>5. requests[i + 1][2] # t
        BY <2>2, <3>1, <4>2, <4>4
      <4> QED
        BY <2>4, <4>1, <4>5
    <3>3. CancelSticks'
      BY <2>1, <2>6, <3>1 DEF AddTimerInLoop, IsFirst
    <3> QED
      BY <2>1, <2>5, <2>6, <3>2, <3>3 DEF AddTimerInLoop, IsFirst
  <2>7. CASE CancelInLoop(t) /\ UNCHANGED <<fdVars, added>>
    <3>1. CancelSticks' /\ cancelled' \subseteq added'
      BY <1>3, <2>1, <2>3, <2>7
    <3>2. \A i \in 1..Len(requests') :
              requests'[i][1] = "add" => requests'[i][2] \notin added'
      BY <2>4, <2>7
    <3> QED
      BY <2>1, <2>5, <3>1, <3>2
  <2> QED
    BY <1>6, <2>6, <2>7 DEF RunRequest
<1>7. CASE PollReports \/ HandleRead
  BY <1>7 DEF PollReports, HandleRead, queueVars, histVars
<1>8. CASE ExtractExpired
  BY <1>8 DEF ExtractExpired, histVars
<1>9. ASSUME NEW t \in Timers, RunTimer(t) PROVE CancelInv'
  BY <1>9 DEF RunTimer
<1>10. CASE TimerReturns
  BY <1>10 DEF TimerReturns, queueVars, histVars
<1>11. CASE FinishBatch
  <2>1. /\ timers_' = timers_ \cup {<<expiration_'[t], t>> : t \in Restarted}
        /\ expired' = {} /\ pc' = "idle"
        /\ UNCHANGED <<requests, histVars>>
    BY <1>11 DEF FinishBatch, Reinserted, Rearm
  <2>2. \A t \in Restarted : t \notin cancelled
    BY DEF Restarted
  <2> QED
    BY <2>1, <2>2 DEF histVars
<1>12. CASE TimerfdExpires \/ Tick
  BY <1>12 DEF TimerfdExpires, Tick, queueVars, histVars
<1>13. CASE UNCHANGED vars
  BY <1>13 DEF vars, queueVars, histVars
<1> QED
  BY <1>1, <1>2, <1>4, <1>5, <1>6, <1>7, <1>8, <1>9, <1>10, <1>11, <1>12,
     <1>13 DEF Next, UserCall, LoopStep

\* Nothing is cancelled at first.
LEMMA CancelInit == Init => CancelInv
BY DEF Init, CancelInv, CancelSticks

\* For any timers and any interleaving, a cancellation that was carried out
\* keeps the timer out of every later batch.
THEOREM CancelCorrect == Spec => []CancelSticks
<1>1. Init => TypeOK /\ KeysInv /\ CancelInv
  BY TypeInit, KeysInit, CancelInit
<1>2. TypeOK /\ KeysInv /\ CancelInv /\ [Next]_vars
        => (TypeOK /\ KeysInv /\ CancelInv)'
  BY TypeInvariance, KeysInvariance, CancelInvariance
<1>3. CancelInv => CancelSticks
  BY DEF CancelInv
<1> QED
  BY <1>1, <1>2, <1>3, PTL DEF Spec
=============================================================================
