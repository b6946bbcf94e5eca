-------------------------- MODULE TcpClientProofs --------------------------
(***************************************************************************)
(* Proofs about modules Connector and TcpClient, for any number of         *)
(* callers, connections, delays, queued functors and other functors on the *)
(* same loop.                                                              *)
(*                                                                         *)
(* Connector by itself: one attempt or one retry at a time, no connection  *)
(* forgotten, and the one way to a deleted watcher in poll.                *)
(*                                                                         *)
(* TcpClient with its connector: what the client knows of its connector    *)
(* and of its connection, except in the races that its history variables   *)
(* name.  The inductive invariant has five layers, each resting on those   *)
(* before: types and the connector's attempt; the order in which start()   *)
(* and stop() reach the connector; the connection in connection_; and the  *)
(* connector and the connection that a deleted client leaves behind.       *)
(***************************************************************************)
EXTENDS TcpClient, SequenceTheorems, TLAPS

-----------------------------------------------------------------------------
(* The queues.                                                             *)

\* What push_back adds to the elements of a queue.
LEMMA RangeAppend ==
    \A s \in Seq(Functors), f \in Functors :
        Append(s, f) \in Seq(Functors) /\ Range(Append(s, f)) = Range(s) \cup {f}
<1> SUFFICES ASSUME NEW s \in Seq(Functors), NEW f \in Functors
             PROVE  /\ Append(s, f) \in Seq(Functors)
                    /\ Range(Append(s, f)) = Range(s) \cup {f}
  OBVIOUS
<1> DEFINE t == Append(s, f)
<1>1. /\ t \in Seq(Functors)
      /\ Len(t) = Len(s) + 1
      /\ \A i \in 1..Len(s) : t[i] = s[i]
      /\ t[Len(s) + 1] = f
  BY AppendProperties
<1>2. DOMAIN t = 1..(Len(s) + 1) /\ DOMAIN s = 1..Len(s) /\ Len(s) \in Nat
  BY <1>1, LenProperties
<1>3. ASSUME NEW i \in 1..(Len(s) + 1) PROVE t[i] \in Range(s) \cup {f}
  BY <1>1, <1>2, i = Len(s) + 1 \/ i \in 1..Len(s) DEF Range
<1>4. Range(s) \cup {f} \subseteq Range(t)
  BY <1>1, <1>2 DEF Range
<1> QED
  BY <1>1, <1>2, <1>3, <1>4 DEF Range

\* What running the first functor leaves.
LEMMA RangeTail ==
    \A s \in Seq(Functors) : s # <<>> =>
        Tail(s) \in Seq(Functors) /\ Head(s) \in Range(s) /\ Range(Tail(s)) \subseteq Range(s)
<1> SUFFICES ASSUME NEW s \in Seq(Functors), s # <<>>
             PROVE  /\ Tail(s) \in Seq(Functors)
                    /\ Head(s) \in Range(s)
                    /\ Range(Tail(s)) \subseteq Range(s)
  OBVIOUS
<1>1. /\ Tail(s) \in Seq(Functors)
      /\ Len(s) \in Nat \ {0}
      /\ Len(Tail(s)) = Len(s) - 1
      /\ DOMAIN s = 1..Len(s)
      /\ DOMAIN Tail(s) = 1..(Len(s) - 1)
      /\ Head(s) = s[1]
      /\ \A i \in 1..(Len(s) - 1) : Tail(s)[i] = s[i + 1]
  OBVIOUS
<1> QED
  BY <1>1 DEF Range

\* An empty queue has no elements.
LEMMA RangeEmpty == Range(<<>>) = {} /\ <<>> \in Seq(Functors)
BY DEF Range

\* The connector's functors are functors of the loop, and differ.
LEMMA OwnFunctors ==
    /\ Own("startInLoop") \in Functors
    /\ Own("stopInLoop") \in Functors
    /\ Own("resetWatcher") \in Functors
    /\ Own("startInLoop") # Own("resetWatcher")
    /\ Own("stopInLoop") # Own("resetWatcher")
BY DEF Functors, Own

-----------------------------------------------------------------------------
(* Types and the attempt.                                                  *)

\* The delay of the next retry stays between its bounds.
LEMMA NextDelayType ==
    \A delay \in kInitRetryDelayMs..kMaxRetryDelayMs :
        NextDelay(delay) \in kInitRetryDelayMs..kMaxRetryDelayMs
BY DelayAssumption, SMT DEF NextDelay

\* The parts of TypeOK that belong to the attempt.
AttemptType ==
    /\ connect_ \in BOOLEAN
    /\ connecting_ \in BOOLEAN
    /\ retry_ \in BOOLEAN
    /\ retryDelayMs_ \in kInitRetryDelayMs..kMaxRetryDelayMs
    /\ connectSocket_ \in BOOLEAN
    /\ watcher_ \in {"null", "idle", "registered"}
    /\ timers \in Nat
    /\ dangling \in BOOLEAN
    /\ outcome \in {"none", "failed", "fatal", "delivered"}
    /\ overtaken \in BOOLEAN

\* The inductive invariant of the attempt: each part needs the others, for
\* retry() sets a timer without looking whether there is one.
AttemptInv == AttemptType /\ OneRetryTimer /\ AttemptConsistent /\ KeepsTrying

\* The two forms of OneRetryTimer.
LEMMA TimerSet ==
    /\ retry_ = TRUE /\ timers = 1 => OneRetryTimer
    /\ retry_ = FALSE /\ timers = 0 => OneRetryTimer
BY Zenon DEF OneRetryTimer

\* The same of the next state.
LEMMA TimerSetNext ==
    /\ retry_' = TRUE /\ timers' = 1 => OneRetryTimer'
    /\ retry_' = FALSE /\ timers' = 0 => OneRetryTimer'
BY Zenon DEF OneRetryTimer

\* What retry() does when a connection is wanted and no timer is set.
LEMMA RetryWanted ==
    ASSUME NEW wanted, wanted = TRUE,
           NEW delay \in kInitRetryDelayMs..kMaxRetryDelayMs, NEW pending, pending = 0,
           Retry(wanted, delay, pending)
    PROVE  /\ connectSocket_' = FALSE
           /\ outcome' = "failed"
           /\ retry_' = TRUE
           /\ timers' = 1
           /\ retryDelayMs_' \in kInitRetryDelayMs..kMaxRetryDelayMs
<1>1. connectSocket_' = FALSE /\ outcome' = "failed"
  BY DEF Retry
<1>2. retry_' = (wanted \/ retry_)
  BY DEF Retry
<1>3. retry_' = TRUE
  BY <1>2, Zenon
<1>4. timers' = pending + 1
  BY Zenon DEF Retry
<1>5. retryDelayMs_' = NextDelay(delay)
  BY Zenon DEF Retry
<1> QED
  BY <1>1, <1>3, <1>4, <1>5, NextDelayType

\* A connect() that is wanted, with no attempt and no timer left.
LEMMA ConnectKeeps ==
    ASSUME AttemptInv, ~connecting_, connect_' = TRUE,
           NEW delay \in kInitRetryDelayMs..kMaxRetryDelayMs,
           Connect(delay, 0)
    PROVE  AttemptInv'
<1> USE DEF AttemptInv, AttemptType, AttemptConsistent, KeepsTrying
<1>0. overtaken' \in BOOLEAN
  BY DEF Connect, ResetQueued, Queued
<1>1. CASE Connecting /\ retry_' = FALSE /\ timers' = 0 /\ retryDelayMs_' = delay
  BY <1>0, <1>1, TimerSetNext DEF Connecting
<1>2. CASE Retry(TRUE, delay, 0) /\ UNCHANGED <<connecting_, watcher_, dangling>>
  <2>0. /\ connectSocket_' = FALSE /\ outcome' = "failed" /\ retry_' = TRUE
        /\ retryDelayMs_' \in kInitRetryDelayMs..kMaxRetryDelayMs /\ timers' \in Nat
    <3>1. /\ connectSocket_' = FALSE /\ outcome' = "failed" /\ retry_' = TRUE
          /\ retryDelayMs_' \in kInitRetryDelayMs..kMaxRetryDelayMs /\ timers' = 1
      BY ONLY <1>2, RetryWanted, delay \in kInitRetryDelayMs..kMaxRetryDelayMs, Zenon
    <3> QED
      BY <3>1
  <2>a. AttemptType'
    BY <1>0, <1>2, <2>0, Zenon DEF AttemptInv, AttemptType
  <2>b. OneRetryTimer'
    BY <1>0, <1>2, RetryWanted, TimerSetNext
  <2>c. AttemptConsistent'
    BY <1>0, <1>2, RetryWanted DEF AttemptConsistent
  <2>d. KeepsTrying'
    BY <1>0, <1>2, RetryWanted DEF KeepsTrying
  <2> QED
    BY <2>a, <2>b, <2>c, <2>d DEF AttemptInv
<1>3. CASE /\ connectSocket_' = FALSE /\ outcome' = "fatal" /\ retry_' = FALSE
           /\ timers' = 0 /\ retryDelayMs_' = delay
           /\ UNCHANGED <<connecting_, watcher_, dangling>>
  BY <1>0, <1>3, TimerSetNext
<1> QED
  BY <1>1, <1>2, <1>3 DEF Connect

\* startInLoop() keeps the attempt consistent.
LEMMA StartKeeps ==
    ASSUME AttemptInv, StartInLoop PROVE AttemptInv'
<1>1. CASE connect_ \/ retry_
  BY <1>1 DEF StartInLoop, NoConnect, hist, AttemptInv, AttemptType,
              OneRetryTimer, AttemptConsistent, KeepsTrying
<1>2. CASE ~(connect_ \/ retry_)
  <2>1. ~connecting_ /\ timers = 0 /\ retryDelayMs_ \in kInitRetryDelayMs..kMaxRetryDelayMs
    BY <1>2 DEF AttemptInv, AttemptType, OneRetryTimer, AttemptConsistent
  <2>2. connect_' = TRUE /\ Connect(retryDelayMs_, 0)
    BY <1>2, <2>1 DEF StartInLoop
  <2> QED
    BY <2>1, <2>2, ConnectKeeps
<1> QED
  BY <1>1, <1>2

\* So does restart(), which begins with the initial delay.
LEMMA RestartKeeps ==
    ASSUME AttemptInv, Restart PROVE AttemptInv'
<1>1. CASE ~MayRestart
  BY <1>1 DEF Restart, NoConnect, hist, AttemptInv, AttemptType,
              OneRetryTimer, AttemptConsistent, KeepsTrying
<1>2. CASE MayRestart
  <2>1. /\ ~connecting_ /\ timers = 0 /\ connect_' = TRUE
        /\ kInitRetryDelayMs \in kInitRetryDelayMs..kMaxRetryDelayMs
    BY <1>2, DelayAssumption DEF Restart, MayRestart, AttemptInv, AttemptType,
                                 OneRetryTimer
  <2>2. Connect(kInitRetryDelayMs, 0)
    BY <1>2, <2>1 DEF Restart
  <2> QED
    BY <2>1, <2>2, ConnectKeeps
<1> QED
  BY <1>1, <1>2

\* So does stopInLoop(), which leaves a timer to run out.
LEMMA StopKeeps ==
    ASSUME AttemptInv, NEW q, StopInLoop(q) PROVE AttemptInv'
BY DEF StopInLoop, StopAndResetWatcher, hist, AttemptInv, AttemptType,
       OneRetryTimer, AttemptConsistent, KeepsTrying

\* So does resetWatcher(), even of the wrong watcher.
LEMMA ResetKeeps ==
    ASSUME AttemptInv, ResetWatcher PROVE AttemptInv'
<1>1. CASE watcher_ = "registered"
  BY <1>1 DEF ResetWatcher, flags, hist, AttemptInv, AttemptType,
       OneRetryTimer, AttemptConsistent, KeepsTrying
<1>2. CASE watcher_ # "registered"
  BY <1>2 DEF ResetWatcher, flags, hist, AttemptInv, AttemptType,
       OneRetryTimer, AttemptConsistent, KeepsTrying
<1> QED
  BY <1>1, <1>2

\* Every step preserves AttemptInv.
LEMMA AttemptInvariance == AttemptInv /\ [Next]_vars => AttemptInv'
<1> SUFFICES ASSUME AttemptInv, [Next]_vars PROVE AttemptInv'
  OBVIOUS
<1>1. ASSUME UNCHANGED <<flags, connectSocket_, watcher_, timers, dangling, hist>>
      PROVE  AttemptInv'
  BY <1>1 DEF flags, hist, AttemptInv, AttemptType, OneRetryTimer,
              AttemptConsistent, KeepsTrying
<1>2. ASSUME NEW functor \in {"startInLoop", "stopInLoop"}, Call(functor)
      PROVE  AttemptInv'
  BY <1>2, <1>1 DEF Call
<1>3. CASE InPlace
  BY <1>3, StartKeeps, StopKeeps, RestartKeeps DEF InPlace
<1>4. ASSUME NEW revents \in SUBSET Events, Poll(revents) PROVE AttemptInv'
  BY <1>4, <1>1 DEF Poll
<1>5. CASE Retrying
  <2>1. retry_ /\ timers = 1 /\ ~connecting_
    BY <1>5 DEF Retrying, AttemptInv, AttemptType, OneRetryTimer, AttemptConsistent
  <2>2. CASE connect_
    <3>1. /\ connect_' = TRUE
          /\ retryDelayMs_ \in kInitRetryDelayMs..kMaxRetryDelayMs
          /\ Connect(retryDelayMs_, timers - 1)
      BY <1>5, <2>2 DEF Retrying, AttemptInv, AttemptType
    <3>2. timers - 1 = 0
      BY <2>1
    <3> QED
      BY <2>1, <3>1, <3>2, ConnectKeeps
  <2>3. CASE ~connect_
    <3>1. /\ retry_' = FALSE /\ timers' = timers - 1
          /\ UNCHANGED <<connect_, connecting_, retryDelayMs_, connectSocket_,
                         watcher_, dangling, outcome, overtaken>>
      BY <1>5, <2>3 DEF Retrying, NoConnect, hist
    <3>2. timers' = 0 /\ timers' \in Nat
      BY <2>1, <3>1
    <3>a. AttemptType'
      BY <3>1, <3>2, Zenon DEF AttemptInv, AttemptType
    <3>b. OneRetryTimer'
      BY <3>1, <3>2, TimerSetNext
    <3>c. AttemptConsistent'
      BY <2>1, <2>3, <3>1 DEF AttemptInv, AttemptConsistent
    <3>d. KeepsTrying'
      BY <2>1, <2>3, <3>1 DEF KeepsTrying
    <3> QED
      BY <3>a, <3>b, <3>c, <3>d DEF AttemptInv
  <2> QED
    BY <2>2, <2>3
<1>6. CASE HandleError
  <2>1. CASE connecting_
    <3>1. connect_ = TRUE /\ retry_ = FALSE /\ timers = 0
      BY <2>1 DEF AttemptInv, AttemptType, OneRetryTimer, AttemptConsistent
    <3>2. /\ Retry(connect_, retryDelayMs_, timers)
          /\ watcher_' = "idle" /\ connecting_' = FALSE
          /\ UNCHANGED <<connect_, dangling, overtaken>>
      BY <1>6, <2>1 DEF HandleError, StillConnecting, StopAndResetWatcher
    <3>3. /\ connectSocket_' = FALSE /\ outcome' = "failed" /\ retry_' = TRUE
          /\ timers' = 1 /\ retryDelayMs_' \in kInitRetryDelayMs..kMaxRetryDelayMs
      BY <3>1, <3>2, RetryWanted DEF AttemptInv, AttemptType
    <3>a. AttemptType'
      BY <3>1, <3>2, <3>3 DEF AttemptInv, AttemptType
    <3>b. OneRetryTimer'
      BY <3>1, <3>2, <3>3, TimerSetNext
    <3>c. AttemptConsistent'
      BY <3>1, <3>2, <3>3 DEF AttemptConsistent
    <3>d. KeepsTrying'
      BY <3>1, <3>2, <3>3 DEF KeepsTrying
    <3> QED
      BY <3>a, <3>b, <3>c, <3>d DEF AttemptInv
  <2>2. CASE ~connecting_
    BY <1>6, <2>2 DEF HandleError, StillConnecting, AttemptInv, AttemptType,
         OneRetryTimer, AttemptConsistent, KeepsTrying
  <2> QED
    BY <2>1, <2>2
<1>7. ASSUME NEW error \in BOOLEAN, HandleWrite(error) PROVE AttemptInv'
  <2>1. CASE connecting_
    <3>1. connect_ = TRUE /\ retry_ = FALSE /\ timers = 0
      BY <2>1 DEF AttemptInv, AttemptType, OneRetryTimer, AttemptConsistent
    <3>2. CASE error
      <4>1. /\ Retry(connect_, retryDelayMs_, timers)
            /\ watcher_' = "idle" /\ connecting_' = FALSE
            /\ UNCHANGED <<connect_, dangling, overtaken>>
        BY <1>7, <2>1, <3>2 DEF HandleWrite, StillConnecting, StopAndResetWatcher
      <4>2. /\ connectSocket_' = FALSE /\ outcome' = "failed" /\ retry_' = TRUE
            /\ timers' = 1 /\ retryDelayMs_' \in kInitRetryDelayMs..kMaxRetryDelayMs
        BY <3>1, <4>1, RetryWanted DEF AttemptInv, AttemptType
      <4>a. AttemptType'
        BY <3>1, <4>1, <4>2 DEF AttemptInv, AttemptType
      <4>b. OneRetryTimer'
        BY <3>1, <4>1, <4>2, TimerSetNext
      <4>c. AttemptConsistent'
        BY <3>1, <4>1, <4>2 DEF AttemptConsistent
      <4>d. KeepsTrying'
        BY <3>1, <4>1, <4>2 DEF KeepsTrying
      <4> QED
        BY <4>a, <4>b, <4>c, <4>d DEF AttemptInv
    <3>3. CASE ~error
      BY <1>7, <2>1, <3>1, <3>3 DEF HandleWrite, StillConnecting,
           StopAndResetWatcher, AttemptInv, AttemptType, OneRetryTimer,
           AttemptConsistent, KeepsTrying
    <3> QED
      BY <3>2, <3>3
  <2>2. CASE ~connecting_
    BY <1>7, <2>2 DEF HandleWrite, StillConnecting, AttemptInv, AttemptType,
         OneRetryTimer, AttemptConsistent, KeepsTrying
  <2> QED
    BY <2>1, <2>2
<1>8. CASE DoPendingFunctors
  BY <1>8, <1>1 DEF DoPendingFunctors
<1>9. CASE RunFunctor
  BY <1>9, StartKeeps, StopKeeps, ResetKeeps DEF RunFunctor
<1>10. CASE UNCHANGED vars
  BY <1>10, <1>1 DEF vars
<1> QED
  BY <1>2, <1>3, <1>4, <1>5, <1>6, <1>7, <1>8, <1>9, <1>10 DEF Next

\* It holds at first.
LEMMA AttemptInit == Init => AttemptInv
<1> SUFFICES ASSUME Init PROVE AttemptInv
  OBVIOUS
<1>0. retryDelayMs_ \in kInitRetryDelayMs..kMaxRetryDelayMs /\ timers \in Nat
  BY DelayAssumption DEF Init
<1>1. AttemptType
  BY <1>0, Zenon DEF Init, AttemptType
<1>2. OneRetryTimer
  BY TimerSet DEF Init
<1>3. AttemptConsistent
  BY DEF Init, AttemptConsistent
<1>4. KeepsTrying
  BY DEF Init, KeepsTrying
<1> QED
  BY <1>1, <1>2, <1>3, <1>4 DEF AttemptInv

\* There is one retry timer when retry_ is set and none otherwise.
THEOREM TimerCorrect == Spec => []OneRetryTimer
<1>1. AttemptInv => OneRetryTimer
  BY DEF AttemptInv
<1> QED
  BY <1>1, AttemptInit, AttemptInvariance, PTL DEF Spec

\* An attempt in progress is wanted and watched, and has no rival.
THEOREM AttemptCorrect == Spec => []AttemptConsistent
<1>1. AttemptInv => AttemptConsistent
  BY DEF AttemptInv
<1> QED
  BY <1>1, AttemptInit, AttemptInvariance, PTL DEF Spec

\* A wanted connection is attempted, due for a retry, made, or given up.
THEOREM TryingCorrect == Spec => []KeepsTrying
<1>1. AttemptInv => KeepsTrying
  BY DEF AttemptInv
<1> QED
  BY <1>1, AttemptInit, AttemptInvariance, PTL DEF Spec

-----------------------------------------------------------------------------
(* The queues and the watcher.                                             *)

\* The parts of TypeOK that belong to the loop.
LoopType ==
    /\ revents_ \subseteq Events
    /\ pc \in {"poll", "events", "functors"}
    /\ functors \in Seq(Functors)
    /\ pendingFunctors_ \in Seq(Functors)

\* Every step preserves LoopType.
LEMMA LoopTypeInvariance == LoopType /\ [Next]_vars => LoopType'
<1> SUFFICES ASSUME LoopType, [Next]_vars PROVE LoopType'
  OBVIOUS
<1> USE DEF LoopType
<1>1. ASSUME NEW functor \in {"startInLoop", "stopInLoop"}, Call(functor)
      PROVE  LoopType'
  BY <1>1, OwnFunctors, RangeAppend DEF Call
<1>2. ASSUME StopInLoop(pendingFunctors_) PROVE pendingFunctors_' \in Seq(Functors)
  BY <1>2, OwnFunctors, RangeAppend DEF StopInLoop, StopAndResetWatcher
<1>3. CASE InPlace
  <2>1. pendingFunctors_' \in Seq(Functors)
    BY <1>2, <1>3 DEF InPlace, StartInLoop
  <2> QED
    BY <1>3, <2>1 DEF InPlace
<1>4. ASSUME NEW revents \in SUBSET Events, Poll(revents) PROVE LoopType'
  BY <1>4 DEF Poll, queues
<1>5. CASE Retrying
  BY <1>5 DEF Retrying, queues
<1>6. CASE HandleError
  <2>1. pendingFunctors_' \in Seq(Functors)
    BY <1>6, OwnFunctors, RangeAppend DEF HandleError, StopAndResetWatcher
  <2>2. pc' \in {"poll", "events"} /\ revents_' \subseteq Events /\ functors' = functors
    BY <1>6 DEF HandleError
  <2> QED
    BY <2>1, <2>2
<1>7. ASSUME NEW error \in BOOLEAN, HandleWrite(error) PROVE LoopType'
  <2>1. pendingFunctors_' \in Seq(Functors)
    BY <1>7, OwnFunctors, RangeAppend DEF HandleWrite, StopAndResetWatcher
  <2>2. pc' = "poll" /\ revents_' = {} /\ functors' = functors
    BY <1>7 DEF HandleWrite
  <2> QED
    BY <2>1, <2>2
<1>8. CASE DoPendingFunctors
  BY <1>8, RangeEmpty DEF DoPendingFunctors
<1>9. CASE RunFunctor
  <2>1. pendingFunctors_' \in Seq(Functors)
    BY <1>2, <1>9 DEF RunFunctor, StartInLoop, ResetWatcher
  <2>2. functors' \in Seq(Functors)
    BY <1>9, RangeTail DEF RunFunctor
  <2> QED
    BY <1>9, <2>1, <2>2 DEF RunFunctor
<1>10. CASE UNCHANGED vars
  BY <1>10 DEF vars, queues
<1> QED
  BY <1>1, <1>3, <1>4, <1>5, <1>6, <1>7, <1>8, <1>9, <1>10 DEF Next

\* It holds at first.
LEMMA LoopTypeInit == Init => LoopType
BY RangeEmpty DEF Init, LoopType

\* The variables keep their types.
THEOREM TypeCorrect == Spec => []TypeOK
<1>1. LoopType /\ AttemptInv => TypeOK
  BY DEF LoopType, AttemptInv, AttemptType, TypeOK
<1> QED
  BY <1>1, LoopTypeInit, LoopTypeInvariance, AttemptInit, AttemptInvariance, PTL
     DEF Spec

ResetPending == Own("resetWatcher") \in Range(pendingFunctors_)

\* The inductive form of DanglingOnlyIfOvertaken.  Only a watcher of an
\* attempt in progress is registered, and if a reset is queued meanwhile, the
\* attempt overtook it.  While events of a stopped attempt wait to be handled,
\* its reset waits for the next batch.
WatchInv ==
    /\ DanglingOnlyIfOvertaken
    /\ watcher_ = "registered" => connecting_ \/ dangling
    /\ watcher_ = "registered" /\ ResetQueued => overtaken
    /\ revents_ # {} => pc # "functors" /\ (connecting_ \/ ResetPending)

\* connect() with no attempt in progress.
LEMMA ConnectWatch ==
    ASSUME AttemptInv, WatchInv, ~connecting_, ~dangling, NEW delay, NEW pending,
           Connect(delay, pending), ResetQueued' => ResetQueued,
           ResetPending' <=> ResetPending, revents_' = revents_, pc' = pc
    PROVE  WatchInv'
<1> USE DEF WatchInv, DanglingOnlyIfOvertaken
<1>1. /\ ResetQueued => overtaken'
      /\ overtaken => overtaken'
  BY DEF Connect
<1>2. ResetPending => ResetQueued
  BY DEF ResetPending, ResetQueued, Queued
<1>3. CASE Connecting
  <2>1. connecting_' /\ watcher_' = "registered"
    BY <1>3 DEF Connecting
  <2>2. dangling' => revents_ # {}
    BY <1>3 DEF Connecting
  <2> QED
    BY <1>1, <1>2, <2>1, <2>2
<1>4. CASE UNCHANGED <<connecting_, watcher_, dangling>>
  BY <1>1, <1>2, <1>4
<1> QED
  BY <1>3, <1>4 DEF Connect

\* A step that leaves the watcher and the resets alone.
LEMMA NoConnectWatch ==
    ASSUME WatchInv, ResetQueued' => ResetQueued, ResetPending' <=> ResetPending,
           UNCHANGED <<connecting_, watcher_, dangling, overtaken, revents_, pc>>
    PROVE  WatchInv'
BY DEF WatchInv, DanglingOnlyIfOvertaken

\* stopAndResetWatcher(), after which the watcher is not registered.
LEMMA StopWatch ==
    ASSUME WatchInv, ~dangling, NEW q \in Seq(Functors), StopAndResetWatcher(q),
           UNCHANGED <<dangling, overtaken>>,
           revents_' # {} => pc' # "functors"
    PROVE  WatchInv'
<1>1. ResetPending'
  BY OwnFunctors, RangeAppend DEF StopAndResetWatcher, ResetPending
<1>2. watcher_' # "registered" /\ ~connecting_' /\ ~dangling'
  BY DEF StopAndResetWatcher
<1> QED
  BY <1>1, <1>2 DEF WatchInv, DanglingOnlyIfOvertaken

\* startInLoop(), in place or as a functor.
LEMMA StartWatch ==
    ASSUME AttemptInv, WatchInv, StartInLoop, ResetQueued' => ResetQueued,
           revents_' = revents_, pc' = pc
    PROVE  WatchInv'
<1>0. ~dangling /\ pendingFunctors_' = pendingFunctors_
  BY DEF StartInLoop
<1>1. CASE connect_ \/ retry_
  BY <1>0, <1>1, NoConnectWatch DEF StartInLoop, NoConnect, hist, ResetPending
<1>2. CASE ~(connect_ \/ retry_)
  <2>1. ~connecting_ /\ Connect(retryDelayMs_, timers)
    BY <1>2 DEF StartInLoop, AttemptInv, AttemptConsistent
  <2> QED
    BY <1>0, <2>1, ConnectWatch DEF ResetPending
<1> QED
  BY <1>1, <1>2

\* restart(), in place; the caller may have queued something else.
LEMMA RestartWatch ==
    ASSUME AttemptInv, WatchInv, Restart, ResetQueued' => ResetQueued,
           ResetPending' <=> ResetPending, revents_' = revents_, pc' = pc
    PROVE  WatchInv'
<1>1. CASE MayRestart
  <2>1. ~connecting_ /\ ~dangling /\ Connect(kInitRetryDelayMs, timers)
    BY <1>1 DEF Restart, MayRestart
  <2> QED
    BY <2>1, ConnectWatch
<1>2. CASE ~MayRestart
  BY <1>2, NoConnectWatch DEF Restart, NoConnect, hist
<1> QED
  BY <1>1, <1>2

\* stopInLoop(), in place or as a functor, where q are the functors queued
\* for the next batch.
LEMMA StopInLoopWatch ==
    ASSUME WatchInv, NEW q \in Seq(Functors), StopInLoop(q),
           Own("resetWatcher") \in Range(q) <=> ResetPending,
           Range(functors') \subseteq Range(functors), revents_' = revents_, pc' = pc
    PROVE  WatchInv'
<1>1. CASE connect_ /\ connecting_
  <2>1. /\ ~dangling /\ StopAndResetWatcher(q)
        /\ UNCHANGED <<dangling, overtaken>>
        /\ revents_' # {} => pc' # "functors"
    BY <1>1 DEF StopInLoop, hist, WatchInv
  <2> QED
    BY <2>1, StopWatch
<1>2. CASE ~(connect_ /\ connecting_)
  <2>1. UNCHANGED <<connecting_, watcher_, dangling, overtaken>>
        /\ pendingFunctors_' = q
    BY <1>2 DEF StopInLoop, hist
  <2>2. (ResetQueued' => ResetQueued) /\ (ResetPending' <=> ResetPending)
    BY <2>1 DEF ResetQueued, Queued, ResetPending
  <2> QED
    BY <2>1, <2>2, NoConnectWatch
<1> QED
  BY <1>1, <1>2

\* Every step preserves WatchInv.
LEMMA WatchInvariance ==
    LoopType /\ AttemptInv /\ WatchInv /\ [Next]_vars => WatchInv'
<1> SUFFICES ASSUME LoopType, AttemptInv, WatchInv, [Next]_vars PROVE WatchInv'
  OBVIOUS
<1>1. ASSUME NEW functor \in {"startInLoop", "stopInLoop"}, Call(functor)
      PROVE  WatchInv'
  <2>1. Range(pendingFunctors_') = Range(pendingFunctors_) \cup {Own(functor)}
    BY <1>1, OwnFunctors, RangeAppend DEF Call, LoopType
  <2>2. Own(functor) # Own("resetWatcher")
    BY OwnFunctors
  <2>3. (ResetQueued' => ResetQueued) /\ (ResetPending' <=> ResetPending)
    BY <1>1, <2>1, <2>2 DEF Call, ResetQueued, Queued, ResetPending
  <2> QED
    BY <1>1, <2>3, NoConnectWatch DEF Call, flags, hist
<1>2. CASE InPlace
  <2>1. UNCHANGED <<revents_, pc, functors>>
    BY <1>2 DEF InPlace
  <2>2. CASE StartInLoop
    BY <2>1, <2>2, StartWatch DEF StartInLoop, ResetQueued, Queued
  <2>3. CASE StopInLoop(pendingFunctors_)
    BY <2>1, <2>3, StopInLoopWatch DEF LoopType, ResetPending
  <2>4. CASE Restart /\ UNCHANGED pendingFunctors_
    <3>1. (ResetQueued' => ResetQueued) /\ (ResetPending' <=> ResetPending)
      BY <2>1, <2>4 DEF ResetQueued, Queued, ResetPending
    <3> QED
      BY <2>1, <2>4, <3>1, RestartWatch
  <2> QED
    BY <1>2, <2>2, <2>3, <2>4 DEF InPlace
<1>3. ASSUME NEW revents \in SUBSET Events, Poll(revents) PROVE WatchInv'
  <2>1. /\ UNCHANGED <<connecting_, watcher_, dangling, overtaken, functors,
                       pendingFunctors_>>
        /\ ~dangling /\ pc' = "poll" /\ (revents_' # {} => watcher_ = "registered")
    BY <1>3 DEF Poll, flags, hist, queues
  <2>2. ResetQueued' <=> ResetQueued
    BY <2>1 DEF ResetQueued, Queued
  <2> QED
    BY <2>1, <2>2 DEF WatchInv, DanglingOnlyIfOvertaken
<1>4. CASE Retrying
  <2>1. UNCHANGED <<revents_, pc, functors, pendingFunctors_>> /\ ~dangling
    BY <1>4 DEF Retrying, queues
  <2>2. (ResetQueued' => ResetQueued) /\ (ResetPending' <=> ResetPending)
    BY <2>1 DEF ResetQueued, Queued, ResetPending
  <2>3. CASE connect_
    <3>1. ~connecting_
      BY <1>4 DEF Retrying, AttemptInv, AttemptType, OneRetryTimer, AttemptConsistent
    <3>2. Connect(retryDelayMs_, timers - 1)
      BY <1>4, <2>3 DEF Retrying
    <3> QED
      BY <2>1, <2>2, <3>1, <3>2, ConnectWatch
  <2>4. CASE ~connect_
    BY <1>4, <2>1, <2>2, <2>4, NoConnectWatch DEF Retrying, NoConnect, hist
  <2> QED
    BY <2>3, <2>4
<1>5. CASE HandleError
  <2>1. UNCHANGED <<dangling, overtaken, functors>> /\ ~dangling /\ pc' # "functors"
    BY <1>5 DEF HandleError
  <2>2. CASE connecting_
    BY <1>5, <2>1, <2>2, StopWatch DEF HandleError, StillConnecting, LoopType
  <2>3. CASE ~connecting_
    <3>1. /\ UNCHANGED <<connecting_, watcher_, pendingFunctors_>>
          /\ revents_' # {} => revents_ # {}
      BY <1>5, <2>3 DEF HandleError, StillConnecting
    <3>2. (ResetQueued' <=> ResetQueued) /\ (ResetPending' <=> ResetPending)
      BY <2>1, <3>1 DEF ResetQueued, Queued, ResetPending
    <3> QED
      BY <2>1, <3>1, <3>2 DEF WatchInv, DanglingOnlyIfOvertaken
  <2> QED
    BY <2>2, <2>3
<1>6. ASSUME NEW error \in BOOLEAN, HandleWrite(error) PROVE WatchInv'
  <2>1. UNCHANGED <<dangling, overtaken, functors>> /\ ~dangling /\ revents_' = {}
    BY <1>6 DEF HandleWrite
  <2>2. CASE connecting_
    BY <1>6, <2>1, <2>2, StopWatch DEF HandleWrite, StillConnecting, LoopType
  <2>3. CASE ~connecting_
    <3>1. UNCHANGED <<connecting_, watcher_, pendingFunctors_>>
      BY <1>6, <2>3 DEF HandleWrite, StillConnecting
    <3>2. ResetQueued' <=> ResetQueued
      BY <2>1, <3>1 DEF ResetQueued, Queued
    <3> QED
      BY <2>1, <3>1, <3>2 DEF WatchInv, DanglingOnlyIfOvertaken
  <2> QED
    BY <2>2, <2>3
<1>7. CASE DoPendingFunctors
  <2>1. /\ UNCHANGED <<connecting_, watcher_, dangling, overtaken, revents_>>
        /\ revents_ = {}
    BY <1>7 DEF DoPendingFunctors, flags, hist
  <2>2. ResetQueued' => ResetQueued
    BY <1>7, RangeEmpty DEF DoPendingFunctors, ResetQueued, Queued
  <2> QED
    BY <2>1, <2>2 DEF WatchInv, DanglingOnlyIfOvertaken
<1>8. CASE RunFunctor
  <2>1. /\ Head(functors) \in Range(functors)
        /\ Range(functors') \subseteq Range(functors)
        /\ UNCHANGED <<revents_, pc>>
    BY <1>8, RangeTail DEF RunFunctor, LoopType
  <2>2. CASE StartInLoop
    <3>1. ResetQueued' => ResetQueued
      BY <2>1, <2>2 DEF StartInLoop, ResetQueued, Queued
    <3> QED
      BY <2>1, <2>2, <3>1, StartWatch
  <2>3. CASE StopInLoop(pendingFunctors_)
    BY <2>1, <2>3, StopInLoopWatch DEF LoopType, ResetPending
  <2>4. CASE Head(functors) = Own("resetWatcher") /\ ResetWatcher
    <3>1. ResetQueued /\ revents_' = {}
      BY <1>8, <2>1, <2>4 DEF RunFunctor, ResetQueued, Queued, WatchInv
    <3>2. /\ watcher_' # "registered" /\ overtaken' = overtaken
          /\ dangling' => watcher_ = "registered"
      BY <2>4 DEF ResetWatcher, hist
    <3> QED
      BY <3>1, <3>2 DEF WatchInv, DanglingOnlyIfOvertaken
  <2> QED
    BY <1>8, <2>2, <2>3, <2>4 DEF RunFunctor
<1>9. CASE UNCHANGED vars
  BY <1>9, NoConnectWatch DEF vars, flags, hist, queues, ResetQueued, Queued,
       ResetPending
<1> QED
  BY <1>1, <1>2, <1>3, <1>4, <1>5, <1>6, <1>7, <1>8, <1>9 DEF Next

\* It holds at first.
LEMMA WatchInit == Init => WatchInv
BY DEF Init, WatchInv, DanglingOnlyIfOvertaken

\* poll holds a deleted watcher only if an attempt began before a queued
\* resetWatcher() ran.
THEOREM DanglingCorrect == Spec => []DanglingOnlyIfOvertaken
<1>1. WatchInv => DanglingOnlyIfOvertaken
  BY DEF WatchInv
<1> QED
  BY <1>1, LoopTypeInit, LoopTypeInvariance, AttemptInit, AttemptInvariance,
     WatchInit, WatchInvariance, PTL DEF Spec

-----------------------------------------------------------------------------
(* TcpClient: types and the attempt.                                       *)

ClientTypeOK ==
    /\ started_ \in BOOLEAN
    /\ connection_ \in Conns \cup {"null"}
    /\ conns \in [Conns -> {"kConnected", "kDisconnecting", "kDisconnected"}]
    /\ calls \in [Callers -> {"none", "start", "stop", "look"}]
    /\ functors \in Seq(Functors)
    /\ pendingFunctors_ \in Seq(Functors)

\* Only a wanted attempt is under way, only its watcher is in poll, and while
\* events of a stopped attempt are to be handled, its reset waits for the next
\* batch, which begins after them.
AttemptOK ==
    /\ connect_ \in BOOLEAN /\ connecting_ \in BOOLEAN
    /\ connecting_ => connect_
    /\ watcher_ = "registered" => connecting_
    /\ revents_ # {} => pc # "functors" /\ (connecting_ \/ ResetPending)
    /\ pc # "functors" => functors = <<>>

BaseInv == ClientTypeOK /\ AttemptOK

-----------------------------------------------------------------------------
(* The calls on their way to the connector.                                *)

CallOf(b) == IF b THEN Own("startInLoop") ELSE Own("stopInLoop")
IsCall(f) == f = Own("startInLoop") \/ f = Own("stopInLoop")
NoCall(s) == \A i \in 1..Len(s) : ~IsCall(s[i])

\* The last start() or stop() in s is a start(), if b, or a stop().
EndsIn(s, b) ==
    \E i \in 1..Len(s) :
        s[i] = CallOf(b) /\ \A j \in (i + 1)..Len(s) : ~IsCall(s[j])

\* What the connector is going to be told last is started_.
CallsAgree ==
    \/ EndsIn(pendingFunctors_, started_)
    \/ NoCall(pendingFunctors_) /\ EndsIn(functors, started_)
    \/ NoCall(pendingFunctors_) /\ NoCall(functors) /\ connect_ = started_

\* At most one caller has exchanged started_ and has not queued its call; if
\* there is none, the queue tells the connector what started_ says.
CallsInv ==
    client = "alive" /\ ~raced =>
        /\ \A t \in Callers : /\ calls[t] = "start" => started_
                              /\ calls[t] = "stop" => ~started_
        /\ \A t, u \in Callers :
              calls[t] \in {"start", "stop"} /\ calls[u] \in {"start", "stop"} => t = u
        /\ ~Exchanged => CallsAgree

-----------------------------------------------------------------------------
(* The connection, and the end of the client.                              *)

\* A connection that is to be destroyed has been closed.
DestroyedClosed ==
    client = "alive" =>
        \A c \in Conns : Queued(<<c, "destroyed">>) => conns[c] = "kDisconnected"

\* A disconnect() has still to look for the connection.
Looking == \E t \in Callers : calls[t] \in {"stop", "look"}

\* After a disconnect(), an open connection is shut down, or somebody is about
\* to look for it.
ShutdownComes ==
    client = "alive" /\ ~started_ /\ ~raced /\ ~slipped /\ ~overlapped =>
        \A c \in Conns : conns[c] = "kConnected" =>
            Queued(<<c, "shutdown">>) \/ Looking

TrackInv == DestroyedClosed /\ LiveIsTracked /\ ShutdownComes

\* The two parts of DeadClientReleased: its connector, and its connection.
ConnectorReleased ==
    undefined \in {"handleConnection", "connector"} => foreign \/ raced

ConnectionReleased ==
    client = "deleted" /\ ~foreign /\ ~overlapped =>
        \A c \in Conns : conns[c] = "kConnected" => Queued(<<c, "destroyed">>)

\* A client destroyed on its loop leaves a connector that is stopped for good.
DeadInv ==
    /\ client = "destroying" => foreign
    /\ client = "deleted" /\ ~raced /\ ~foreign =>
          ~connect_ /\ NoCall(functors) /\ NoCall(pendingFunctors_)
    /\ ConnectorReleased

Inv == BaseInv /\ CallsInv /\ TrackInv /\ DeadInv /\ ConnectionReleased

-----------------------------------------------------------------------------
(* Queues.                                                                 *)

\* Functors bound to a connection are none of the connector's.
LEMMA ConnFunctor ==
    ASSUME NEW c \in Conns, NEW fn \in {"shutdown", "forceClose", "destroyed"}
    PROVE  /\ <<c, fn>> \in Functors
           /\ ~IsCall(<<c, fn>>)
           /\ <<c, fn>> # Own("resetWatcher")
<1>1. <<c, fn>> \in Others
  BY ConnsAssumption
<1>2. \A g \in {"startInLoop", "stopInLoop", "resetWatcher"} : <<c, fn>> # Own(g)
  BY DEF Own
<1> QED
  BY <1>1, <1>2 DEF Functors, IsCall

\* start() and stop() differ, and are calls; resetWatcher() is none.
LEMMA CallFunctor ==
    /\ CallOf(TRUE) = Own("startInLoop") /\ CallOf(FALSE) = Own("stopInLoop")
    /\ Own("startInLoop") # Own("stopInLoop")
    /\ IsCall(Own("startInLoop")) /\ IsCall(Own("stopInLoop"))
    /\ ~IsCall(Own("resetWatcher"))
BY DEF CallOf, IsCall, Own

\* What a queue without calls is to Pending.
LEMMA NoCallRange ==
    ASSUME NEW s \in Seq(Functors)
    PROVE  NoCall(s) <=> /\ Own("startInLoop") \notin Range(s)
                         /\ Own("stopInLoop") \notin Range(s)
BY DEF NoCall, IsCall, Range

\* Queueing a functor.
LEMMA CallAppend ==
    ASSUME NEW s \in Seq(Functors), NEW f \in Functors, NEW b \in BOOLEAN
    PROVE  /\ NoCall(s) /\ ~IsCall(f) => NoCall(Append(s, f))
           /\ EndsIn(s, b) /\ ~IsCall(f) => EndsIn(Append(s, f), b)
           /\ f = CallOf(b) => EndsIn(Append(s, f), b)
<1>1. /\ Append(s, f) \in Seq(Functors)
      /\ Len(Append(s, f)) = Len(s) + 1 /\ Len(s) \in Nat
      /\ \A i \in 1..Len(s) : Append(s, f)[i] = s[i]
      /\ Append(s, f)[Len(s) + 1] = f
  OBVIOUS
<1>2. NoCall(s) /\ ~IsCall(f) => NoCall(Append(s, f))
  BY <1>1 DEF NoCall
<1>3. ASSUME EndsIn(s, b), ~IsCall(f) PROVE EndsIn(Append(s, f), b)
  <2>1. PICK i \in 1..Len(s) :
            s[i] = CallOf(b) /\ \A j \in (i + 1)..Len(s) : ~IsCall(s[j])
    BY <1>3 DEF EndsIn
  <2>2. i \in 1..Len(Append(s, f)) /\ Append(s, f)[i] = CallOf(b)
    BY <2>1, <1>1
  <2>3. \A j \in (i + 1)..Len(Append(s, f)) : ~IsCall(Append(s, f)[j])
    BY <2>1, <1>1, <1>3
  <2> QED
    BY <2>2, <2>3 DEF EndsIn
<1>4. ASSUME f = CallOf(b) PROVE EndsIn(Append(s, f), b)
  <2>1. /\ Len(s) + 1 \in 1..Len(Append(s, f))
        /\ \A j \in ((Len(s) + 1) + 1)..Len(Append(s, f)) : ~IsCall(Append(s, f)[j])
    BY <1>1
  <2> QED
    BY <2>1, <1>1, <1>4 DEF EndsIn
<1> QED
  BY <1>2, <1>3, <1>4

\* Running the first functor.
LEMMA CallTail ==
    ASSUME NEW s \in Seq(Functors), s # <<>>, NEW b \in BOOLEAN
    PROVE  /\ Tail(s) \in Seq(Functors)
           /\ Range(s) = Range(Tail(s)) \cup {Head(s)}
           /\ NoCall(s) => NoCall(Tail(s)) /\ ~IsCall(Head(s))
           /\ EndsIn(s, b) => \/ EndsIn(Tail(s), b)
                              \/ NoCall(Tail(s)) /\ Head(s) = CallOf(b)
<1>1. /\ Tail(s) \in Seq(Functors)
      /\ Head(s) = s[1]
      /\ Len(s) \in Nat \ {0}
      /\ Len(Tail(s)) = Len(s) - 1
      /\ \A i \in 1..Len(Tail(s)) : Tail(s)[i] = s[i + 1]
      /\ DOMAIN s = 1..Len(s) /\ DOMAIN Tail(s) = 1..Len(Tail(s))
  OBVIOUS
<1>2. /\ \A i \in 1..Len(Tail(s)) : i + 1 \in 1..Len(s)
      /\ \A i \in 1..Len(s) : i # 1 => i - 1 \in 1..Len(Tail(s)) /\ (i - 1) + 1 = i
      /\ 1 \in 1..Len(s)
  BY <1>1
<1>3. \A i \in 1..Len(s) : i # 1 => Tail(s)[i - 1] = s[i]
  BY <1>1, <1>2
<1>4. Range(s) = Range(Tail(s)) \cup {Head(s)}
  <2>1. \A i \in 1..Len(s) : s[i] \in Range(Tail(s)) \cup {Head(s)}
    <3> TAKE i \in 1..Len(s)
    <3>1. CASE i = 1
      BY <3>1, <1>1
    <3>2. CASE i # 1
      <4>1. i - 1 \in DOMAIN Tail(s) /\ Tail(s)[i - 1] = s[i]
        BY <3>2, <1>1, <1>2, <1>3
      <4> QED
        BY <4>1 DEF Range
    <3> QED
      BY <3>1, <3>2
  <2>2. \A i \in 1..Len(Tail(s)) : Tail(s)[i] \in Range(s)
    BY <1>1, <1>2 DEF Range
  <2>3. Head(s) \in Range(s)
    BY <1>1, <1>2 DEF Range
  <2> QED
    BY <2>1, <2>2, <2>3, <1>1 DEF Range
<1>5. NoCall(s) => NoCall(Tail(s)) /\ ~IsCall(Head(s))
  BY <1>1, <1>2 DEF NoCall
<1>6. ASSUME EndsIn(s, b)
      PROVE  EndsIn(Tail(s), b) \/ (NoCall(Tail(s)) /\ Head(s) = CallOf(b))
  <2>1. PICK i \in 1..Len(s) :
            s[i] = CallOf(b) /\ \A j \in (i + 1)..Len(s) : ~IsCall(s[j])
    BY <1>6 DEF EndsIn
  <2>2. CASE i = 1
    <3>1. \A k \in 1..Len(Tail(s)) : k + 1 \in (i + 1)..Len(s)
      BY <2>2, <1>1
    <3> QED
      BY <3>1, <2>1, <2>2, <1>1 DEF NoCall
  <2>3. CASE i # 1
    <3>1. i - 1 \in 1..Len(Tail(s)) /\ Tail(s)[i - 1] = CallOf(b)
      BY <2>1, <2>3, <1>2, <1>3
    <3>2. \A k \in ((i - 1) + 1)..Len(Tail(s)) :
              k \in 1..Len(Tail(s)) /\ k + 1 \in (i + 1)..Len(s)
      BY <2>3, <1>1
    <3>3. \A k \in ((i - 1) + 1)..Len(Tail(s)) : ~IsCall(Tail(s)[k])
      BY <3>2, <2>1, <1>1
    <3> QED
      BY <3>1, <3>3 DEF EndsIn
  <2> QED
    BY <2>2, <2>3
<1> QED
  BY <1>1, <1>4, <1>5, <1>6

-----------------------------------------------------------------------------
(* What the connector's functions do to the attempt.                       *)

\* An attempt begins, or the one there is stays as it is.
Begins == connecting_' = TRUE /\ watcher_' = "registered"
Stays == UNCHANGED <<connecting_, watcher_>>

\* connect()
LEMMA ConnectEffect ==
    ASSUME NEW delay, NEW pending, Connect(delay, pending)
    PROVE  Begins \/ Stays
BY DEF Connect, Connecting, Begins, Stays

\* startInLoop()
LEMMA StartEffect ==
    ASSUME StartInLoop
    PROVE  /\ connect_' = TRUE
           /\ Begins \/ Stays
           /\ pendingFunctors_' = pendingFunctors_
<1>1. CASE connect_ \/ retry_
  BY <1>1 DEF StartInLoop, NoConnect, Stays
<1>2. CASE ~(connect_ \/ retry_)
  BY <1>2, ConnectEffect DEF StartInLoop
<1> QED
  BY <1>1, <1>2

\* restart()
LEMMA RestartEffect ==
    ASSUME Restart
    PROVE  /\ connect_' = connect_
           /\ Stays \/ (connect_ /\ Begins)
<1>1. CASE MayRestart
  BY <1>1, ConnectEffect DEF Restart, MayRestart
<1>2. CASE ~MayRestart
  BY <1>2 DEF Restart, NoConnect, Stays
<1> QED
  BY <1>1, <1>2

\* stopInLoop(): no attempt is left.
LEMMA StopEffect ==
    ASSUME BaseInv, NEW q \in Seq(Functors), StopInLoop(q)
    PROVE  /\ connect_' = FALSE /\ connecting_' = FALSE
           /\ watcher_' # "registered"
           /\ \/ pendingFunctors_' = Append(q, Own("resetWatcher"))
              \/ pendingFunctors_' = q /\ connecting_ = FALSE
<1>1. CASE connect_ /\ connecting_
  BY <1>1 DEF StopInLoop, StopAndResetWatcher
<1>2. CASE ~(connect_ /\ connecting_)
  BY <1>2 DEF StopInLoop, BaseInv, AttemptOK
<1> QED
  BY <1>1, <1>2

\* An attempt that begins is wanted; one that ends leaves its reset behind.
LEMMA AttemptMoves ==
    ASSUME AttemptOK, connect_' \in BOOLEAN,
           \/ Stays /\ (connecting_ => connect_')
           \/ Begins /\ connect_'
           \/ /\ connecting_' = FALSE /\ watcher_' # "registered"
              /\ ResetPending' \/ connecting_ = FALSE,
           ResetPending => ResetPending',
           UNCHANGED <<revents_, pc>>, pc # "functors" => functors' = functors
    PROVE  AttemptOK'
<1>1. /\ revents_' # {} => pc' # "functors" /\ (connecting_ \/ ResetPending')
      /\ pc' # "functors" => functors' = <<>>
  BY DEF AttemptOK
<1>2. CASE Stays /\ (connecting_ => connect_')
  BY <1>1, <1>2 DEF AttemptOK, Stays
<1>3. CASE Begins /\ connect_'
  BY <1>1, <1>3 DEF AttemptOK, Begins
<1>4. CASE /\ connecting_' = FALSE /\ watcher_' # "registered"
           /\ ResetPending' \/ connecting_ = FALSE
  BY <1>1, <1>4 DEF AttemptOK
<1> QED
  BY <1>2, <1>3, <1>4

\* Queueing and running functors, as far as resets go.
LEMMA ResetStays ==
    ASSUME ClientTypeOK, NEW f \in Functors,
           pendingFunctors_' = pendingFunctors_
               \/ pendingFunctors_' = Append(pendingFunctors_, f)
    PROVE  /\ ResetPending => ResetPending'
           /\ pendingFunctors_' \in Seq(Functors)
BY RangeAppend DEF ResetPending, ClientTypeOK

\* Close() of a connection drops connection_ and may restart the connector.
LEMMA CloseEffect ==
    ASSUME BaseInv, NEW c \in Conns, Close(c)
    PROVE  /\ conns' = [conns EXCEPT ![c] = "kDisconnected"]
           /\ connect_' = connect_
           /\ Stays \/ (connect_ /\ Begins)
           /\ \/ /\ client = "deleted" /\ Stays
                 /\ undefined' = "removeConnection"
                 /\ UNCHANGED <<connection_, pendingFunctors_>>
              \/ /\ client # "deleted"
                 /\ connection_' = "null"
                 /\ pendingFunctors_' = Append(pendingFunctors_, <<c, "destroyed">>)
                 /\ UNCHANGED undefined
<1>1. ASSUME NoRestart PROVE connect_' = connect_ /\ Stays
  BY <1>1 DEF NoRestart, flags, Stays
<1> QED
  BY <1>1, RestartEffect DEF Close

-----------------------------------------------------------------------------
(* The first layer.                                                        *)

\* A new client satisfies the first layer.
LEMMA BaseInit == ClientInit => BaseInv
<1> SUFFICES ASSUME ClientInit PROVE BaseInv
  OBVIOUS
<1>1. ClientTypeOK
  BY RangeEmpty DEF ClientInit, Init, ClientTypeOK
<1>2. AttemptOK
  BY DEF ClientInit, Init, AttemptOK
<1> QED
  BY <1>1, <1>2 DEF BaseInv

\* Types, apart from the queues'.
LEMMA ClientTypeStep ==
    ASSUME BaseInv, [ClientNext]_allVars
    PROVE  /\ started_' \in BOOLEAN
           /\ connection_' \in Conns \cup {"null"}
           /\ conns' \in [Conns -> {"kConnected", "kDisconnecting", "kDisconnected"}]
           /\ calls' \in [Callers -> {"none", "start", "stop", "look"}]
<1> USE DEF BaseInv, ClientTypeOK
<1>1. CASE EnableRetry
  BY <1>1 DEF EnableRetry
<1>2. ASSUME NEW t \in Callers, ConnectExchanges(t) \/ DisconnectExchanges(t)
                                  \/ CallQueues(t) \/ DisconnectLooks(t)
      PROVE  /\ started_' \in BOOLEAN /\ UNCHANGED <<connection_, conns>>
             /\ calls' \in [Callers -> {"none", "start", "stop", "look"}]
  BY <1>2 DEF ConnectExchanges, DisconnectExchanges, CallQueues, DisconnectLooks
<1>3. CASE ConnectHere
  BY <1>3 DEF ConnectHere
<1>4. \A c \in Conns :
          Shut(c) \in [Conns -> {"kConnected", "kDisconnecting", "kDisconnected"}]
  BY DEF Shut
<1>5. CASE DisconnectHere
  BY <1>4, <1>5 DEF DisconnectHere
<1>6. ASSUME NEW c \in Conns, Close(c)
      PROVE  /\ connection_' \in Conns \cup {"null"}
             /\ conns' \in [Conns -> {"kConnected", "kDisconnecting", "kDisconnected"}]
  BY <1>6, CloseEffect
<1>7. ASSUME NEW c \in Conns, ForceClose(c)
      PROVE  UNCHANGED <<started_, connection_, conns, calls>>
  BY <1>7 DEF ForceClose, clientVars
<1>8. ASSUME NEW c \in Conns, PeerClosed(c)
      PROVE  UNCHANGED <<started_, calls>> /\ Close(c)
  BY <1>8 DEF PeerClosed
<1>9. ASSUME NEW error \in BOOLEAN, ConnectorWrites(error)
      PROVE  /\ UNCHANGED <<started_, calls>>
             /\ connection_' \in Conns \cup {"null"}
             /\ conns' \in [Conns -> {"kConnected", "kDisconnecting", "kDisconnected"}]
  BY <1>9 DEF ConnectorWrites, HandleConnection, Track
<1>10. CASE FreedConnectorCalled
  BY <1>10 DEF FreedConnectorCalled
<1>11. CASE RunOther
  <2>1. UNCHANGED <<started_, calls>>
    BY <1>11 DEF RunOther
  <2>2. PICK c \in Conns :
          \/ conns' = Shut(c) /\ UNCHANGED connection_
          \/ Close(c)
          \/ UNCHANGED <<conns, connection_>>
          \/ /\ conns' = [conns EXCEPT ![c] =
                              IF @ = "kConnected" THEN "kDisconnected" ELSE @]
             /\ UNCHANGED connection_
    BY <1>11 DEF RunOther
  <2>3. [conns EXCEPT ![c] = IF @ = "kConnected" THEN "kDisconnected" ELSE @]
            \in [Conns -> {"kConnected", "kDisconnecting", "kDisconnected"}]
    OBVIOUS
  <2> QED
    BY <2>1, <2>2, <2>3, <1>4, <1>6
<1>12. CASE DestroyBegins \/ DestroyEnds \/ DestroyHere
  BY <1>12 DEF DestroyBegins, DestroyEnds, DestroyHere
<1>13. CASE ConnectorStep
  BY <1>13 DEF ConnectorStep, clientVars
<1>14. CASE UNCHANGED allVars
  BY <1>14 DEF allVars, clientVars
<1> QED
  BY <1>1, <1>2, <1>3, <1>5, <1>6, <1>7, <1>8, <1>9, <1>10, <1>11, <1>12, <1>13,
     <1>14 DEF ClientNext

\* Every step keeps the types and the state of the attempt.
LEMMA BaseStep ==
    ASSUME BaseInv, [ClientNext]_allVars PROVE BaseInv'
<1>0. /\ AttemptOK /\ ClientTypeOK
      /\ functors \in Seq(Functors) /\ pendingFunctors_ \in Seq(Functors)
      /\ connect_ \in BOOLEAN /\ connecting_ \in BOOLEAN /\ (connecting_ => connect_)
      /\ started_ \in BOOLEAN /\ connection_ \in Conns \cup {"null"}
  BY DEF BaseInv, ClientTypeOK, AttemptOK
<1>1. ASSUME AttemptOK', functors' \in Seq(Functors), pendingFunctors_' \in Seq(Functors)
      PROVE  BaseInv'
  BY <1>1, ClientTypeStep DEF BaseInv, ClientTypeOK
<1>2. ASSUME UNCHANGED vars PROVE BaseInv'
  <2>1. UNCHANGED <<connect_, connecting_, watcher_, revents_, pc, functors, pendingFunctors_>>
    BY <1>2 DEF vars, flags, queues
  <2>2. AttemptOK'
    BY <2>1, <1>0 DEF AttemptOK, ResetPending
  <2> QED
    BY <2>1, <2>2, <1>0, <1>1
<1>3. ASSUME NEW f \in Functors, Push(f) PROVE BaseInv'
  <2>1. /\ pendingFunctors_' = Append(pendingFunctors_, f)
        /\ UNCHANGED <<connect_, revents_, pc, functors>> /\ Stays
    BY <1>3 DEF Push, flags, Stays
  <2>2. pendingFunctors_' \in Seq(Functors) /\ (ResetPending => ResetPending')
    BY <2>1, <1>0, ResetStays
  <2>3. AttemptOK'
    BY <2>1, <2>2, <1>0, AttemptMoves
  <2> QED
    BY <2>1, <2>2, <2>3, <1>0, <1>1
<1>4. ASSUME StartInLoop, UNCHANGED <<revents_, pc>>,
             functors' \in Seq(Functors), pc # "functors" => functors' = functors
      PROVE  BaseInv'
  <2>1. /\ connect_' = TRUE /\ (Begins \/ Stays)
        /\ pendingFunctors_' = pendingFunctors_
    BY <1>4, StartEffect
  <2>2. ResetPending => ResetPending'
    BY <2>1 DEF ResetPending
  <2>3. AttemptOK'
    BY <2>1, <2>2, <1>0, <1>4, AttemptMoves
  <2> QED
    BY <2>1, <2>3, <1>0, <1>1, <1>4
<1>5. ASSUME NEW q \in Seq(Functors), StopInLoop(q), Range(pendingFunctors_) \subseteq Range(q),
             UNCHANGED <<revents_, pc>>,
             functors' \in Seq(Functors), pc # "functors" => functors' = functors
      PROVE  BaseInv'
  <2>1. /\ connect_' = FALSE /\ connecting_' = FALSE /\ watcher_' # "registered"
        /\ \/ pendingFunctors_' = Append(q, Own("resetWatcher"))
           \/ pendingFunctors_' = q /\ connecting_ = FALSE
    BY <1>5, StopEffect
  <2>2. /\ pendingFunctors_' \in Seq(Functors)
        /\ ResetPending => ResetPending'
        /\ ResetPending' \/ connecting_ = FALSE
    <3>1. CASE pendingFunctors_' = Append(q, Own("resetWatcher"))
      <4>1. /\ Append(q, Own("resetWatcher")) \in Seq(Functors)
            /\ Own("resetWatcher") \in Range(Append(q, Own("resetWatcher")))
        BY OwnFunctors, RangeAppend
      <4> QED
        BY <3>1, <4>1 DEF ResetPending
    <3>2. CASE pendingFunctors_' = q /\ connecting_ = FALSE
      BY <3>2, <1>5 DEF ResetPending
    <3> QED
      BY <2>1, <3>1, <3>2
  <2>3. AttemptOK'
    BY <2>1, <2>2, <1>0, <1>5, AttemptMoves
  <2> QED
    BY <2>1, <2>2, <2>3, <1>1, <1>5
<1>6. ASSUME NEW c \in Conns, Close(c), UNCHANGED <<revents_, pc>>,
             functors' \in Seq(Functors), pc # "functors" => functors' = functors
      PROVE  BaseInv'
  <2>1. /\ connect_' = connect_
        /\ Stays \/ (connect_ /\ Begins)
        /\ \/ pendingFunctors_' = Append(pendingFunctors_, <<c, "destroyed">>)
           \/ pendingFunctors_' = pendingFunctors_
    BY <1>6, CloseEffect
  <2>2. <<c, "destroyed">> \in Functors
    BY ConnFunctor
  <2>3. pendingFunctors_' \in Seq(Functors) /\ (ResetPending => ResetPending')
    BY <2>1, <2>2, <1>0, ResetStays
  <2>4. AttemptOK'
    BY <2>1, <2>3, <1>0, <1>6, AttemptMoves
  <2> QED
    BY <2>3, <2>4, <1>1, <1>6
<1>7. ASSUME NoRestart, UNCHANGED <<revents_, pc, pendingFunctors_>>,
             functors' \in Seq(Functors), pc # "functors" => functors' = functors
      PROVE  BaseInv'
  <2>1. connect_' = connect_ /\ Stays
    BY <1>7 DEF NoRestart, flags, Stays
  <2>2. ResetPending => ResetPending'
    BY <1>7 DEF ResetPending
  <2>3. AttemptOK'
    BY <2>1, <2>2, <1>0, <1>7, AttemptMoves
  <2> QED
    BY <2>3, <1>0, <1>1, <1>7
<1>8. CASE EnableRetry
  BY <1>8, <1>2 DEF EnableRetry
<1>9. ASSUME NEW t \in Callers, ConnectExchanges(t) \/ DisconnectExchanges(t) PROVE BaseInv'
  BY <1>9, <1>2 DEF ConnectExchanges, DisconnectExchanges
<1>10. ASSUME NEW t \in Callers, CallQueues(t) PROVE BaseInv'
  BY <1>10, <1>3, OwnFunctors DEF CallQueues
<1>11. ASSUME NEW t \in Callers, DisconnectLooks(t) PROVE BaseInv'
  <2>1. CASE UNCHANGED vars
    BY <2>1, <1>2
  <2>2. CASE connection_ # "null" /\ Push(<<connection_, "shutdown">>)
    <3>1. <<connection_, "shutdown">> \in Functors
      BY <2>2, <1>0, ConnFunctor
    <3> QED
      BY <3>1, <2>2, <1>3
  <2> QED
    BY <2>1, <2>2, <1>11 DEF DisconnectLooks
<1>12. CASE ConnectHere
  BY <1>12, <1>4, <1>0 DEF ConnectHere
<1>13. CASE DisconnectHere
  <2>1. CASE UNCHANGED vars
    BY <2>1, <1>2
  <2>2. CASE StopInLoop(pendingFunctors_) /\ UNCHANGED <<revents_, pc, functors>>
    BY <2>2, <1>5, <1>0
  <2> QED
    BY <2>1, <2>2, <1>13 DEF DisconnectHere
<1>14. ASSUME NEW c \in Conns, ForceClose(c) PROVE BaseInv'
  BY <1>14, <1>3, ConnFunctor DEF ForceClose
<1>15. ASSUME NEW c \in Conns, PeerClosed(c) PROVE BaseInv'
  BY <1>15, <1>6, <1>0 DEF PeerClosed
<1>16. ASSUME NEW error \in BOOLEAN, ConnectorWrites(error) PROVE BaseInv'
  <2>1. HandleWrite(error)
    BY <1>16 DEF ConnectorWrites
  <2>2. /\ revents_' = {} /\ pc' = "poll" /\ revents_ # {}
        /\ UNCHANGED <<connect_, functors>>
    BY <2>1 DEF HandleWrite
  <2>3. functors' = <<>>
    BY <2>2, <1>0 DEF AttemptOK
  <2>4. CASE connecting_
    <3>1. /\ watcher_' = "idle" /\ connecting_' = FALSE
          /\ pendingFunctors_' = Append(pendingFunctors_, Own("resetWatcher"))
      BY <2>1, <2>4 DEF HandleWrite, StillConnecting, StopAndResetWatcher
    <3>2. pendingFunctors_' \in Seq(Functors)
      BY <3>1, <1>0, OwnFunctors, RangeAppend
    <3>3. AttemptOK'
      BY <3>1, <2>2, <2>3, <1>0 DEF AttemptOK
    <3> QED
      BY <3>2, <3>3, <2>2, <1>0, <1>1
  <2>5. CASE ~connecting_
    <3>1. UNCHANGED <<connecting_, watcher_, pendingFunctors_>>
      BY <2>1, <2>5 DEF HandleWrite, StillConnecting
    <3>2. AttemptOK'
      BY <3>1, <2>2, <2>3, <1>0 DEF AttemptOK
    <3> QED
      BY <3>1, <3>2, <2>2, <1>0, <1>1
  <2> QED
    BY <2>4, <2>5
<1>17. CASE FreedConnectorCalled
  BY <1>17, <1>2 DEF FreedConnectorCalled
<1>18. CASE RunOther
  <2>1. /\ pc = "functors" /\ UNCHANGED <<revents_, pc>>
        /\ functors # <<>> /\ functors' = Tail(functors)
    BY <1>18 DEF RunOther
  <2>2. functors' \in Seq(Functors)
    BY <2>1, <1>0
  <2>3. PICK c \in Conns : \/ NoRestart /\ UNCHANGED pendingFunctors_
                           \/ Close(c)
    BY <1>18 DEF RunOther
  <2> QED
    BY <2>1, <2>2, <2>3, <1>6, <1>7
<1>19. /\ pendingFunctors_ \o DestroyedFunctors \in Seq(Functors)
       /\ Range(pendingFunctors_) \subseteq Range(pendingFunctors_ \o DestroyedFunctors)
  <2>1. CASE connection_ = "null"
    <3>1. pendingFunctors_ \o DestroyedFunctors = pendingFunctors_
      BY <2>1, <1>0 DEF DestroyedFunctors
    <3> QED
      BY <3>1, <1>0
  <2>2. CASE connection_ # "null"
    <3>1. <<connection_, "destroyed">> \in Functors
      BY <2>2, <1>0, ConnFunctor
    <3>2. pendingFunctors_ \o DestroyedFunctors
              = Append(pendingFunctors_, <<connection_, "destroyed">>)
      BY <2>2, <3>1, <1>0 DEF DestroyedFunctors
    <3> QED
      BY <3>1, <3>2, <1>0, RangeAppend
  <2> QED
    BY <2>1, <2>2
<1>20. CASE DestroyBegins
  <2>1. /\ NoRestart /\ UNCHANGED <<revents_, pc, functors>>
        /\ pendingFunctors_' = pendingFunctors_ \o DestroyedFunctors
    BY <1>20 DEF DestroyBegins
  <2>2. connect_' = connect_ /\ Stays
    BY <2>1 DEF NoRestart, flags, Stays
  <2>3. ResetPending => ResetPending'
    BY <2>1, <1>19 DEF ResetPending
  <2>4. AttemptOK'
    BY <2>1, <2>2, <2>3, <1>0, AttemptMoves
  <2> QED
    BY <2>1, <2>4, <1>0, <1>1, <1>19
<1>21. CASE DestroyEnds
  BY <1>21, <1>2, <1>3, OwnFunctors DEF DestroyEnds
<1>22. CASE DestroyHere
  <2>1. /\ UNCHANGED <<revents_, pc, functors>>
        /\ \/ StopInLoop(pendingFunctors_ \o DestroyedFunctors)
           \/ NoRestart /\ pendingFunctors_' = pendingFunctors_ \o DestroyedFunctors
    BY <1>22 DEF DestroyHere, StopConnector
  <2>2. CASE StopInLoop(pendingFunctors_ \o DestroyedFunctors)
    BY <2>1, <2>2, <1>5, <1>0, <1>19
  <2>3. CASE NoRestart /\ pendingFunctors_' = pendingFunctors_ \o DestroyedFunctors
    <3>1. connect_' = connect_ /\ Stays
      BY <2>3 DEF NoRestart, flags, Stays
    <3>2. ResetPending => ResetPending'
      BY <2>3, <1>19 DEF ResetPending
    <3>3. AttemptOK'
      BY <2>1, <3>1, <3>2, <1>0, AttemptMoves
    <3> QED
      BY <2>1, <2>3, <3>3, <1>0, <1>1, <1>19
  <2> QED
    BY <2>1, <2>2, <2>3
<1>23. ASSUME NEW revents \in SUBSET Events, Poll(revents) PROVE BaseInv'
  <2>1. /\ functors = <<>> /\ pc' = "poll"
        /\ revents_' # {} => watcher_ = "registered"
        /\ UNCHANGED <<connect_, connecting_, watcher_, functors, pendingFunctors_>>
    BY <1>23 DEF Poll, flags, queues
  <2>2. AttemptOK'
    BY <2>1, <1>0 DEF AttemptOK
  <2> QED
    BY <2>1, <2>2, <1>0, <1>1
<1>24. CASE Retrying
  <2>1. UNCHANGED <<connect_, revents_, pc, functors, pendingFunctors_>>
    BY <1>24 DEF Retrying, queues
  <2>2. Stays \/ (connect_ /\ Begins)
    <3>1. CASE connect_
      BY <3>1, <1>24, ConnectEffect DEF Retrying
    <3>2. CASE ~connect_
      BY <3>2, <1>24 DEF Retrying, NoConnect, Stays
    <3> QED
      BY <3>1, <3>2
  <2>3. ResetPending => ResetPending'
    BY <2>1 DEF ResetPending
  <2>4. AttemptOK'
    BY <2>1, <2>2, <2>3, <1>0, AttemptMoves
  <2> QED
    BY <2>1, <2>4, <1>0, <1>1
<1>25. CASE HandleError
  <2>1. /\ pc = "poll" /\ pc' # "functors" /\ UNCHANGED <<connect_, functors>>
        /\ revents_ # {}
    BY <1>25 DEF HandleError
  <2>2. functors' = <<>>
    BY <2>1, <1>0 DEF AttemptOK
  <2>3. CASE connecting_
    <3>1. /\ watcher_' = "idle" /\ connecting_' = FALSE
          /\ pendingFunctors_' = Append(pendingFunctors_, Own("resetWatcher"))
      BY <1>25, <2>3 DEF HandleError, StillConnecting, StopAndResetWatcher
    <3>2. pendingFunctors_' \in Seq(Functors) /\ ResetPending'
      BY <3>1, <1>0, OwnFunctors, RangeAppend DEF ResetPending
    <3>3. AttemptOK'
      BY <3>1, <3>2, <2>1, <2>2, <1>0 DEF AttemptOK
    <3> QED
      BY <3>2, <3>3, <2>1, <1>0, <1>1
  <2>4. CASE ~connecting_
    <3>1. UNCHANGED <<connecting_, watcher_, pendingFunctors_>>
      BY <1>25, <2>4 DEF HandleError, StillConnecting
    <3>2. ResetPending'
      BY <3>1, <2>1, <2>4, <1>0 DEF AttemptOK, ResetPending
    <3>3. AttemptOK'
      BY <3>1, <3>2, <2>1, <2>2, <1>0 DEF AttemptOK
    <3> QED
      BY <3>1, <3>3, <2>1, <1>0, <1>1
  <2> QED
    BY <2>3, <2>4
<1>26. CASE DoPendingFunctors
  <2>1. /\ UNCHANGED <<connect_, connecting_, watcher_, revents_>>
        /\ revents_ = {} /\ pc' = "functors"
        /\ functors' = pendingFunctors_ /\ pendingFunctors_' = <<>>
    BY <1>26 DEF DoPendingFunctors, flags
  <2>2. AttemptOK'
    BY <2>1, <1>0 DEF AttemptOK
  <2> QED
    BY <2>1, <2>2, <1>0, <1>1, RangeEmpty
<1>27. CASE RunFunctor
  <2>1. /\ pc = "functors" /\ UNCHANGED <<revents_, pc>>
        /\ functors # <<>> /\ functors' = Tail(functors)
    BY <1>27 DEF RunFunctor
  <2>2. functors' \in Seq(Functors)
    BY <2>1, <1>0
  <2>3. CASE StartInLoop
    BY <2>1, <2>2, <2>3, <1>4
  <2>4. CASE StopInLoop(pendingFunctors_)
    BY <2>1, <2>2, <2>4, <1>0, <1>5
  <2>5. CASE ResetWatcher
    <3>1. /\ watcher_' = "null"
          /\ UNCHANGED <<connect_, connecting_, pendingFunctors_>>
      BY <2>5 DEF ResetWatcher, flags
    <3>2. AttemptOK'
      BY <3>1, <2>1, <1>0 DEF AttemptOK
    <3> QED
      BY <3>1, <3>2, <2>2, <1>0, <1>1
  <2> QED
    BY <2>3, <2>4, <2>5, <1>27 DEF RunFunctor
<1>28. CASE ConnectorStep
  BY <1>28, <1>23, <1>24, <1>25, <1>26, <1>27 DEF ConnectorStep
<1>29. CASE UNCHANGED allVars
  BY <1>29, <1>2 DEF allVars
<1> QED
  BY <1>8, <1>9, <1>10, <1>11, <1>12, <1>13, <1>14, <1>15, <1>16, <1>17, <1>18,
     <1>20, <1>21, <1>22, <1>28, <1>29 DEF ClientNext

-----------------------------------------------------------------------------
(* The second layer: what the connector is told.                           *)

\* Functors that are not calls may be queued.
LEMMA AgreePush ==
    ASSUME BaseInv, CallsAgree, UNCHANGED <<started_, connect_, functors>>,
           NEW f \in Functors, ~IsCall(f),
           \/ pendingFunctors_' = pendingFunctors_
           \/ pendingFunctors_' = Append(pendingFunctors_, f)
    PROVE  CallsAgree'
<1>1. started_ \in BOOLEAN /\ pendingFunctors_ \in Seq(Functors)
  BY DEF BaseInv, ClientTypeOK
<1>2. /\ EndsIn(pendingFunctors_, started_) => EndsIn(pendingFunctors_', started_)
      /\ NoCall(pendingFunctors_) => NoCall(pendingFunctors_')
  BY <1>1, CallAppend
<1> QED
  BY <1>2 DEF CallsAgree

\* A functor runs, and if it is a call, the connector obeys.
LEMMA AgreePop ==
    ASSUME BaseInv, CallsAgree, UNCHANGED started_,
           functors # <<>>, functors' = Tail(functors),
           NEW f \in Functors, ~IsCall(f),
           \/ pendingFunctors_' = pendingFunctors_
           \/ pendingFunctors_' = Append(pendingFunctors_, f),
           Head(functors) = Own("startInLoop") => connect_' = TRUE,
           Head(functors) = Own("stopInLoop") => connect_' = FALSE,
           ~IsCall(Head(functors)) => connect_' = connect_
    PROVE  CallsAgree'
<1>1. /\ started_ \in BOOLEAN /\ pendingFunctors_ \in Seq(Functors)
      /\ functors \in Seq(Functors)
  BY DEF BaseInv, ClientTypeOK
<1>2. /\ EndsIn(pendingFunctors_, started_) => EndsIn(pendingFunctors_', started_)
      /\ NoCall(pendingFunctors_) => NoCall(pendingFunctors_')
  BY <1>1, CallAppend
<1>3. /\ NoCall(functors) => NoCall(functors') /\ ~IsCall(Head(functors))
      /\ EndsIn(functors, started_) =>
            \/ EndsIn(functors', started_)
            \/ NoCall(functors') /\ Head(functors) = CallOf(started_)
  BY <1>1, CallTail
<1>4. Head(functors) = CallOf(started_) => connect_' = started_
  BY <1>1, CallFunctor
<1> QED
  BY <1>2, <1>3, <1>4 DEF CallsAgree

\* A step that is no call of connect() or disconnect().
LEMMA CallsKept ==
    ASSUME CallsInv, UNCHANGED <<started_, calls>>,
           client' = "alive" => client = "alive", ~raced' => ~raced,
           CallsAgree => CallsAgree'
    PROVE  CallsInv'
<1>1. Exchanged' <=> Exchanged
  BY DEF Exchanged
<1> QED
  BY <1>1 DEF CallsInv

\* A caller that is not between its exchange and its queueInLoop() moves on.
LEMMA OtherCall ==
    ASSUME BaseInv, CallsInv, NEW t \in Callers, NEW next \in {"none", "look"},
           calls[t] \notin {"start", "stop"},
           calls' = [calls EXCEPT ![t] = next], UNCHANGED <<client, started_>>,
           ~raced' => ~raced, CallsAgree => CallsAgree'
    PROVE  CallsInv'
<1>1. /\ \A u \in Callers : \A call \in {"start", "stop"} :
             calls'[u] = call <=> calls[u] = call
      /\ Exchanged' <=> Exchanged
  BY DEF Exchanged, BaseInv, ClientTypeOK
<1> QED
  BY <1>1 DEF CallsInv

\* One that begins to call has nobody before it.
LEMMA NewCall ==
    ASSUME BaseInv, CallsInv, NEW t \in Callers, NEW call \in {"start", "stop"},
           calls[t] = "none", calls' = [calls EXCEPT ![t] = call],
           started_' = (call = "start"), UNCHANGED client,
           ~raced' => ~raced /\ ~Exchanged
    PROVE  CallsInv'
<1> SUFFICES ASSUME client' = "alive", ~raced' PROVE CallsInv'
  BY DEF CallsInv
<1>1. \A u \in Callers : calls[u] \notin {"start", "stop"}
  BY DEF Exchanged
<1>2. /\ calls'[t] = call
      /\ \A u \in Callers : u # t => calls'[u] \notin {"start", "stop"}
  BY <1>1 DEF BaseInv, ClientTypeOK
<1>3. Exchanged'
  BY <1>2 DEF Exchanged
<1> QED
  BY <1>2, <1>3 DEF CallsInv

\* One that has queued its call leaves nobody.
LEMMA QueuedCall ==
    ASSUME BaseInv, CallsInv, NEW t \in Callers, NEW b \in BOOLEAN,
           calls[t] = IF b THEN "start" ELSE "stop",
           NEW next \in {"none", "look"}, calls' = [calls EXCEPT ![t] = next],
           pendingFunctors_' = Append(pendingFunctors_, CallOf(b)),
           UNCHANGED <<client, started_, raced>>
    PROVE  CallsInv'
<1> SUFFICES ASSUME client' = "alive", ~raced' PROVE CallsInv'
  BY DEF CallsInv
<1>1. started_ = b
  BY DEF CallsInv, BaseInv, ClientTypeOK
<1>2. \A u \in Callers : u # t => calls[u] \notin {"start", "stop"}
  BY DEF CallsInv
<1>3. \A u \in Callers : calls'[u] \notin {"start", "stop"}
  BY <1>2 DEF BaseInv, ClientTypeOK
<1>4. CallOf(b) \in Functors /\ pendingFunctors_ \in Seq(Functors)
  BY CallFunctor, OwnFunctors DEF BaseInv, ClientTypeOK
<1>5. EndsIn(pendingFunctors_', b)
  BY <1>4, CallAppend
<1> QED
  BY <1>1, <1>3, <1>5 DEF CallsInv, CallsAgree

\* A call on the loop's thread, with no other under way, is obeyed at once.
LEMMA CallHere ==
    ASSUME BaseInv, UNCHANGED <<calls, functors>>, started_' = connect_',
           \/ pendingFunctors_' = pendingFunctors_
           \/ pendingFunctors_' = Append(pendingFunctors_, Own("resetWatcher")),
           ~raced' => ~Pending
    PROVE  CallsInv'
<1> SUFFICES ASSUME ~raced' PROVE CallsInv'
  BY DEF CallsInv
<1>1. functors \in Seq(Functors) /\ pendingFunctors_ \in Seq(Functors)
  BY DEF BaseInv, ClientTypeOK
<1>2. ~Exchanged /\ NoCall(functors) /\ NoCall(pendingFunctors_)
  BY <1>1, NoCallRange DEF Pending, Queued
<1>3. \A u \in Callers : calls'[u] \notin {"start", "stop"}
  BY <1>2 DEF Exchanged
<1>4. NoCall(pendingFunctors_')
  BY <1>1, <1>2, CallFunctor, OwnFunctors, CallAppend
<1> QED
  BY <1>2, <1>3, <1>4 DEF CallsInv, CallsAgree

\* Every step keeps what is known of the calls on their way to the connector.
LEMMA CallsStep ==
    ASSUME BaseInv, CallsInv, [ClientNext]_allVars PROVE CallsInv'
<1>0. /\ started_ \in BOOLEAN /\ connection_ \in Conns \cup {"null"}
      /\ functors \in Seq(Functors) /\ pendingFunctors_ \in Seq(Functors)
      /\ Own("resetWatcher") \in Functors /\ ~IsCall(Own("resetWatcher"))
  BY OwnFunctors, CallFunctor DEF BaseInv, ClientTypeOK
<1>1. ASSUME UNCHANGED <<vars, started_>> PROVE CallsAgree => CallsAgree'
  BY <1>1 DEF vars, flags, queues, CallsAgree
<1>2. ASSUME NEW c \in Conns, NEW fn \in {"shutdown", "forceClose", "destroyed"},
             Push(<<c, fn>>), UNCHANGED started_
      PROVE  CallsAgree => CallsAgree'
  <2>1. /\ <<c, fn>> \in Functors /\ ~IsCall(<<c, fn>>)
        /\ pendingFunctors_' = Append(pendingFunctors_, <<c, fn>>)
        /\ UNCHANGED <<connect_, functors>>
    BY <1>2, ConnFunctor DEF Push, flags
  <2> QED
    BY <2>1, <1>2, AgreePush
<1>3. CASE EnableRetry
  BY <1>3, <1>1, CallsKept DEF EnableRetry, clientHist
<1>4. ASSUME NEW t \in Callers, ConnectExchanges(t) PROVE CallsInv'
  BY <1>4, NewCall DEF ConnectExchanges
<1>5. ASSUME NEW t \in Callers, DisconnectExchanges(t) PROVE CallsInv'
  <2>1. CASE started_
    BY <1>5, <2>1, NewCall DEF DisconnectExchanges
  <2>2. CASE ~started_
    <3>1. /\ UNCHANGED <<vars, client>> /\ started_' = started_
          /\ calls[t] = "none" /\ calls' = [calls EXCEPT ![t] = "look"]
          /\ ~raced' => ~raced
      BY <1>5, <2>2, <1>0 DEF DisconnectExchanges
    <3> QED
      BY <3>1, <1>1, OtherCall
  <2> QED
    BY <2>1, <2>2
<1>6. ASSUME NEW t \in Callers, CallQueues(t) PROVE CallsInv'
  <2>1. UNCHANGED <<client, started_, raced>>
    BY <1>6 DEF CallQueues, clientHist
  <2>2. CASE /\ calls[t] = "start" /\ Push(Own("startInLoop"))
             /\ calls' = [calls EXCEPT ![t] = "none"]
    <3>1. pendingFunctors_' = Append(pendingFunctors_, CallOf(TRUE))
      BY <2>2, CallFunctor DEF Push
    <3> QED
      BY <3>1, <2>1, <2>2, QueuedCall
  <2>3. CASE /\ calls[t] = "stop" /\ Push(Own("stopInLoop"))
             /\ calls' = [calls EXCEPT ![t] = "look"]
    <3>1. pendingFunctors_' = Append(pendingFunctors_, CallOf(FALSE))
      BY <2>3, CallFunctor DEF Push
    <3> QED
      BY <3>1, <2>1, <2>3, QueuedCall
  <2> QED
    BY <2>2, <2>3, <1>6 DEF CallQueues
<1>7. ASSUME NEW t \in Callers, DisconnectLooks(t) PROVE CallsInv'
  <2>1. /\ calls[t] = "look" /\ calls' = [calls EXCEPT ![t] = "none"]
        /\ UNCHANGED <<client, started_, raced>>
    BY <1>7 DEF DisconnectLooks, clientHist
  <2>2. UNCHANGED vars \/ (connection_ # "null" /\ Push(<<connection_, "shutdown">>))
    BY <1>7 DEF DisconnectLooks
  <2>3. CallsAgree => CallsAgree'
    BY <2>1, <2>2, <1>0, <1>1, <1>2
  <2> QED
    BY <2>1, <2>3, OtherCall
<1>8. CASE ConnectHere
  <2>1. /\ UNCHANGED <<calls, functors>> /\ started_' = TRUE
        /\ ~raced' => ~Pending
        /\ StartInLoop
    BY <1>8 DEF ConnectHere
  <2>2. connect_' = TRUE /\ pendingFunctors_' = pendingFunctors_
    BY <2>1, StartEffect
  <2> QED
    BY <2>1, <2>2, CallHere
<1>9. CASE DisconnectHere
  <2>1. UNCHANGED calls /\ started_' = FALSE /\ UNCHANGED client
    BY <1>9 DEF DisconnectHere
  <2>2. CASE started_
    <3>1. /\ StopInLoop(pendingFunctors_) /\ UNCHANGED functors
          /\ ~raced' => ~Pending
      BY <1>9, <2>2 DEF DisconnectHere
    <3>2. /\ connect_' = FALSE
          /\ \/ pendingFunctors_' = Append(pendingFunctors_, Own("resetWatcher"))
             \/ pendingFunctors_' = pendingFunctors_
      BY <3>1, <1>0, StopEffect
    <3> QED
      BY <2>1, <3>1, <3>2, CallHere
  <2>3. CASE ~started_
    <3>1. UNCHANGED vars /\ started_' = started_ /\ (~raced' => ~raced)
      BY <1>9, <2>1, <2>3, <1>0 DEF DisconnectHere
    <3> QED
      BY <2>1, <3>1, <1>1, CallsKept
  <2> QED
    BY <2>2, <2>3
<1>10. ASSUME NEW c \in Conns, ForceClose(c) PROVE CallsInv'
  <2>1. Push(<<c, "forceClose">>) /\ UNCHANGED <<client, started_, calls, raced>>
    BY <1>10 DEF ForceClose, clientVars, clientHist
  <2> QED
    BY <2>1, <1>2, CallsKept
<1>11. ASSUME NEW c \in Conns, PeerClosed(c) PROVE CallsInv'
  <2>1. /\ Close(c) /\ UNCHANGED <<functors, client, started_, calls, raced>>
    BY <1>11 DEF PeerClosed, clientHist
  <2>2. /\ connect_' = connect_
        /\ \/ pendingFunctors_' = Append(pendingFunctors_, <<c, "destroyed">>)
           \/ pendingFunctors_' = pendingFunctors_
    BY <2>1, CloseEffect
  <2>3. <<c, "destroyed">> \in Functors /\ ~IsCall(<<c, "destroyed">>)
    BY ConnFunctor
  <2>4. CallsAgree => CallsAgree'
    BY <2>1, <2>2, <2>3, AgreePush
  <2> QED
    BY <2>1, <2>4, CallsKept
<1>12. ASSUME NEW error \in BOOLEAN, ConnectorWrites(error) PROVE CallsInv'
  <2>1. /\ HandleWrite(error) /\ UNCHANGED <<client, started_, calls, raced>>
    BY <1>12 DEF ConnectorWrites
  <2>2. /\ UNCHANGED <<connect_, functors>>
        /\ \/ pendingFunctors_' = Append(pendingFunctors_, Own("resetWatcher"))
           \/ pendingFunctors_' = pendingFunctors_
    BY <2>1 DEF HandleWrite, StopAndResetWatcher
  <2>3. CallsAgree => CallsAgree'
    BY <2>1, <2>2, <1>0, AgreePush
  <2> QED
    BY <2>1, <2>3, CallsKept
<1>13. CASE FreedConnectorCalled
  BY <1>13, <1>1, CallsKept DEF FreedConnectorCalled, clientHist
<1>14. CASE RunOther
  <2>1. /\ functors # <<>> /\ functors' = Tail(functors)
        /\ UNCHANGED <<client, started_, calls, raced>>
    BY <1>14 DEF RunOther, clientHist
  <2>2. PICK c \in Conns :
          /\ \/ Head(functors) = <<c, "shutdown">>
             \/ Head(functors) = <<c, "forceClose">>
             \/ Head(functors) = <<c, "destroyed">>
          /\ (NoRestart /\ UNCHANGED pendingFunctors_) \/ Close(c)
    BY <1>14 DEF RunOther
  <2>3. ~IsCall(Head(functors)) /\ ~IsCall(<<c, "destroyed">>)
        /\ <<c, "destroyed">> \in Functors
    BY <2>2, ConnFunctor
  <2>4. /\ connect_' = connect_
        /\ \/ pendingFunctors_' = Append(pendingFunctors_, <<c, "destroyed">>)
           \/ pendingFunctors_' = pendingFunctors_
    BY <2>2, CloseEffect DEF NoRestart, flags
  <2>5. /\ Head(functors) # Own("startInLoop")
        /\ Head(functors) # Own("stopInLoop")
    BY <2>3, CallFunctor
  <2>6. CallsAgree => CallsAgree'
    BY <2>1, <2>3, <2>4, <2>5, AgreePop
  <2> QED
    BY <2>1, <2>6, CallsKept
<1>15. CASE DestroyBegins \/ DestroyEnds \/ DestroyHere
  <2>1. client' # "alive"
    BY <1>15 DEF DestroyBegins, DestroyEnds, DestroyHere
  <2> QED
    BY <2>1 DEF CallsInv
<1>16. ASSUME ConnectorStep PROVE CallsAgree => CallsAgree'
  <2> SUFFICES ASSUME CallsAgree PROVE CallsAgree'
    OBVIOUS
  <2>0. UNCHANGED started_
    BY <1>16 DEF ConnectorStep, clientVars
  <2>1. ASSUME NEW revents \in SUBSET Events, Poll(revents) PROVE CallsAgree'
    BY <2>0, <2>1 DEF Poll, flags, queues, CallsAgree
  <2>2. CASE Retrying
    BY <2>0, <2>2 DEF Retrying, queues, CallsAgree
  <2>3. CASE HandleError
    <3>1. /\ UNCHANGED <<connect_, functors>>
          /\ \/ pendingFunctors_' = Append(pendingFunctors_, Own("resetWatcher"))
             \/ pendingFunctors_' = pendingFunctors_
      BY <2>3 DEF HandleError, StopAndResetWatcher
    <3> QED
      BY <3>1, <2>0, <1>0, AgreePush
  <2>4. CASE DoPendingFunctors
    <3>1. /\ pc = "poll" /\ UNCHANGED connect_
          /\ functors' = pendingFunctors_ /\ pendingFunctors_' = <<>>
      BY <2>4 DEF DoPendingFunctors, flags
    <3>2. functors = <<>>
      BY <3>1 DEF BaseInv, AttemptOK
    <3>3. NoCall(<<>>) /\ \A b \in BOOLEAN : ~EndsIn(<<>>, b)
      BY DEF NoCall, EndsIn
    <3> QED
      BY <3>1, <3>2, <3>3, <2>0, <1>0 DEF CallsAgree
  <2>5. CASE RunFunctor
    <3>1. /\ functors # <<>> /\ functors' = Tail(functors)
          /\ \/ Head(functors) = Own("startInLoop") /\ StartInLoop
             \/ Head(functors) = Own("stopInLoop") /\ StopInLoop(pendingFunctors_)
             \/ Head(functors) = Own("resetWatcher") /\ ResetWatcher
      BY <2>5 DEF RunFunctor
    <3>2. CASE Head(functors) = Own("startInLoop") /\ StartInLoop
      <4>1. connect_' = TRUE /\ pendingFunctors_' = pendingFunctors_
        BY <3>2, StartEffect
      <4> QED
        BY <4>1, <3>1, <3>2, <2>0, <1>0, CallFunctor, AgreePop
    <3>3. CASE Head(functors) = Own("stopInLoop") /\ StopInLoop(pendingFunctors_)
      <4>1. /\ connect_' = FALSE
            /\ \/ pendingFunctors_' = Append(pendingFunctors_, Own("resetWatcher"))
               \/ pendingFunctors_' = pendingFunctors_
        BY <3>3, <1>0, StopEffect
      <4> QED
        BY <4>1, <3>1, <3>3, <2>0, <1>0, CallFunctor, AgreePop
    <3>4. CASE Head(functors) = Own("resetWatcher") /\ ResetWatcher
      <4>1. UNCHANGED <<connect_, pendingFunctors_>>
        BY <3>4 DEF ResetWatcher, flags
      <4> QED
        BY <4>1, <3>1, <3>4, <2>0, <1>0, OwnFunctors, AgreePop
    <3> QED
      BY <3>1, <3>2, <3>3, <3>4
  <2> QED
    BY <2>1, <2>2, <2>3, <2>4, <2>5, <1>16 DEF ConnectorStep
<1>17. CASE ConnectorStep
  BY <1>16, <1>17, CallsKept DEF ConnectorStep, clientVars, clientHist
<1>18. CASE UNCHANGED allVars
  BY <1>1, <1>18, CallsKept DEF allVars, clientVars, clientHist
<1> QED
  BY <1>3, <1>4, <1>5, <1>6, <1>7, <1>8, <1>9, <1>10, <1>11, <1>12, <1>13, <1>14,
     <1>15, <1>17, <1>18 DEF ClientNext

-----------------------------------------------------------------------------
(* The third layer: the connection.                                        *)

AllQueued == Range(functors) \cup Range(pendingFunctors_)

\* What is queued after queueInLoop(), ...
LEMMA QueuedPush ==
    ASSUME BaseInv, NEW f \in Functors, UNCHANGED functors,
           \/ pendingFunctors_' = pendingFunctors_
           \/ pendingFunctors_' = Append(pendingFunctors_, f)
    PROVE  AllQueued \subseteq AllQueued' /\ AllQueued' \subseteq AllQueued \cup {f}
<1>1. pendingFunctors_ \in Seq(Functors)
  BY DEF BaseInv, ClientTypeOK
<1>2. Range(Append(pendingFunctors_, f)) = Range(pendingFunctors_) \cup {f}
  BY <1>1, RangeAppend
<1> QED
  BY <1>2 DEF AllQueued

\* ... and after a functor has run, which may have queued another.
LEMMA QueuedPop ==
    ASSUME BaseInv, NEW f \in Functors, functors # <<>>, functors' = Tail(functors),
           \/ pendingFunctors_' = pendingFunctors_
           \/ pendingFunctors_' = Append(pendingFunctors_, f)
    PROVE  /\ AllQueued \subseteq AllQueued' \cup {Head(functors)}
           /\ AllQueued' \subseteq AllQueued \cup {f}
<1>1. pendingFunctors_ \in Seq(Functors) /\ functors \in Seq(Functors)
  BY DEF BaseInv, ClientTypeOK
<1>2. Range(Append(pendingFunctors_, f)) = Range(pendingFunctors_) \cup {f}
  BY <1>1, RangeAppend
<1>3. Range(functors) = Range(functors') \cup {Head(functors)}
  BY <1>1, CallTail
<1> QED
  BY <1>2, <1>3 DEF AllQueued

\* The connection is not touched, no disconnect() has looked, and the functors
\* of connections are still those there were.
LEMMA TrackKept ==
    ASSUME TrackInv, UNCHANGED <<conns, connection_>>,
           client' = "alive" => client = "alive",
           ~raced' => ~raced, ~slipped' => ~slipped, ~overlapped' => ~overlapped,
           ~started_' => ~started_, Looking => Looking',
           \A c \in Conns : /\ <<c, "destroyed">> \in AllQueued' => <<c, "destroyed">> \in AllQueued
                            /\ <<c, "shutdown">> \in AllQueued => <<c, "shutdown">> \in AllQueued'
    PROVE  TrackInv'
<1>1. DestroyedClosed'
  BY DEF TrackInv, DestroyedClosed, Queued, AllQueued
<1>2. LiveIsTracked'
  BY DEF TrackInv, LiveIsTracked, Open
<1>3. ShutdownComes'
  BY DEF TrackInv, ShutdownComes, Queued, AllQueued
<1> QED
  BY <1>1, <1>2, <1>3 DEF TrackInv

\* A connection closes and is forgotten.
LEMMA CloseTracked ==
    ASSUME BaseInv, TrackInv, NEW c \in Conns, Open(c), Close(c),
           UNCHANGED <<client, started_, calls, clientHist>>,
           \/ UNCHANGED functors
           \/ /\ functors # <<>> /\ functors' = Tail(functors)
              /\ Head(functors) = <<c, "forceClose">>
    PROVE  TrackInv'
<1> SUFFICES ASSUME client' = "alive" PROVE TrackInv'
  BY DEF TrackInv, DestroyedClosed, LiveIsTracked, ShutdownComes
<1>1. /\ conns' = [conns EXCEPT ![c] = "kDisconnected"]
      /\ connection_' = "null"
      /\ pendingFunctors_' = Append(pendingFunctors_, <<c, "destroyed">>)
      /\ client = "alive"
  BY CloseEffect
<1>2. /\ conns \in [Conns -> {"kConnected", "kDisconnecting", "kDisconnected"}]
      /\ <<c, "destroyed">> \in Functors
  BY ConnFunctor DEF BaseInv, ClientTypeOK
<1>3. /\ AllQueued \subseteq AllQueued' \cup {<<c, "forceClose">>}
      /\ AllQueued' \subseteq AllQueued \cup {<<c, "destroyed">>}
  BY <1>1, <1>2, QueuedPush, QueuedPop
<1>4. DestroyedClosed'
  <2> SUFFICES ASSUME NEW d \in Conns, <<d, "destroyed">> \in AllQueued'
               PROVE  conns'[d] = "kDisconnected"
    BY DEF DestroyedClosed, Queued, AllQueued
  <2>1. CASE d = c
    BY <2>1, <1>1, <1>2
  <2>2. CASE d # c
    <3>1. <<d, "destroyed">> \in AllQueued
      BY <2>2, <1>3
    <3> QED
      BY <3>1, <2>2, <1>1, <1>2 DEF TrackInv, DestroyedClosed, Queued, AllQueued
  <2> QED
    BY <2>1, <2>2
<1>5. LiveIsTracked'
  <2> SUFFICES ASSUME ~overlapped' PROVE {d \in Conns : Open(d)}' = {}
    BY <1>1 DEF LiveIsTracked
  <2>1. {d \in Conns : Open(d)} = {connection_} \ {"null"}
    BY <1>1 DEF TrackInv, LiveIsTracked, clientHist
  <2>2. \A d \in Conns : Open(d) => d = c
    BY <2>1
  <2>3. \A d \in Conns : Open(d)' => d # c /\ Open(d)
    BY <1>1, <1>2 DEF Open
  <2> QED
    BY <2>2, <2>3
<1>6. ShutdownComes'
  <2> SUFFICES ASSUME ~started_', ~raced', ~slipped', ~overlapped', NEW d \in Conns,
                      conns'[d] = "kConnected"
               PROVE  <<d, "shutdown">> \in AllQueued' \/ Looking'
    BY DEF ShutdownComes, Queued, AllQueued
  <2>1. conns[d] = "kConnected"
    BY <1>1, <1>2
  <2>2. <<d, "shutdown">> \in AllQueued \/ Looking
    BY <2>1, <1>1 DEF TrackInv, ShutdownComes, Queued, AllQueued, clientHist
  <2> QED
    BY <2>2, <1>3 DEF Looking
<1> QED
  BY <1>4, <1>5, <1>6 DEF TrackInv

\* The connector delivers a connection.
LEMMA ConnectionTracked ==
    ASSUME BaseInv, CallsInv, TrackInv, NEW c \in Conns, HandleConnection(c),
           UNCHANGED <<client, started_, calls, raced, functors>>,
           \/ pendingFunctors_' = Append(pendingFunctors_, Own("resetWatcher"))
           \/ pendingFunctors_' = pendingFunctors_
    PROVE  TrackInv'
<1> SUFFICES ASSUME client = "alive" PROVE TrackInv'
  BY DEF TrackInv, DestroyedClosed, LiveIsTracked, ShutdownComes
<1>1. /\ conns' = [conns EXCEPT ![c] = "kConnected"] /\ connection_' = c
      /\ overlapped' = (overlapped \/ \E d \in Conns : Open(d))
      /\ slipped' = (slipped \/ (~started_ /\ \A t \in Callers : calls[t] = "none"))
      /\ <<c, "destroyed">> \notin AllQueued
  BY DEF HandleConnection, Track, Gone, Queued, AllQueued
<1>2. conns \in [Conns -> {"kConnected", "kDisconnecting", "kDisconnected"}]
  BY DEF BaseInv, ClientTypeOK
<1>3. AllQueued \subseteq AllQueued' /\ AllQueued' \subseteq AllQueued \cup {Own("resetWatcher")}
  BY OwnFunctors, QueuedPush
<1>4. DestroyedClosed'
  <2> SUFFICES ASSUME NEW d \in Conns, <<d, "destroyed">> \in AllQueued'
               PROVE  conns'[d] = "kDisconnected"
    BY DEF DestroyedClosed, Queued, AllQueued
  <2>1. <<d, "destroyed">> \in AllQueued /\ d # c
    BY <1>1, <1>3, ConnFunctor
  <2> QED
    BY <2>1, <1>1, <1>2 DEF TrackInv, DestroyedClosed, Queued, AllQueued
<1>5. ASSUME ~overlapped' PROVE \A d \in Conns : Open(d)' <=> d = c
  BY <1>1, <1>2, <1>5 DEF Open
<1>6. LiveIsTracked'
  <2> SUFFICES ASSUME ~overlapped'
               PROVE  {d \in Conns : Open(d)}' = {connection_'} \ {"null"}
    BY DEF LiveIsTracked
  <2>1. c # "null"
    BY NullAssumption
  <2> QED
    BY <2>1, <1>1, <1>5
<1>7. ShutdownComes'
  <2> SUFFICES ASSUME ~started_', ~raced', ~slipped' PROVE Looking'
    BY DEF ShutdownComes
  <2>1. PICK t \in Callers : calls[t] # "none"
    BY <1>1
  <2>2. calls[t] # "start"
    BY DEF CallsInv
  <2>3. calls[t] \in {"stop", "look"}
    BY <2>1, <2>2 DEF BaseInv, ClientTypeOK
  <2> QED
    BY <2>3 DEF Looking
<1> QED
  BY <1>4, <1>6, <1>7 DEF TrackInv

\* The connector's own steps leave the functors of connections queued.
LEMMA ConnectorQueues ==
    ASSUME BaseInv, ConnectorStep
    PROVE  \A c \in Conns : \A fn \in {"shutdown", "destroyed"} :
               <<c, fn>> \in AllQueued' <=> <<c, fn>> \in AllQueued
<1>0. /\ Own("resetWatcher") \in Functors
      /\ \A c \in Conns : \A fn \in {"shutdown", "destroyed"} :
            <<c, fn>> \notin {Own("startInLoop"), Own("stopInLoop"), Own("resetWatcher")}
  BY OwnFunctors, ConnFunctor, CallFunctor
<1>1. ASSUME NEW revents \in SUBSET Events, Poll(revents) PROVE AllQueued' = AllQueued
  BY <1>1 DEF Poll, queues, AllQueued
<1>2. CASE Retrying
  BY <1>2 DEF Retrying, queues, AllQueued
<1>3. CASE HandleError
  <2>1. /\ UNCHANGED functors
        /\ \/ pendingFunctors_' = Append(pendingFunctors_, Own("resetWatcher"))
           \/ pendingFunctors_' = pendingFunctors_
    BY <1>3 DEF HandleError, StopAndResetWatcher
  <2>2. /\ AllQueued \subseteq AllQueued'
        /\ AllQueued' \subseteq AllQueued \cup {Own("resetWatcher")}
    BY <2>1, <1>0, QueuedPush
  <2> QED
    BY <2>2, <1>0
<1>4. CASE DoPendingFunctors
  <2>1. /\ functors' = pendingFunctors_ /\ pendingFunctors_' = <<>> /\ functors = <<>>
    BY <1>4 DEF DoPendingFunctors, BaseInv, AttemptOK
  <2> QED
    BY <2>1, RangeEmpty DEF AllQueued
<1>5. CASE RunFunctor
  <2>1. /\ functors # <<>> /\ functors' = Tail(functors)
        /\ Head(functors) \in {Own("startInLoop"), Own("stopInLoop"), Own("resetWatcher")}
        /\ StartInLoop \/ StopInLoop(pendingFunctors_) \/ ResetWatcher
    BY <1>5 DEF RunFunctor
  <2>2. \/ pendingFunctors_' = Append(pendingFunctors_, Own("resetWatcher"))
        \/ pendingFunctors_' = pendingFunctors_
    BY <2>1, StartEffect, StopEffect DEF ResetWatcher, BaseInv, ClientTypeOK
  <2>3. /\ AllQueued \subseteq AllQueued' \cup {Head(functors)}
        /\ AllQueued' \subseteq AllQueued \cup {Own("resetWatcher")}
    BY <2>1, <2>2, <1>0, QueuedPop
  <2> QED
    BY <2>1, <2>3, <1>0
<1> QED
  BY <1>1, <1>2, <1>3, <1>4, <1>5 DEF ConnectorStep

\* Every step keeps what is known of the connection the client holds.
LEMMA TrackStep ==
    ASSUME BaseInv, CallsInv, TrackInv, [ClientNext]_allVars PROVE TrackInv'
<1>0. /\ started_ \in BOOLEAN /\ connection_ \in Conns \cup {"null"}
      /\ conns \in [Conns -> {"kConnected", "kDisconnecting", "kDisconnected"}]
      /\ calls \in [Callers -> {"none", "start", "stop", "look"}]
      /\ Own("resetWatcher") \in Functors
  BY OwnFunctors DEF BaseInv, ClientTypeOK
<1>1. \A c \in Conns : \A fn \in {"shutdown", "forceClose", "destroyed"} :
          /\ <<c, fn>> \in Functors
          /\ <<c, fn>> \notin {Own("startInLoop"), Own("stopInLoop"), Own("resetWatcher")}
  BY ConnFunctor, CallFunctor
<1>2. UNCHANGED vars => AllQueued' = AllQueued
  BY DEF vars, queues, AllQueued
<1>3. ASSUME NEW f \in Functors, Push(f)
      PROVE  AllQueued \subseteq AllQueued' /\ AllQueued' \subseteq AllQueued \cup {f}
  BY <1>3, QueuedPush DEF Push
<1>4. CASE EnableRetry
  BY <1>4, <1>2, TrackKept DEF EnableRetry, clientHist, Looking
<1>5. ASSUME NEW t \in Callers, ConnectExchanges(t) PROVE TrackInv'
  <2>1. /\ UNCHANGED <<vars, connection_, conns, client, slipped, overlapped>>
        /\ started_' = TRUE /\ (~raced' => ~raced)
        /\ calls[t] = "none" /\ calls' = [calls EXCEPT ![t] = "start"]
    BY <1>5 DEF ConnectExchanges
  <2>2. Looking => Looking'
    BY <2>1, <1>0 DEF Looking
  <2> QED
    BY <2>1, <2>2, <1>2, TrackKept
<1>6. ASSUME NEW t \in Callers, DisconnectExchanges(t) PROVE TrackInv'
  <2>1. /\ UNCHANGED <<vars, connection_, conns, client, slipped, overlapped>>
        /\ calls' = [calls EXCEPT ![t] = IF started_ THEN "stop" ELSE "look"]
    BY <1>6 DEF DisconnectExchanges
  <2>2. Looking'
    BY <2>1, <1>0 DEF Looking
  <2>3. DestroyedClosed' /\ LiveIsTracked'
    BY <2>1, <1>2 DEF TrackInv, DestroyedClosed, LiveIsTracked, Open, Queued, AllQueued
  <2> QED
    BY <2>2, <2>3 DEF TrackInv, ShutdownComes
<1>7. ASSUME NEW t \in Callers, CallQueues(t) PROVE TrackInv'
  <2>1. UNCHANGED <<connection_, conns, client, started_, raced, slipped, overlapped>>
    BY <1>7 DEF CallQueues, clientHist
  <2>2. PICK f \in {Own("startInLoop"), Own("stopInLoop")} : Push(f)
    BY <1>7 DEF CallQueues
  <2>3. f \in Functors
    BY OwnFunctors
  <2>4. AllQueued \subseteq AllQueued' /\ AllQueued' \subseteq AllQueued \cup {f}
    BY <2>2, <2>3, <1>3
  <2>5. Looking => Looking'
    BY <1>7, <1>0 DEF CallQueues, Looking
  <2> QED
    BY <2>1, <2>4, <2>5, <1>1, TrackKept
<1>8. ASSUME NEW t \in Callers, DisconnectLooks(t) PROVE TrackInv'
  <2> SUFFICES ASSUME client' = "alive" PROVE TrackInv'
    BY DEF TrackInv, DestroyedClosed, LiveIsTracked, ShutdownComes
  <2>1. UNCHANGED <<connection_, conns, client, started_, raced, slipped, overlapped>>
    BY <1>8 DEF DisconnectLooks, clientHist
  <2>2. \/ connection_ = "null" /\ UNCHANGED vars
        \/ connection_ # "null" /\ Push(<<connection_, "shutdown">>)
    BY <1>8 DEF DisconnectLooks
  <2>3. /\ AllQueued \subseteq AllQueued'
        /\ AllQueued' \subseteq AllQueued \cup {<<connection_, "shutdown">>}
    BY <2>2, <1>0, <1>1, <1>2, <1>3
  <2>4. DestroyedClosed' /\ LiveIsTracked'
    <3>1. \A c \in Conns : <<c, "destroyed">> \in AllQueued' => <<c, "destroyed">> \in AllQueued
      BY <2>3
    <3> QED
      BY <3>1, <2>1 DEF TrackInv, DestroyedClosed, LiveIsTracked, Open, Queued, AllQueued
  <2>5. ShutdownComes'
    <3> SUFFICES ASSUME ~overlapped', NEW c \in Conns, conns'[c] = "kConnected"
                 PROVE  <<c, "shutdown">> \in AllQueued'
      BY DEF ShutdownComes, Queued, AllQueued
    <3>1. c = connection_ /\ connection_ # "null"
      BY <2>1 DEF TrackInv, LiveIsTracked, Open
    <3>2. Push(<<c, "shutdown">>) /\ <<c, "shutdown">> \in Functors
      BY <3>1, <2>2, <1>1
    <3>3. pendingFunctors_ \in Seq(Functors)
      BY DEF BaseInv, ClientTypeOK
    <3> QED
      BY <3>2, <3>3, RangeAppend DEF Push, AllQueued
  <2> QED
    BY <2>4, <2>5 DEF TrackInv
<1>9. CASE ConnectHere
  <2>1. /\ UNCHANGED <<functors, connection_, conns, calls, client, slipped, overlapped>>
        /\ started_' = TRUE /\ (~raced' => ~raced) /\ StartInLoop
    BY <1>9 DEF ConnectHere
  <2>2. AllQueued' = AllQueued
    BY <2>1, StartEffect DEF AllQueued
  <2> QED
    BY <2>1, <2>2, TrackKept DEF Looking
<1>10. CASE DisconnectHere
  <2> SUFFICES ASSUME client' = "alive" PROVE TrackInv'
    BY DEF TrackInv, DestroyedClosed, LiveIsTracked, ShutdownComes
  <2>1. /\ UNCHANGED <<connection_, calls, client, slipped, overlapped>>
        /\ conns' = IF connection_ = "null" THEN conns ELSE Shut(connection_)
    BY <1>10 DEF DisconnectHere
  <2>2. /\ AllQueued \subseteq AllQueued'
        /\ AllQueued' \subseteq AllQueued \cup {Own("resetWatcher")}
    <3>1. CASE UNCHANGED vars
      BY <3>1, <1>2
    <3>2. CASE StopInLoop(pendingFunctors_) /\ UNCHANGED functors
      <4>1. \/ pendingFunctors_' = Append(pendingFunctors_, Own("resetWatcher"))
            \/ pendingFunctors_' = pendingFunctors_
        BY <3>2, StopEffect DEF BaseInv, ClientTypeOK
      <4> QED
        BY <3>2, <4>1, <1>0, QueuedPush
    <3> QED
      BY <3>1, <3>2, <1>10 DEF DisconnectHere
  <2>3. \A c \in Conns : /\ conns'[c] = "kDisconnected" <=> conns[c] = "kDisconnected"
                         /\ conns'[c] = "kConnected" => conns[c] = "kConnected"
                         /\ conns'[c] = "kConnected" => connection_ # c
                         /\ Open(c)' <=> Open(c)
    BY <2>1, <1>0, NullAssumption DEF Shut, Open
  <2>4. DestroyedClosed'
    <3>1. \A c \in Conns : <<c, "destroyed">> \in AllQueued' => <<c, "destroyed">> \in AllQueued
      BY <2>2, <1>1
    <3> QED
      BY <3>1, <2>1, <2>3 DEF TrackInv, DestroyedClosed, Queued, AllQueued
  <2>5. LiveIsTracked'
    BY <2>1, <2>3 DEF TrackInv, LiveIsTracked
  <2>6. ShutdownComes'
    <3> SUFFICES ASSUME ~overlapped', NEW c \in Conns, conns'[c] = "kConnected"
                 PROVE  FALSE
      BY DEF ShutdownComes
    <3>1. conns[c] = "kConnected" /\ connection_ # c
      BY <2>3
    <3>2. Open(c)
      BY <3>1 DEF Open
    <3> QED
      BY <3>1, <3>2, <2>1 DEF TrackInv, LiveIsTracked
  <2> QED
    BY <2>4, <2>5, <2>6 DEF TrackInv
<1>11. ASSUME NEW c \in Conns, ForceClose(c) PROVE TrackInv'
  <2>1. /\ Push(<<c, "forceClose">>)
        /\ UNCHANGED <<connection_, conns, client, started_, calls, raced, slipped, overlapped>>
    BY <1>11 DEF ForceClose, clientVars, clientHist
  <2>2. AllQueued \subseteq AllQueued' /\ AllQueued' \subseteq AllQueued \cup {<<c, "forceClose">>}
    BY <2>1, <1>1, <1>3
  <2> QED
    BY <2>1, <2>2, TrackKept DEF Looking
<1>12. ASSUME NEW c \in Conns, PeerClosed(c) PROVE TrackInv'
  BY <1>12, CloseTracked DEF PeerClosed
<1>13. ASSUME NEW error \in BOOLEAN, ConnectorWrites(error) PROVE TrackInv'
  <2>1. /\ HandleWrite(error) /\ UNCHANGED <<client, started_, calls, raced>>
    BY <1>13 DEF ConnectorWrites
  <2>2. /\ UNCHANGED functors
        /\ \/ pendingFunctors_' = Append(pendingFunctors_, Own("resetWatcher"))
           \/ pendingFunctors_' = pendingFunctors_
    BY <2>1 DEF HandleWrite, StopAndResetWatcher
  <2>3. /\ AllQueued \subseteq AllQueued'
        /\ AllQueued' \subseteq AllQueued \cup {Own("resetWatcher")}
    BY <2>2, <1>0, QueuedPush
  <2>4. CASE UNCHANGED <<connection_, conns, slipped, overlapped>>
    BY <2>1, <2>3, <2>4, <1>1, TrackKept DEF Looking
  <2>5. CASE \E c \in Conns : HandleConnection(c)
    BY <2>1, <2>2, <2>5, ConnectionTracked
  <2> QED
    BY <2>4, <2>5, <1>13 DEF ConnectorWrites
<1>14. CASE FreedConnectorCalled
  BY <1>14, <1>2, TrackKept DEF FreedConnectorCalled, clientHist, Looking
<1>15. CASE RunOther
  <2> SUFFICES ASSUME client' = "alive" PROVE TrackInv'
    BY DEF TrackInv, DestroyedClosed, LiveIsTracked, ShutdownComes
  <2>1. /\ functors # <<>> /\ functors' = Tail(functors)
        /\ UNCHANGED <<client, started_, calls, clientHist>>
    BY <1>15 DEF RunOther
  <2>2. UNCHANGED <<raced, slipped, overlapped>> /\ (Looking <=> Looking')
    BY <2>1 DEF clientHist, Looking
  <2>3. PICK c \in Conns :
          \/ /\ Head(functors) = <<c, "shutdown">>
             /\ conns' = Shut(c)
             /\ UNCHANGED <<connection_, pendingFunctors_>>
          \/ /\ Head(functors) = <<c, "forceClose">>
             /\ Open(c) /\ Close(c)
          \/ /\ Head(functors) = <<c, "forceClose">>
             /\ UNCHANGED <<conns, connection_, pendingFunctors_>>
          \/ /\ Head(functors) = <<c, "destroyed">>
             /\ conns' = [conns EXCEPT ![c] =
                              IF @ = "kConnected" THEN "kDisconnected" ELSE @]
             /\ UNCHANGED <<connection_, pendingFunctors_>>
    BY <1>15 DEF RunOther
  <2>4. UNCHANGED pendingFunctors_ =>
            /\ AllQueued \subseteq AllQueued' \cup {Head(functors)}
            /\ AllQueued' \subseteq AllQueued
    <3>1. Range(functors) = Range(functors') \cup {Head(functors)}
      BY <2>1, CallTail DEF BaseInv, ClientTypeOK
    <3> QED
      BY <3>1 DEF AllQueued
  <2>5. CASE /\ Head(functors) = <<c, "shutdown">>
             /\ conns' = Shut(c)
             /\ UNCHANGED <<connection_, pendingFunctors_>>
    <3>1. \A d \in Conns : /\ conns'[d] = "kDisconnected" <=> conns[d] = "kDisconnected"
                           /\ conns'[d] = "kConnected" => conns[d] = "kConnected" /\ d # c
                           /\ Open(d)' <=> Open(d)
      BY <2>5, <1>0 DEF Shut, Open
    <3>2. DestroyedClosed'
      BY <3>1, <2>1, <2>4, <2>5 DEF TrackInv, DestroyedClosed, Queued, AllQueued
    <3>3. LiveIsTracked'
      BY <3>1, <2>1, <2>2, <2>5 DEF TrackInv, LiveIsTracked
    <3>4. ShutdownComes'
      <4> SUFFICES ASSUME ~started_', ~raced', ~slipped', ~overlapped', NEW d \in Conns,
                          conns'[d] = "kConnected"
                   PROVE  <<d, "shutdown">> \in AllQueued' \/ Looking'
        BY DEF ShutdownComes, Queued, AllQueued
      <4>1. conns[d] = "kConnected" /\ d # c
        BY <3>1
      <4>2. <<d, "shutdown">> \in AllQueued \/ Looking
        BY <4>1, <2>1, <2>2 DEF TrackInv, ShutdownComes, Queued, AllQueued
      <4> QED
        BY <4>1, <4>2, <2>2, <2>4, <2>5
    <3> QED
      BY <3>2, <3>3, <3>4 DEF TrackInv
  <2>6. CASE Head(functors) = <<c, "forceClose">> /\ Open(c) /\ Close(c)
    BY <2>1, <2>6, CloseTracked
  <2>7. CASE /\ Head(functors) = <<c, "forceClose">>
             /\ UNCHANGED <<conns, connection_, pendingFunctors_>>
    BY <2>1, <2>2, <2>4, <2>7, TrackKept
  <2>8. CASE /\ Head(functors) = <<c, "destroyed">>
             /\ conns' = [conns EXCEPT ![c] =
                              IF @ = "kConnected" THEN "kDisconnected" ELSE @]
             /\ UNCHANGED <<connection_, pendingFunctors_>>
    <3>1. Head(functors) \in AllQueued
      BY <2>1, CallTail DEF BaseInv, ClientTypeOK, AllQueued
    <3>2. conns[c] = "kDisconnected"
      BY <3>1, <2>1, <2>8 DEF TrackInv, DestroyedClosed, Queued, AllQueued
    <3>3. conns' = conns
      BY <3>2, <2>8, <1>0
    <3> QED
      BY <3>3, <2>1, <2>2, <2>4, <2>8, TrackKept
  <2> QED
    BY <2>3, <2>5, <2>6, <2>7, <2>8
<1>16. CASE DestroyBegins \/ DestroyEnds \/ DestroyHere
  <2>1. client' # "alive"
    BY <1>16 DEF DestroyBegins, DestroyEnds, DestroyHere
  <2> QED
    BY <2>1 DEF TrackInv, DestroyedClosed, LiveIsTracked, ShutdownComes
<1>17. CASE ConnectorStep
  <2>1. UNCHANGED <<connection_, conns, client, started_, calls, raced, slipped, overlapped>>
    BY <1>17 DEF ConnectorStep, clientVars, clientHist
  <2>2. \A c \in Conns : \A fn \in {"shutdown", "destroyed"} :
            <<c, fn>> \in AllQueued' <=> <<c, fn>> \in AllQueued
    BY <1>17, ConnectorQueues
  <2> QED
    BY <2>1, <2>2, TrackKept DEF Looking
<1>18. CASE UNCHANGED allVars
  BY <1>2, <1>18, TrackKept DEF allVars, clientVars, clientHist, Looking
<1> QED
  BY <1>4, <1>5, <1>6, <1>7, <1>8, <1>9, <1>10, <1>11, <1>12, <1>13, <1>14, <1>15,
     <1>16, <1>17, <1>18 DEF ClientNext

-----------------------------------------------------------------------------
(* The fourth layer: the connector of a deleted client.                    *)

\* Nothing calls the connector that a deleted client left behind.
Silent == ~connect_ /\ NoCall(functors) /\ NoCall(pendingFunctors_)

\* DeadInv is kept by a step that does not destroy the client and makes no
\* call of its connector.
LEMMA DeadKept ==
    ASSUME DeadInv, UNCHANGED <<client, foreign>>, ~raced' => ~raced,
           undefined' \in {undefined, "no", "removeConnection"},
           client = "deleted" /\ Silent => Silent',
           raced => raced'
    PROVE  DeadInv'
BY DEF DeadInv, ConnectorReleased, Silent

\* Every step keeps what is known of the connector a deleted client leaves.
LEMMA DeadStep ==
    ASSUME BaseInv, CallsInv, DeadInv, [ClientNext]_allVars PROVE DeadInv'
<1>0. /\ connection_ \in Conns \cup {"null"} /\ started_ \in BOOLEAN
      /\ functors \in Seq(Functors) /\ pendingFunctors_ \in Seq(Functors)
      /\ connecting_ => connect_
      /\ connect_ \in BOOLEAN
  BY DEF BaseInv, ClientTypeOK, AttemptOK
<1>1. ASSUME client = "alive", UNCHANGED <<client, foreign, undefined>>,
             ~raced' => ~raced, raced => raced'
      PROVE  DeadInv'
  BY <1>1, DeadKept
<1>2. CASE EnableRetry
  BY <1>2, <1>1 DEF EnableRetry, MayCall, clientHist
<1>3. ASSUME NEW t \in Callers, ConnectExchanges(t) \/ DisconnectExchanges(t)
                                  \/ CallQueues(t) \/ DisconnectLooks(t)
      PROVE  DeadInv'
  <2>1. client = "alive" /\ UNCHANGED <<client, foreign, undefined>>
    BY <1>3 DEF ConnectExchanges, DisconnectExchanges, CallQueues, DisconnectLooks,
                MayCall, clientHist
  <2>2. (~raced' => ~raced) /\ (raced => raced')
    <3>1. CASE ConnectExchanges(t) \/ DisconnectExchanges(t)
      BY <3>1 DEF ConnectExchanges, DisconnectExchanges
    <3>2. CASE CallQueues(t) \/ DisconnectLooks(t)
      BY <3>2 DEF CallQueues, DisconnectLooks, clientHist
    <3> QED
      BY <1>3, <3>1, <3>2
  <2> QED
    BY <2>1, <2>2, <1>1
<1>4. CASE ConnectHere \/ DisconnectHere
  BY <1>4, <1>1 DEF ConnectHere, DisconnectHere, InCallback, MayCall
<1>5. ASSUME NEW c \in Conns, ForceClose(c) PROVE DeadInv'
  BY <1>5, <1>1 DEF ForceClose, MayCall, clientVars, clientHist
<1>6. ASSUME NEW c \in Conns, PeerClosed(c) PROVE DeadInv'
  <2>1. Close(c) /\ UNCHANGED <<functors, client, raced, foreign>>
    BY <1>6 DEF PeerClosed, clientHist
  <2>2. /\ undefined' \in {undefined, "removeConnection"}
        /\ connect_' = connect_
        /\ client = "deleted" => pendingFunctors_' = pendingFunctors_
    BY <2>1, CloseEffect
  <2> QED
    BY <2>1, <2>2, DeadKept DEF Silent
<1>7. ASSUME NEW error \in BOOLEAN, ConnectorWrites(error) PROVE DeadInv'
  <2>1. /\ HandleWrite(error) /\ UNCHANGED <<client, raced, foreign>>
    BY <1>7 DEF ConnectorWrites
  <2>2. UNCHANGED <<connect_, functors>>
    BY <2>1 DEF HandleWrite
  <2>3. CASE ~connecting_
    <3>1. UNCHANGED <<pendingFunctors_, undefined>>
      BY <1>7, <2>1, <2>3 DEF HandleWrite, ConnectorWrites, StillConnecting
    <3> QED
      BY <3>1, <2>1, <2>2, DeadKept DEF Silent
  <2>4. CASE connecting_
    <3>1. client = "deleted" => raced \/ foreign
      BY <2>4, <1>0 DEF DeadInv
    <3>2. client # "deleted" => UNCHANGED undefined
      BY <1>7 DEF ConnectorWrites, HandleConnection
    <3> QED
      BY <3>1, <3>2, <2>1 DEF DeadInv, ConnectorReleased
  <2> QED
    BY <2>3, <2>4
<1>8. CASE FreedConnectorCalled
  <2>1. /\ revents_ # {} /\ client = "deleted" /\ ~ResetQueued
        /\ UNCHANGED <<connect_, functors, pendingFunctors_, client, raced, foreign>>
    BY <1>8 DEF FreedConnectorCalled, ConnectorFreed, vars, flags, queues, clientHist
  <2>2. connecting_
    BY <2>1 DEF BaseInv, AttemptOK, ResetPending, ResetQueued, Queued
  <2>3. raced \/ foreign
    BY <2>1, <2>2, <1>0 DEF DeadInv
  <2> QED
    BY <2>1, <2>3 DEF DeadInv, ConnectorReleased
<1>9. CASE RunOther
  <2>1. /\ functors # <<>> /\ functors' = Tail(functors)
        /\ UNCHANGED <<client, raced, foreign>>
    BY <1>9 DEF RunOther, clientHist
  <2>2. \E c \in Conns : \/ Close(c)
                         \/ NoRestart /\ UNCHANGED <<pendingFunctors_, undefined>>
    BY <1>9 DEF RunOther
  <2>3. /\ undefined' \in {undefined, "removeConnection"}
        /\ connect_' = connect_
        /\ client = "deleted" => pendingFunctors_' = pendingFunctors_
    BY <2>2, CloseEffect DEF NoRestart, flags
  <2>4. NoCall(functors) => NoCall(functors')
    BY <2>1, <1>0, CallTail
  <2> QED
    BY <2>1, <2>3, <2>4, DeadKept DEF Silent
<1>10. CASE DestroyBegins
  <2>1. client' = "destroying" /\ foreign' = TRUE
    BY <1>10 DEF DestroyBegins
  <2> QED
    BY <2>1 DEF DeadInv, ConnectorReleased
<1>11. CASE DestroyEnds
  <2>1. client' = "deleted" /\ foreign' /\ UNCHANGED <<raced, foreign>>
    BY <1>11 DEF DestroyEnds, DeadInv, clientHist
  <2> QED
    BY <2>1 DEF DeadInv, ConnectorReleased
<1>12. NoCall(pendingFunctors_) =>
           /\ pendingFunctors_ \o DestroyedFunctors \in Seq(Functors)
           /\ NoCall(pendingFunctors_ \o DestroyedFunctors)
  <2>1. CASE connection_ = "null"
    <3>1. pendingFunctors_ \o DestroyedFunctors = pendingFunctors_
      BY <2>1, <1>0 DEF DestroyedFunctors
    <3> QED
      BY <3>1, <1>0
  <2>2. CASE connection_ # "null"
    <3>1. /\ <<connection_, "destroyed">> \in Functors
          /\ ~IsCall(<<connection_, "destroyed">>)
      BY <2>2, <1>0, ConnFunctor
    <3>2. pendingFunctors_ \o DestroyedFunctors
              = Append(pendingFunctors_, <<connection_, "destroyed">>)
      BY <2>2, <3>1, <1>0 DEF DestroyedFunctors
    <3> QED
      BY <3>1, <3>2, <1>0, RangeAppend, CallAppend
  <2> QED
    BY <2>1, <2>2
<1>13. CASE DestroyHere
  <2>1. /\ client = "alive" /\ client' = "deleted" /\ undefined = "no"
        /\ UNCHANGED <<functors, undefined, foreign>>
        /\ \A t \in Callers : calls[t] = "none"
        /\ StopConnector(pendingFunctors_ \o DestroyedFunctors)
        /\ ~raced' => ~raced /\ ~Pending
    BY <1>13 DEF DestroyHere, MayDestroy, MayCall
  <2>2. ASSUME ~raced' PROVE Silent'
    <3>1. NoCall(functors) /\ NoCall(pendingFunctors_)
      BY <2>1, <2>2, <1>0, NoCallRange DEF Pending, Queued
    <3>2. \A b \in BOOLEAN : ~EndsIn(functors, b) /\ ~EndsIn(pendingFunctors_, b)
      BY <3>1, CallFunctor DEF EndsIn, NoCall
    <3>3. connect_ = started_
      BY <2>1, <2>2, <3>2, <1>0 DEF CallsInv, CallsAgree, Exchanged
    <3>4. /\ pendingFunctors_ \o DestroyedFunctors \in Seq(Functors)
          /\ NoCall(pendingFunctors_ \o DestroyedFunctors)
      BY <3>1, <1>12
    <3>5. CASE started_
      <4>1. StopInLoop(pendingFunctors_ \o DestroyedFunctors)
        BY <3>5, <2>1 DEF StopConnector
      <4>2. /\ connect_' = FALSE
            /\ \/ pendingFunctors_' =
                       Append(pendingFunctors_ \o DestroyedFunctors, Own("resetWatcher"))
               \/ pendingFunctors_' = pendingFunctors_ \o DestroyedFunctors
        BY <4>1, <3>4, StopEffect
      <4>3. NoCall(pendingFunctors_')
        BY <4>2, <3>4, OwnFunctors, CallFunctor, CallAppend
      <4> QED
        BY <4>2, <4>3, <3>1, <2>1 DEF Silent
    <3>6. CASE ~started_
      <4>1. connect_' = connect_ /\ pendingFunctors_' = pendingFunctors_ \o DestroyedFunctors
        BY <3>6, <2>1 DEF StopConnector, NoRestart, flags
      <4> QED
        BY <4>1, <3>1, <3>3, <3>4, <3>6, <2>1 DEF Silent
    <3> QED
      BY <3>5, <3>6
  <2> QED
    BY <2>1, <2>2 DEF DeadInv, ConnectorReleased, Silent
<1>14. CASE ConnectorStep
  <2>1. UNCHANGED <<client, undefined, raced, foreign>>
    BY <1>14 DEF ConnectorStep, clientVars, clientHist
  <2>2. ASSUME Silent PROVE Silent'
    <3>1. ASSUME NEW revents \in SUBSET Events, Poll(revents) PROVE Silent'
      BY <2>2, <3>1 DEF Poll, flags, queues, Silent
    <3>2. CASE Retrying
      BY <2>2, <3>2 DEF Retrying, queues, Silent
    <3>3. CASE HandleError
      <4>1. ~connecting_
        BY <2>2, <1>0 DEF Silent
      <4>2. UNCHANGED <<connect_, functors, pendingFunctors_>>
        BY <4>1, <3>3 DEF HandleError, StillConnecting
      <4> QED
        BY <4>2, <2>2 DEF Silent
    <3>4. CASE DoPendingFunctors
      <4>1. /\ UNCHANGED connect_
            /\ functors' = pendingFunctors_ /\ pendingFunctors_' = <<>>
        BY <3>4 DEF DoPendingFunctors, flags
      <4>2. NoCall(<<>>)
        BY DEF NoCall
      <4> QED
        BY <4>1, <4>2, <2>2 DEF Silent
    <3>5. CASE RunFunctor
      <4>1. functors # <<>> /\ functors' = Tail(functors)
        BY <3>5 DEF RunFunctor
      <4>2. NoCall(functors') /\ ~IsCall(Head(functors))
        BY <4>1, <2>2, <1>0, CallTail DEF Silent
      <4>3. ResetWatcher
        BY <4>2, <3>5, CallFunctor DEF RunFunctor
      <4> QED
        BY <4>2, <4>3, <2>2 DEF Silent, ResetWatcher, flags
    <3> QED
      BY <3>1, <3>2, <3>3, <3>4, <3>5, <1>14 DEF ConnectorStep
  <2> QED
    BY <2>1, <2>2, DeadKept
<1>15. CASE UNCHANGED allVars
  <2>1. /\ UNCHANGED <<client, undefined, raced, foreign>>
        /\ UNCHANGED <<connect_, functors, pendingFunctors_>>
    BY <1>15 DEF allVars, vars, flags, queues, clientVars, clientHist
  <2> QED
    BY <2>1, DeadKept DEF Silent
<1> QED
  BY <1>2, <1>3, <1>4, <1>5, <1>6, <1>7, <1>8, <1>9, <1>10, <1>11, <1>13, <1>14,
     <1>15 DEF ClientNext

-----------------------------------------------------------------------------
(* The fifth layer: the connection of a deleted client.                    *)

\* No connection is opened, and no destroyed() taken from the queue.
LEMMA ReleaseKept ==
    ASSUME ConnectionReleased, client' = "deleted" => client = "deleted",
           ~foreign' => ~foreign, ~overlapped' => ~overlapped,
           \A c \in Conns : conns'[c] = "kConnected" => conns[c] = "kConnected",
           \A c \in Conns : conns'[c] = "kConnected" /\ <<c, "destroyed">> \in AllQueued
                => <<c, "destroyed">> \in AllQueued'
    PROVE  ConnectionReleased'
BY DEF ConnectionReleased, Queued, AllQueued

\* A connection of the deleted client closes.
LEMMA ReleaseClose ==
    ASSUME BaseInv, ConnectionReleased, NEW c \in Conns, client = "deleted",
           Close(c), UNCHANGED <<client, foreign, overlapped>>,
           AllQueued \subseteq Range(functors') \cup Range(pendingFunctors_)
                                \cup {<<c, "forceClose">>}
    PROVE  ConnectionReleased'
<1>1. /\ conns' = [conns EXCEPT ![c] = "kDisconnected"]
      /\ pendingFunctors_' = pendingFunctors_
  BY DEF Close
<1>2. conns \in [Conns -> {"kConnected", "kDisconnecting", "kDisconnected"}]
  BY DEF BaseInv, ClientTypeOK
<1>3. \A d \in Conns : /\ conns'[d] = "kConnected" => conns[d] = "kConnected"
                       /\ <<d, "destroyed">> # <<c, "forceClose">>
  BY <1>1, <1>2
<1> QED
  BY <1>1, <1>3, ReleaseKept DEF AllQueued

\* ~TcpClient() on the loop queues the destruction of the connection, and
\* nothing takes that back.
LEMMA ReleaseStep ==
    ASSUME BaseInv, TrackInv, DeadInv, ConnectionReleased, [ClientNext]_allVars
    PROVE  ConnectionReleased'
<1>0. /\ connection_ \in Conns \cup {"null"}
      /\ conns \in [Conns -> {"kConnected", "kDisconnecting", "kDisconnected"}]
      /\ functors \in Seq(Functors) /\ pendingFunctors_ \in Seq(Functors)
  BY DEF BaseInv, ClientTypeOK
<1>1. ASSUME client = "alive", UNCHANGED client PROVE ConnectionReleased'
  BY <1>1 DEF ConnectionReleased
<1>2. CASE EnableRetry
  BY <1>2, <1>1 DEF EnableRetry, MayCall
<1>3. ASSUME NEW t \in Callers, ConnectExchanges(t) \/ DisconnectExchanges(t)
                                  \/ CallQueues(t) \/ DisconnectLooks(t)
      PROVE  ConnectionReleased'
  BY <1>3, <1>1 DEF ConnectExchanges, DisconnectExchanges, CallQueues,
                    DisconnectLooks, MayCall
<1>4. CASE ConnectHere \/ DisconnectHere
  BY <1>4, <1>1 DEF ConnectHere, DisconnectHere, InCallback, MayCall
<1>5. ASSUME NEW c \in Conns, ForceClose(c) PROVE ConnectionReleased'
  BY <1>5, <1>1 DEF ForceClose, MayCall, clientVars
<1>6. ASSUME NEW c \in Conns, PeerClosed(c) PROVE ConnectionReleased'
  <2>1. Close(c) /\ UNCHANGED <<functors, client, foreign, overlapped>>
    BY <1>6 DEF PeerClosed, clientHist
  <2>2. CASE client = "deleted"
    BY <2>1, <2>2, ReleaseClose DEF AllQueued
  <2>3. CASE client # "deleted"
    BY <2>1, <2>3 DEF ConnectionReleased
  <2> QED
    BY <2>2, <2>3
<1>7. ASSUME NEW error \in BOOLEAN, ConnectorWrites(error) PROVE ConnectionReleased'
  <2>1. HandleWrite(error) /\ UNCHANGED <<client, foreign>>
    BY <1>7 DEF ConnectorWrites
  <2>2. CASE client = "deleted"
    <3>1. UNCHANGED <<conns, overlapped>>
      BY <1>7, <2>2 DEF ConnectorWrites
    <3>2. AllQueued \subseteq AllQueued'
      <4>1. /\ UNCHANGED functors
            /\ \/ pendingFunctors_' = Append(pendingFunctors_, Own("resetWatcher"))
               \/ pendingFunctors_' = pendingFunctors_
        BY <2>1 DEF HandleWrite, StopAndResetWatcher
      <4> QED
        BY <4>1, OwnFunctors, QueuedPush
    <3> QED
      BY <2>1, <3>1, <3>2, ReleaseKept
  <2>3. CASE client # "deleted"
    BY <2>1, <2>3 DEF ConnectionReleased
  <2> QED
    BY <2>2, <2>3
<1>8. CASE FreedConnectorCalled
  <2>1. UNCHANGED <<conns, client, foreign, overlapped, functors, pendingFunctors_>>
    BY <1>8 DEF FreedConnectorCalled, vars, queues, clientHist
  <2> QED
    BY <2>1, ReleaseKept DEF AllQueued
<1>9. CASE RunOther
  <2> SUFFICES ASSUME client = "deleted" PROVE ConnectionReleased'
    BY <1>9 DEF RunOther, ConnectionReleased
  <2>1. /\ functors # <<>> /\ functors' = Tail(functors)
        /\ UNCHANGED <<client, foreign, overlapped>>
    BY <1>9 DEF RunOther, clientHist
  <2>2. PICK c \in Conns :
          \/ /\ Head(functors) = <<c, "shutdown">>
             /\ conns' = Shut(c)
             /\ UNCHANGED pendingFunctors_
          \/ Head(functors) = <<c, "forceClose">> /\ Close(c)
          \/ /\ Head(functors) = <<c, "forceClose">>
             /\ UNCHANGED <<conns, pendingFunctors_>>
          \/ /\ Head(functors) = <<c, "destroyed">>
             /\ conns' = [conns EXCEPT ![c] =
                              IF @ = "kConnected" THEN "kDisconnected" ELSE @]
             /\ UNCHANGED pendingFunctors_
    BY <1>9 DEF RunOther
  <2>3. Range(functors) = Range(functors') \cup {Head(functors)}
    BY <2>1, <1>0, CallTail
  <2>4. CASE Head(functors) = <<c, "forceClose">> /\ Close(c)
    BY <2>1, <2>3, <2>4, ReleaseClose DEF AllQueued
  <2>5. CASE /\ UNCHANGED pendingFunctors_
             /\ \/ /\ Head(functors) = <<c, "shutdown">>
                   /\ conns' = Shut(c)
                \/ Head(functors) = <<c, "forceClose">> /\ UNCHANGED conns
                \/ /\ Head(functors) = <<c, "destroyed">>
                   /\ conns' = [conns EXCEPT ![c] =
                                    IF @ = "kConnected" THEN "kDisconnected" ELSE @]
    <3>1. \A d \in Conns :
              conns'[d] = "kConnected" => /\ conns[d] = "kConnected"
                                          /\ Head(functors) # <<d, "destroyed">>
      BY <2>5, <1>0 DEF Shut
    <3>2. AllQueued \subseteq AllQueued' \cup {Head(functors)}
      BY <2>3, <2>5 DEF AllQueued
    <3> QED
      BY <2>1, <3>1, <3>2, ReleaseKept
  <2> QED
    BY <2>2, <2>4, <2>5
<1>10. CASE DestroyBegins
  BY <1>10 DEF DestroyBegins, ConnectionReleased
<1>11. CASE DestroyEnds
  BY <1>11 DEF DestroyEnds, DeadInv, clientHist, ConnectionReleased
<1>12. CASE DestroyHere
  <2>1. /\ client = "alive" /\ UNCHANGED <<functors, conns, overlapped>>
        /\ StopConnector(pendingFunctors_ \o DestroyedFunctors)
    BY <1>12 DEF DestroyHere, MayDestroy, MayCall
  <2> SUFFICES ASSUME ~overlapped, NEW c \in Conns, conns[c] = "kConnected"
               PROVE  <<c, "destroyed">> \in Range(pendingFunctors_')
    BY <2>1 DEF ConnectionReleased, Queued
  <2>2. c = connection_ /\ connection_ # "null"
    BY <2>1 DEF TrackInv, LiveIsTracked, Open
  <2>3. <<c, "destroyed">> \in Functors
    BY ConnFunctor
  <2> DEFINE q == Append(pendingFunctors_, <<c, "destroyed">>)
  <2>4. pendingFunctors_ \o DestroyedFunctors = q
    BY <2>2, <2>3, <1>0 DEF DestroyedFunctors
  <2>5. q \in Seq(Functors) /\ <<c, "destroyed">> \in Range(q)
    BY <2>3, <1>0, RangeAppend
  <2>6. \/ pendingFunctors_' = q
        \/ pendingFunctors_' = Append(q, Own("resetWatcher"))
    BY <2>1, <2>4, <2>5, StopEffect DEF StopConnector
  <2> HIDE DEF q
  <2> QED
    BY <2>5, <2>6, OwnFunctors, RangeAppend
<1>13. CASE ConnectorStep
  <2>1. UNCHANGED <<conns, client, foreign, overlapped>>
    BY <1>13 DEF ConnectorStep, clientVars, clientHist
  <2> QED
    BY <1>13, <2>1, ConnectorQueues, ReleaseKept
<1>14. CASE UNCHANGED allVars
  <2>1. UNCHANGED <<conns, client, foreign, overlapped, functors, pendingFunctors_>>
    BY <1>14 DEF allVars, vars, queues, clientVars, clientHist
  <2> QED
    BY <2>1, ReleaseKept DEF AllQueued
<1> QED
  BY <1>2, <1>3, <1>4, <1>5, <1>6, <1>7, <1>8, <1>9, <1>10, <1>11, <1>12, <1>13,
     <1>14 DEF ClientNext

-----------------------------------------------------------------------------
(* The theorems.                                                           *)

\* A new client satisfies the invariant.
LEMMA InvInit == ClientInit => Inv
<1> SUFFICES ASSUME ClientInit PROVE Inv
  OBVIOUS
<1>1. BaseInv
  BY BaseInit
<1>2. CallsInv
  <2>0. functors = <<>> /\ pendingFunctors_ = <<>> /\ connect_ = FALSE /\ started_ = FALSE
    BY DEF ClientInit, Init
  <2>1. NoCall(functors) /\ NoCall(pendingFunctors_) /\ connect_ = started_
    <3>1. NoCall(<<>>)
      BY DEF NoCall
    <3> QED
      BY <3>1, <2>0, Zenon
  <2>2. \A t \in Callers : calls[t] = "none"
    BY DEF ClientInit
  <2> QED
    BY <2>1, <2>2 DEF CallsInv, CallsAgree
<1>3. TrackInv
  <2>1. \A c \in Conns : conns[c] = "kDisconnected" /\ ~Open(c)
    BY DEF ClientInit, Open
  <2> QED
    BY <2>1 DEF ClientInit, TrackInv, DestroyedClosed, LiveIsTracked, ShutdownComes
<1>4. DeadInv
  BY DEF ClientInit, DeadInv, ConnectorReleased
<1>5. ConnectionReleased
  BY DEF ClientInit, ConnectionReleased
<1> QED
  BY <1>1, <1>2, <1>3, <1>4, <1>5 DEF Inv

\* The inductive invariant of the client.
THEOREM ClientInvariance == ClientSpec => []Inv
<1>1. Inv /\ [ClientNext]_allVars => Inv'
  BY BaseStep, CallsStep, TrackStep, DeadStep, ReleaseStep DEF Inv
<1> QED
  BY <1>1, InvInit, PTL DEF ClientSpec

\* Once all calls have arrived, the connector does what started_ says, unless
\* calls overlapped.
THEOREM StartedIsObeyed == ClientSpec => []StartedAgrees
<1>1. Inv => StartedAgrees
  <2> SUFFICES ASSUME Inv, client = "alive", Settled, ~raced PROVE connect_ <=> started_
    BY DEF StartedAgrees
  <2>1. functors \in Seq(Functors) /\ pendingFunctors_ \in Seq(Functors) /\ started_ \in BOOLEAN
    BY DEF Inv, BaseInv, ClientTypeOK
  <2>2. NoCall(functors) /\ NoCall(pendingFunctors_) /\ ~Exchanged
    BY <2>1, NoCallRange DEF Settled, Pending, Queued
  <2>3. \A b \in BOOLEAN : ~EndsIn(functors, b) /\ ~EndsIn(pendingFunctors_, b)
    BY <2>2, CallFunctor DEF EndsIn, NoCall
  <2> QED
    BY <2>1, <2>2, <2>3 DEF Inv, CallsInv, CallsAgree
<1> QED
  BY <1>1, ClientInvariance, PTL

\* connection_ is the open connection, unless two were open at once.
THEOREM LiveConnectionIsTracked == ClientSpec => []LiveIsTracked
<1>1. Inv => LiveIsTracked
  BY DEF Inv, TrackInv
<1> QED
  BY <1>1, ClientInvariance, PTL

\* What a disconnect() asks for holds, unless the handshake slipped in between.
THEOREM DisconnectIsKept == ClientSpec => []DisconnectHolds
<1>1. Inv => DisconnectHolds
  <2> SUFFICES ASSUME Inv, client = "alive", Settled, ~started_, ~raced, ~slipped,
                      ~overlapped, NEW c \in Conns, conns[c] = "kConnected"
               PROVE  Queued(<<c, "shutdown">>)
    BY DEF DisconnectHolds
  <2>1. ~Looking
    BY DEF Settled, Looking
  <2> QED
    BY <2>1 DEF Inv, TrackInv, ShutdownComes
<1> QED
  BY <1>1, ClientInvariance, PTL

\* After ~TcpClient() on the loop, with no call overlapping it, the connector
\* hands the client no connection and is not called once it is deleted; and the
\* connection, if it is still kConnected, has its destroyed() queued.  Until
\* that runs, or if it had been shut down, its close still reaches the deleted
\* client's removeConnection().
THEOREM DeadClientIsReleased == ClientSpec => []DeadClientReleased
<1>1. Inv => DeadClientReleased
  BY DEF Inv, DeadInv, ConnectorReleased, ConnectionReleased, DeadClientReleased
<1> QED
  BY <1>1, ClientInvariance, PTL

-----------------------------------------------------------------------------
(* The connector as the client uses it.                                    *)

\* What a step of the client is to its connector, if it is not a step that
\* the connector takes by itself: a call in place, or none, with functors of
\* connections queued or run.
CalledByClient ==
    /\ UNCHANGED <<revents_, pc>>
    /\ Range(functors') \subseteq Range(functors)
    /\ \/ (ResetPending' <=> ResetPending) /\ (NoRestart \/ StartInLoop \/ Restart)
       \/ \E q \in Seq(Functors) : /\ Own("resetWatcher") \in Range(q) <=> ResetPending
                                   /\ StopInLoop(q)

\* A functor of a connection more does not change what resets wait.
LEMMA PushedOther ==
    ASSUME BaseInv, NEW c \in Conns, NEW fn \in {"shutdown", "forceClose", "destroyed"}
    PROVE  /\ Append(pendingFunctors_, <<c, fn>>) \in Seq(Functors)
           /\ Own("resetWatcher") \in Range(Append(pendingFunctors_, <<c, fn>>))
                  <=> ResetPending
BY ConnFunctor, RangeAppend, ZenonT(30) DEF BaseInv, ClientTypeOK, ResetPending

\* Nor does a call more.
LEMMA PushedCall ==
    ASSUME BaseInv, NEW fn \in {"startInLoop", "stopInLoop"}
    PROVE  Own("resetWatcher") \in Range(Append(pendingFunctors_, Own(fn)))
               <=> ResetPending
BY OwnFunctors, RangeAppend DEF BaseInv, ClientTypeOK, ResetPending

\* Each step of the client is a step of the connector by itself or a call.
LEMMA SeenByConnector ==
    ASSUME BaseInv, [ClientNext]_allVars
    PROVE  [Next]_vars \/ CalledByClient
<1>1. ASSUME UNCHANGED vars PROVE [Next]_vars
  BY <1>1
<1>2. ASSUME NEW f, Push(f),
             Own("resetWatcher") \in Range(Append(pendingFunctors_, f)) <=> ResetPending
      PROVE  CalledByClient
  BY <1>2 DEF Push, CalledByClient, NoRestart, ResetPending
<1>3. ASSUME NEW c \in Conns, Close(c), UNCHANGED <<revents_, pc>>,
             Range(functors') \subseteq Range(functors)
      PROVE  CalledByClient
  <2>1. CASE client = "deleted"
    BY <1>3, <2>1 DEF Close, CalledByClient, ResetPending
  <2>2. CASE client # "deleted"
    <3>1. ResetPending' <=> ResetPending
      BY <1>3, <2>2, PushedOther DEF Close, ResetPending
    <3> QED
      BY <1>3, <2>2, <3>1 DEF Close, CalledByClient
  <2> QED
    BY <2>1, <2>2
<1>4. CASE EnableRetry
  BY <1>1, <1>4 DEF EnableRetry
<1>5. ASSUME NEW t \in Callers, ConnectExchanges(t) \/ DisconnectExchanges(t)
      PROVE  [Next]_vars
  BY <1>1, <1>5 DEF ConnectExchanges, DisconnectExchanges
<1>6. ASSUME NEW t \in Callers, CallQueues(t) PROVE CalledByClient
  BY <1>2, <1>6, PushedCall DEF CallQueues
<1>7. ASSUME NEW t \in Callers, DisconnectLooks(t) PROVE [Next]_vars \/ CalledByClient
  <2>1. CASE connection_ = "null"
    BY <1>1, <1>7, <2>1 DEF DisconnectLooks
  <2>2. CASE connection_ # "null"
    <3>1. connection_ \in Conns /\ Push(<<connection_, "shutdown">>)
      BY <1>7, <2>2 DEF DisconnectLooks, BaseInv, ClientTypeOK
    <3> QED
      BY <1>2, <3>1, PushedOther
  <2> QED
    BY <2>1, <2>2
<1>8. CASE ConnectHere
  <2>1. StartInLoop /\ UNCHANGED <<revents_, pc, functors>>
    BY <1>8 DEF ConnectHere
  <2>2. pendingFunctors_' = pendingFunctors_
    BY <2>1 DEF StartInLoop
  <2> QED
    BY <2>1, <2>2 DEF CalledByClient, ResetPending
<1>9. CASE DisconnectHere
  <2>1. CASE started_
    <3>1. StopInLoop(pendingFunctors_) /\ UNCHANGED <<revents_, pc, functors>>
      BY <1>9, <2>1 DEF DisconnectHere
    <3>2. pendingFunctors_ \in Seq(Functors)
      BY DEF BaseInv, ClientTypeOK
    <3> QED
      BY <3>1, <3>2 DEF CalledByClient, ResetPending
  <2>2. CASE ~started_
    BY <1>1, <1>9, <2>2 DEF DisconnectHere
  <2> QED
    BY <2>1, <2>2
<1>10. ASSUME NEW c \in Conns, ForceClose(c) PROVE CalledByClient
  BY <1>2, <1>10, PushedOther DEF ForceClose
<1>11. ASSUME NEW c \in Conns, PeerClosed(c) PROVE CalledByClient
  <2>1. Close(c) /\ UNCHANGED <<revents_, pc, functors>>
    BY <1>11 DEF PeerClosed
  <2> QED
    BY <1>3, <2>1
<1>12. ASSUME NEW error \in BOOLEAN, ConnectorWrites(error) PROVE [Next]_vars
  <2>1. HandleWrite(error)
    BY <1>12 DEF ConnectorWrites
  <2> QED
    BY <2>1 DEF Next
<1>13. CASE FreedConnectorCalled
  BY <1>1, <1>13 DEF FreedConnectorCalled
<1>14. CASE RunOther
  <2>1. Range(functors') \subseteq Range(functors) /\ UNCHANGED <<revents_, pc>>
    BY <1>14, RangeTail DEF RunOther, BaseInv, ClientTypeOK
  <2>2. PICK c \in Conns : Close(c) \/ (NoRestart /\ UNCHANGED pendingFunctors_)
    BY <1>14 DEF RunOther
  <2>3. CASE NoRestart /\ UNCHANGED pendingFunctors_
    BY <2>1, <2>3 DEF CalledByClient, ResetPending
  <2> QED
    BY <1>3, <2>1, <2>2, <2>3
<1> DEFINE q == pendingFunctors_ \o DestroyedFunctors
<1>15. q \in Seq(Functors) /\ (Own("resetWatcher") \in Range(q) <=> ResetPending)
  <2>1. pendingFunctors_ \in Seq(Functors) /\ connection_ \in Conns \cup {"null"}
    BY DEF BaseInv, ClientTypeOK
  <2>2. CASE connection_ = "null"
    BY <2>1, <2>2 DEF DestroyedFunctors, ResetPending
  <2>3. CASE connection_ # "null"
    <3> DEFINE f == <<connection_, "destroyed">>
    <3>1. connection_ \in Conns /\ DestroyedFunctors = <<f>>
      BY <2>1, <2>3 DEF DestroyedFunctors
    <3>2. f \in Functors
      BY <3>1, ConnFunctor
    <3> HIDE DEF f
    <3>3. q = Append(pendingFunctors_, f)
      BY <2>1, <3>1, <3>2
    <3> QED
      BY <3>1, <3>3, PushedOther DEF f
  <2> QED
    BY <2>2, <2>3
<1> HIDE DEF q
<1>16. CASE DestroyBegins
  <2>1. NoRestart /\ UNCHANGED <<revents_, pc, functors>> /\ pendingFunctors_' = q
    BY <1>16 DEF DestroyBegins, q
  <2> QED
    BY <1>15, <2>1 DEF CalledByClient, ResetPending
<1>17. CASE DestroyEnds
  <2>1. Push(Own("stopInLoop")) \/ UNCHANGED vars
    BY <1>17 DEF DestroyEnds
  <2> QED
    BY <1>1, <1>2, <2>1, PushedCall
<1>18. CASE DestroyHere
  <2>1. /\ StopInLoop(q) \/ (NoRestart /\ pendingFunctors_' = q)
        /\ UNCHANGED <<revents_, pc, functors>>
    BY <1>18 DEF DestroyHere, StopConnector, q
  <2>2. CASE StopInLoop(q)
    BY <1>15, <2>1, <2>2 DEF CalledByClient
  <2>3. CASE NoRestart /\ pendingFunctors_' = q
    BY <1>15, <2>1, <2>3 DEF CalledByClient, ResetPending
  <2> QED
    BY <2>1, <2>2, <2>3
<1>19. CASE ConnectorStep
  BY <1>19 DEF ConnectorStep, Next
<1>20. CASE UNCHANGED allVars
  BY <1>1, <1>20 DEF allVars
<1> QED
  BY <1>4, <1>5, <1>6, <1>7, <1>8, <1>9, <1>10, <1>11, <1>12, <1>13, <1>14, <1>16,
     <1>17, <1>18, <1>19, <1>20 DEF ClientNext

\* A call keeps what the connector relies on.
LEMMA CallKeepsConnector ==
    ASSUME LoopType, AttemptInv, WatchInv, CalledByClient
    PROVE  AttemptInv' /\ WatchInv'
<1>1. UNCHANGED <<revents_, pc>> /\ Range(functors') \subseteq Range(functors)
  BY DEF CalledByClient
<1>2. ASSUME ResetPending' <=> ResetPending PROVE ResetQueued' => ResetQueued
  BY <1>1, <1>2 DEF ResetQueued, Queued, ResetPending
<1>3. CASE (ResetPending' <=> ResetPending) /\ NoRestart
  <2>1. AttemptInv'
    BY <1>3 DEF NoRestart, flags, hist, AttemptInv, AttemptType, OneRetryTimer,
                AttemptConsistent, KeepsTrying
  <2>2. WatchInv'
    BY <1>1, <1>2, <1>3, NoConnectWatch DEF NoRestart, flags, hist
  <2> QED
    BY <2>1, <2>2
<1>4. CASE (ResetPending' <=> ResetPending) /\ StartInLoop
  BY <1>1, <1>2, <1>4, StartKeeps, StartWatch
<1>5. CASE (ResetPending' <=> ResetPending) /\ Restart
  BY <1>1, <1>2, <1>5, RestartKeeps, RestartWatch
<1>6. ASSUME NEW q \in Seq(Functors), Own("resetWatcher") \in Range(q) <=> ResetPending,
             StopInLoop(q)
      PROVE  AttemptInv' /\ WatchInv'
  BY <1>1, <1>6, StopKeeps, StopInLoopWatch
<1> QED
  BY <1>3, <1>4, <1>5, <1>6 DEF CalledByClient

\* The connector's guarantees hold for the connector of a client too, though
\* the client queues functors between its own, restarts it from the callback
\* of a connection that closes, and may be gone before it.
THEOREM ConnectorInClient ==
    ClientSpec => [](OneRetryTimer /\ AttemptConsistent /\ KeepsTrying
                     /\ DanglingOnlyIfOvertaken)
<1> DEFINE Guarantees == OneRetryTimer /\ AttemptConsistent /\ KeepsTrying
                         /\ DanglingOnlyIfOvertaken
           CInv == BaseInv /\ LoopType /\ AttemptInv /\ WatchInv
<1>1. ClientInit => CInv
  BY BaseInit, LoopTypeInit, AttemptInit, WatchInit DEF ClientInit
<1>2. CInv /\ [ClientNext]_allVars => CInv'
  <2> SUFFICES ASSUME CInv, [ClientNext]_allVars PROVE CInv'
    OBVIOUS
  <2>1. BaseInv'
    BY BaseStep
  <2>2. CASE [Next]_vars
    BY <2>1, <2>2, LoopTypeInvariance, AttemptInvariance, WatchInvariance
  <2>3. CASE CalledByClient
    <3>1. LoopType'
      BY <2>1, <2>3 DEF CalledByClient, LoopType, BaseInv, ClientTypeOK
    <3> QED
      BY <2>1, <2>3, <3>1, CallKeepsConnector
  <2> QED
    BY <2>2, <2>3, SeenByConnector
<1>3. CInv => Guarantees
  BY DEF AttemptInv, WatchInv
<1> QED
  BY <1>1, <1>2, <1>3, PTL DEF ClientSpec
=============================================================================
