--------------------------- MODULE EventLoopProofs ---------------------------
(***************************************************************************)
(* Theorems about EventLoop and EventLoopThread for any set of threads,    *)
(* functors and watchers: type correctness, FIFO exactly-once execution,   *)
(* absence of lost wakeups, batches that do not grow, the implementation   *)
(* of SerialExecutor, and the usability of the loop that an                *)
(* EventLoopThread hands out.                                              *)
(***************************************************************************)
EXTENDS EventLoopThread, SequenceTheorems, TLAPS

-----------------------------------------------------------------------------
(* Sequences.                                                              *)

\* What push_back adds to the elements of a queue.
LEMMA RangeAppend ==
    ASSUME NEW S, NEW s \in Seq(S), NEW e \in S
    PROVE  Range(Append(s, e)) = Range(s) \cup {e}
<1> DEFINE t == Append(s, e)
<1>1. /\ t \in Seq(S)
      /\ Len(t) = Len(s) + 1
      /\ \A i \in 1..Len(s) : t[i] = s[i]
      /\ t[Len(s) + 1] = e
  BY AppendProperties
<1>2. DOMAIN t = 1..(Len(s) + 1) /\ DOMAIN s = 1..Len(s) /\ Len(s) \in Nat
  BY <1>1, LenProperties
<1>3. Range(t) \subseteq Range(s) \cup {e}
  <2> SUFFICES ASSUME NEW i \in 1..(Len(s) + 1)
               PROVE  t[i] \in Range(s) \cup {e}
    BY <1>2 DEF Range
  <2>1. CASE i = Len(s) + 1
    BY <2>1, <1>1
  <2>2. CASE i \in 1..Len(s)
    BY <2>2, <1>1, <1>2 DEF Range
  <2> QED
    BY <2>1, <2>2, <1>2
<1>4. Range(s) \cup {e} \subseteq Range(t)
  BY <1>1, <1>2 DEF Range
<1> QED
  BY <1>3, <1>4

\* An empty queue has no elements.
LEMMA RangeEmpty == Range(<<>>) = {}
BY DEF Range

\* The elements of two queues put together are those of both.
LEMMA RangeConcat ==
    \A s, t \in Seq(Functors) : Range(s \o t) = Range(s) \cup Range(t)
<1> SUFFICES ASSUME NEW s \in Seq(Functors), NEW t \in Seq(Functors)
             PROVE  Range(s \o t) = Range(s) \cup Range(t)
  OBVIOUS
<1>1. /\ s \o t \in Seq(Functors)
      /\ Len(s \o t) = Len(s) + Len(t)
      /\ \A i \in 1..(Len(s) + Len(t)) :
             (s \o t)[i] = IF i <= Len(s) THEN s[i] ELSE t[i - Len(s)]
  BY ConcatProperties
<1>2. /\ Len(s) \in Nat /\ Len(t) \in Nat
      /\ DOMAIN s = 1..Len(s) /\ DOMAIN t = 1..Len(t)
      /\ DOMAIN (s \o t) = 1..(Len(s) + Len(t))
  BY <1>1, LenProperties
<1>3. Range(s \o t) \subseteq Range(s) \cup Range(t)
  <2> SUFFICES ASSUME NEW i \in 1..(Len(s) + Len(t))
               PROVE  (s \o t)[i] \in Range(s) \cup Range(t)
    BY <1>2 DEF Range
  <2>1. CASE i <= Len(s)
    BY <2>1, <1>1, <1>2 DEF Range
  <2>2. CASE ~(i <= Len(s))
    <3>1. i - Len(s) \in 1..Len(t)
      BY <2>2, <1>2
    <3> QED
      BY <2>2, <3>1, <1>1, <1>2 DEF Range
  <2> QED
    BY <2>1, <2>2
<1>4. Range(s) \subseteq Range(s \o t)
  <2> SUFFICES ASSUME NEW i \in 1..Len(s) PROVE s[i] \in Range(s \o t)
    BY <1>2 DEF Range
  <2>1. i \in 1..(Len(s) + Len(t)) /\ (s \o t)[i] = s[i]
    BY <1>1, <1>2
  <2> QED
    BY <2>1, <1>2 DEF Range
<1>5. Range(t) \subseteq Range(s \o t)
  <2> SUFFICES ASSUME NEW i \in 1..Len(t) PROVE t[i] \in Range(s \o t)
    BY <1>2 DEF Range
  <2>1. i + Len(s) \in 1..(Len(s) + Len(t)) /\ ~(i + Len(s) <= Len(s))
        /\ (i + Len(s)) - Len(s) = i
    BY <1>2
  <2>2. (s \o t)[i + Len(s)] = t[i]
    BY <2>1, <1>1
  <2> QED
    BY <2>1, <2>2, <1>2 DEF Range
<1> QED
  BY <1>3, <1>4, <1>5

\* Appending to the last of three queues of functors appends to the whole.
LEMMA AppendConcat ==
    \A s, t, u \in Seq(Functors) : \A e \in Functors :
        Append((s \o t) \o u, e) = (s \o t) \o Append(u, e)
<1>1. \A x, y \in Seq(Functors) : \A e \in Functors :
          Append(x \o y, e) = x \o Append(y, e)
  OBVIOUS
<1>2. \A s, t \in Seq(Functors) : s \o t \in Seq(Functors)
  BY ConcatProperties
<1> QED
  BY <1>1, <1>2, Zenon

\* Moving the head of the second queue to the end of the first changes
\* nothing in the whole.
LEMMA MoveHead ==
    ASSUME NEW S, NEW s \in Seq(S), NEW t \in Seq(S), s # <<>>
    PROVE  Append(t, Head(s)) \o Tail(s) = t \o s
OBVIOUS

\* The head and the tail of two queues put together.
LEMMA HeadTailConcat ==
    ASSUME NEW S, NEW s \in Seq(S), NEW t \in Seq(S), s # <<>>
    PROVE  Head(s \o t) = Head(s) /\ Tail(s \o t) = Tail(s) \o t
OBVIOUS

-----------------------------------------------------------------------------
(* Type correctness.                                                       *)

\* Every variable of the loop keeps its type in every reachable state
\* (EventLoop.h's members, the local vector, the histories).
LEMMA TypeInvariance == TypeOK /\ [Next]_vars => TypeOK'
<1> SUFFICES ASSUME TypeOK, [Next]_vars PROVE TypeOK'
  OBVIOUS
<1> USE EventfdAssumption DEF TypeOK, loopVars, histVars, vars, Control
<1>1. ASSUME NEW t \in Threads, NEW f \in Functors, QueueInLoop(t, f)
      PROVE  TypeOK'
  <2>1. pendingFunctors_' \in Seq(Functors) /\ submitted' \in Seq(Functors)
    BY <1>1, AppendProperties DEF QueueInLoop
  <2> QED
    BY <1>1, <2>1 DEF QueueInLoop
<1>2. ASSUME NEW t \in Threads, NEW f \in Functors, RunInLoop(t, f)
      PROVE  TypeOK'
  BY <1>1, <1>2 DEF RunInLoop
<1>3. ASSUME NEW t \in Threads, Quit(t) PROVE TypeOK'
  BY <1>3 DEF Quit
<1>4. ASSUME NEW t \in Threads, Wakeup(t) PROVE TypeOK'
  BY <1>4 DEF Wakeup
<1>5. CASE LoopEnter
  BY <1>5 DEF LoopEnter
<1>6. CASE PollIdle
  BY <1>6 DEF PollIdle
<1>7. ASSUME NEW ready \in SUBSET Watchers, PollReady(ready) PROVE TypeOK'
  BY <1>7 DEF PollReady
<1>8. CASE LoopExit
  BY <1>8 DEF LoopExit
<1>9. CASE LoopPoll
  BY <1>9 DEF LoopPoll
<1>10. CASE HandleWakeup
  BY <1>10 DEF HandleWakeup
<1>11. ASSUME NEW w \in IoWatchers, HandleEvents(w) PROVE TypeOK'
  BY <1>11 DEF HandleEvents
<1>12. CASE EventsReturn
  BY <1>12 DEF EventsReturn
<1>13. CASE DoPendingFunctors
  <2>1. <<>> \in Seq(Functors)
    BY EmptySeq
  <2> QED
    BY <1>13, <2>1 DEF DoPendingFunctors
<1>14. CASE RunFunctor
  <2>1. functors' \in Seq(Functors) /\ executed' \in Seq(Functors)
    BY <1>14, HeadTailProperties, AppendProperties DEF RunFunctor
  <2> QED
    BY <1>14, <2>1 DEF RunFunctor
<1>15. CASE FunctorReturn
  BY <1>15 DEF FunctorReturn
<1>16. CASE PendingDone
  BY <1>16 DEF PendingDone
<1>17. CASE UNCHANGED vars
  BY <1>17
<1> QED
  BY <1>1, <1>2, <1>3, <1>4, <1>5, <1>6, <1>7, <1>8, <1>9, <1>10, <1>11,
     <1>12, <1>13, <1>14, <1>15, <1>16, <1>17 DEF Next, Call, Poll, Body

\* The types hold initially.
LEMMA TypeInit == Init => TypeOK
<1>1. <<>> \in Seq(Functors)
  BY EmptySeq
<1>2. 0 \in 0..MaxEventfd
  BY EventfdAssumption
<1> QED
  BY <1>1, <1>2 DEF Init, TypeOK, Control

\* TypeOK is an invariant of the loop.
THEOREM TypeCorrect == Spec => []TypeOK
BY TypeInit, TypeInvariance, PTL DEF Spec

-----------------------------------------------------------------------------
(* FIFO, exactly once.                                                     *)

\* The queue, the running batch and the functors already run account for
\* every functor pushed, in the order of the pushes: queueInLoop() only adds
\* at the end, the swap of doPendingFunctors() only moves the boundary
\* between batch and queue, and it happens when the old batch is used up.
BatchUsedUp == pc \notin {"run", "cb"} => functors = <<>>

\* Every step moves functors from the front of one sequence to the end of
\* the one before it, or adds one at the end.
LEMMA FifoInvariance ==
    TypeOK /\ BatchUsedUp /\ ExactlyOnceFifo /\ [Next]_vars
        => BatchUsedUp' /\ ExactlyOnceFifo'
<1> SUFFICES ASSUME TypeOK, BatchUsedUp, ExactlyOnceFifo, [Next]_vars
             PROVE  BatchUsedUp' /\ ExactlyOnceFifo'
  OBVIOUS
<1> USE DEF BatchUsedUp, ExactlyOnceFifo, loopVars, histVars, vars
<1>0. /\ executed \in Seq(Functors) /\ functors \in Seq(Functors)
      /\ pendingFunctors_ \in Seq(Functors) /\ pc \in Control
  BY DEF TypeOK
<1>1. ASSUME NEW t \in Threads, NEW f \in Functors, QueueInLoop(t, f)
      PROVE  BatchUsedUp' /\ ExactlyOnceFifo'
  <2>1. Append((executed \o functors) \o pendingFunctors_, f)
          = (executed \o functors) \o Append(pendingFunctors_, f)
    BY <1>0, AppendConcat
  <2> QED
    BY <1>1, <2>1 DEF QueueInLoop
<1>2. ASSUME NEW t \in Threads, NEW f \in Functors, RunInLoop(t, f)
      PROVE  BatchUsedUp' /\ ExactlyOnceFifo'
  BY <1>1, <1>2 DEF RunInLoop
<1>3. CASE DoPendingFunctors
  <2>1. executed \o <<>> = executed
    BY <1>0, ConcatEmptySeq
  <2>2. executed \o pendingFunctors_ \in Seq(Functors)
    BY <1>0, ConcatProperties
  <2>3. (executed \o pendingFunctors_) \o <<>> = executed \o pendingFunctors_
    BY <2>2, ConcatEmptySeq
  <2> QED
    BY <1>3, <2>1, <2>3 DEF DoPendingFunctors
<1>4. CASE RunFunctor
  <2>1. executed' \o functors' = executed \o functors
    BY <1>0, <1>4, MoveHead DEF RunFunctor
  <2> QED
    BY <1>4, <2>1 DEF RunFunctor
<1>5. ASSUME NEW t \in Threads, Quit(t) \/ Wakeup(t)
      PROVE  BatchUsedUp' /\ ExactlyOnceFifo'
  BY <1>5 DEF Quit, Wakeup
<1>6. CASE LoopEnter \/ PollIdle \/ LoopExit \/ LoopPoll \/ HandleWakeup
  BY <1>6 DEF LoopEnter, PollIdle, LoopExit, LoopPoll, HandleWakeup
<1>7. ASSUME NEW ready \in SUBSET Watchers, PollReady(ready)
      PROVE  BatchUsedUp' /\ ExactlyOnceFifo'
  BY <1>7 DEF PollReady
<1>8. ASSUME NEW w \in IoWatchers, HandleEvents(w)
      PROVE  BatchUsedUp' /\ ExactlyOnceFifo'
  BY <1>8 DEF HandleEvents
<1>9. CASE EventsReturn \/ FunctorReturn \/ PendingDone
  BY <1>9 DEF EventsReturn, FunctorReturn, PendingDone
<1>10. CASE UNCHANGED vars
  BY <1>10
<1> QED
  BY <1>1, <1>2, <1>3, <1>4, <1>5, <1>6, <1>7, <1>8, <1>9, <1>10
     DEF Next, Call, Poll, Body

\* Both hold before anything is queued.
LEMMA FifoInit == Init => BatchUsedUp /\ ExactlyOnceFifo
BY ConcatEmptySeq, EmptySeq DEF Init, BatchUsedUp, ExactlyOnceFifo

\* For any number of threads and functors, what was pushed is what ran, then
\* the rest of the batch, then the queue: nothing is lost, run twice or
\* reordered.
THEOREM FifoCorrect == Spec => []ExactlyOnceFifo
<1>1. Init => TypeOK /\ BatchUsedUp /\ ExactlyOnceFifo
  BY TypeInit, FifoInit
<1>2. TypeOK /\ BatchUsedUp /\ ExactlyOnceFifo /\ [Next]_vars
        => (TypeOK /\ BatchUsedUp /\ ExactlyOnceFifo)'
  BY TypeInvariance, FifoInvariance
<1> QED
  BY <1>1, <1>2, PTL DEF Spec

-----------------------------------------------------------------------------
(* No lost wakeup.                                                         *)

\* Work the loop thread has not been told of.
News == ~ (Range(pendingFunctors_) \subseteq early)

\* The inductive form of NoLostWakeup.  callingPendingFunctors_ tells
\* exactly whether the thread is inside doPendingFunctors(): this is what
\* makes the test in queueInLoop() sound.  Work may be waiting without a
\* wakeup only while watchers are being handled, because the swap comes next.
WakeupInv ==
    /\ callingPendingFunctors_ <=> pc \in {"run", "cb"}
    /\ pc \notin {"handle", "iocb"} /\ News => WakeupComing
    /\ pc = "poll" /\ quit_ => WakeupComing

\* Every step preserves it.
LEMMA WakeupInvariance == TypeOK /\ WakeupInv /\ [Next]_vars => WakeupInv'
<1> SUFFICES ASSUME TypeOK, WakeupInv, [Next]_vars PROVE WakeupInv'
  OBVIOUS
<1> USE DEF WakeupInv, WakeupComing, loopVars, histVars, vars
<1>0. /\ pc \in Control /\ wakeupFd_ \in 0..MaxEventfd
      /\ pendingFunctors_ \in Seq(Functors)
      /\ callingPendingFunctors_ \in BOOLEAN
  BY DEF TypeOK
<1>1. ASSUME NEW t \in Threads, NEW f \in Functors, QueueInLoop(t, f)
      PROVE  WakeupInv'
  <2>1. Range(pendingFunctors_') = Range(pendingFunctors_) \cup {f}
    BY <1>0, <1>1, RangeAppend DEF QueueInLoop
  <2>2. CASE t # LoopThread \/ callingPendingFunctors_
    <3>1. t \in waking'
      BY <1>1, <2>2 DEF QueueInLoop, NeedsWakeup
    <3> QED
      BY <1>1, <3>1 DEF QueueInLoop
  <2>3. CASE t = LoopThread /\ ~callingPendingFunctors_ /\ pc = "outside"
    <3>1. News' => News
      BY <1>1, <2>1, <2>3 DEF QueueInLoop, News
    <3> QED
      BY <1>1, <2>3, <3>1 DEF QueueInLoop
  <2>4. CASE t = LoopThread /\ ~callingPendingFunctors_ /\ pc # "outside"
    <3>1. pc = "iocb"
      BY <1>1, <2>4 DEF QueueInLoop, CanCall
    <3> QED
      BY <1>1, <2>4, <3>1 DEF QueueInLoop
  <2> QED
    BY <2>2, <2>3, <2>4
<1>2. ASSUME NEW t \in Threads, NEW f \in Functors, RunInLoop(t, f)
      PROVE  WakeupInv'
  BY <1>1, <1>2 DEF RunInLoop, News
<1>3. ASSUME NEW t \in Threads, Quit(t) PROVE WakeupInv'
  <2>1. CASE t = LoopThread
    BY <1>3, <2>1 DEF Quit, CanCall, News
  <2>2. CASE t # LoopThread
    <3>1. t \in waking'
      BY <1>3, <2>2 DEF Quit
    <3> QED
      BY <1>3, <3>1 DEF Quit
  <2> QED
    BY <2>1, <2>2
<1>4. ASSUME NEW t \in Threads, Wakeup(t) PROVE WakeupInv'
  <2>1. wakeupFd_' > 0
    BY <1>0, <1>4, EventfdAssumption DEF Wakeup
  <2> QED
    BY <1>4, <2>1 DEF Wakeup
<1>5. CASE DoPendingFunctors
  <2>1. ~News'
    BY <1>5, RangeEmpty DEF DoPendingFunctors, News
  <2> QED
    BY <1>5, <2>1 DEF DoPendingFunctors
<1>6. CASE LoopEnter \/ LoopExit \/ LoopPoll
  BY <1>6 DEF LoopEnter, LoopExit, LoopPoll, News
<1>7. CASE PollIdle \/ HandleWakeup \/ EventsReturn
  BY <1>7 DEF PollIdle, HandleWakeup, EventsReturn
<1>8. ASSUME NEW ready \in SUBSET Watchers, PollReady(ready) PROVE WakeupInv'
  BY <1>8 DEF PollReady
<1>9. ASSUME NEW w \in IoWatchers, HandleEvents(w) PROVE WakeupInv'
  BY <1>9 DEF HandleEvents
<1>10. CASE RunFunctor \/ FunctorReturn \/ PendingDone
  BY <1>10 DEF RunFunctor, FunctorReturn, PendingDone, News
<1>11. CASE UNCHANGED vars
  BY <1>11 DEF News
<1> QED
  BY <1>1, <1>2, <1>3, <1>4, <1>5, <1>6, <1>7, <1>8, <1>9, <1>10, <1>11
     DEF Next, Call, Poll, Body

\* A new loop has nothing to be told.
LEMMA WakeupInit == Init => WakeupInv
BY RangeEmpty DEF Init, WakeupInv, News

\* For any number of callers, no interleaving of push, eventfd write, poll
\* and read leaves the loop thread blocked with unannounced work or an
\* unannounced quit.
THEOREM WakeupCorrect == Spec => []NoLostWakeup
<1>1. Init => TypeOK /\ WakeupInv
  BY TypeInit, WakeupInit
<1>2. TypeOK /\ WakeupInv /\ [Next]_vars => (TypeOK /\ WakeupInv)'
  BY TypeInvariance, WakeupInvariance
<1>3. TypeOK /\ WakeupInv => NoLostWakeup
  BY DEF TypeOK, WakeupInv, NoLostWakeup, News
<1> QED
  BY <1>1, <1>2, <1>3, PTL DEF Spec

-----------------------------------------------------------------------------
(* EventLoop implements SerialExecutor.                                    *)

\* The elements of three queues of functors put together.
LEMMA RangeConcat3 ==
    \A s, t, u \in Seq(Functors) :
        Range((s \o t) \o u) = Range(s) \cup Range(t \o u)
<1> SUFFICES ASSUME NEW s \in Seq(Functors), NEW t \in Seq(Functors),
                    NEW u \in Seq(Functors)
             PROVE  Range((s \o t) \o u) = Range(s) \cup Range(t \o u)
  OBVIOUS
<1>1. t \o u \in Seq(Functors)
  BY ConcatProperties
<1>2. Range(s \o (t \o u)) = Range(s) \cup Range(t \o u)
  BY <1>1, RangeConcat
<1>3. (s \o t) \o u = s \o (t \o u)
  BY ConcatAssociative
<1> QED
  BY <1>2, <1>3

\* One step of the threads is one step of the executor, or none: a push is
\* its Submit, the start of a functor its Execute, and everything else
\* (wakeups, polls, the swap of the batch) leaves its queue as it was.
LEMMA ExecutorStep ==
    TypeOK /\ BatchUsedUp /\ ExactlyOnceFifo /\ [Next]_vars
        => [Executor!Next]_(Executor!execVars)
<1> SUFFICES ASSUME TypeOK, BatchUsedUp, ExactlyOnceFifo, [Next]_vars
             PROVE  [Executor!Next]_(Executor!execVars)
  OBVIOUS
<1> USE DEF loopVars, histVars, vars, Executor!execVars
<1>0. /\ executed \in Seq(Functors) /\ functors \in Seq(Functors)
      /\ pendingFunctors_ \in Seq(Functors)
  BY DEF TypeOK
<1>1. ASSUME NEW t \in Threads, NEW f \in Functors, QueueInLoop(t, f)
      PROVE  Executor!Submit(f)
  <2>1. f \notin Range(submitted)
    BY <1>1 DEF QueueInLoop, Fresh
  <2>2. Range(submitted)
          = Range(executed) \cup Range(functors \o pendingFunctors_)
    BY <1>0, RangeConcat3 DEF ExactlyOnceFifo
  <2>3. functors \o Append(pendingFunctors_, f)
          = Append(functors \o pendingFunctors_, f)
    BY <1>0
  <2>4. \A s : Executor!Range(s) = Range(s)
    BY DEF Range, Executor!Range
  <2> QED
    BY <1>1, <2>1, <2>2, <2>3, <2>4 DEF QueueInLoop, Executor!Submit
<1>2. ASSUME NEW t \in Threads, NEW f \in Functors, RunInLoop(t, f)
      PROVE  [Executor!Next]_(Executor!execVars)
  <2>1. CASE QueueInLoop(t, f)
    BY <1>1, <2>1 DEF Executor!Next
  <2>2. CASE UNCHANGED <<loopVars, executed>>
    BY <2>2
  <2> QED
    BY <1>2, <2>1, <2>2 DEF RunInLoop
<1>3. CASE DoPendingFunctors
  <2>1. functors = <<>>
    BY <1>3 DEF DoPendingFunctors, BatchUsedUp
  <2>2. pendingFunctors_ \o <<>> = <<>> \o pendingFunctors_
    BY <1>0, ConcatEmptySeq
  <2>3. functors' \o pendingFunctors_' = functors \o pendingFunctors_
    BY <1>3, <2>1, <2>2 DEF DoPendingFunctors
  <2> QED
    BY <1>3, <2>3 DEF DoPendingFunctors
<1>4. CASE RunFunctor
  <2> DEFINE queue == functors \o pendingFunctors_
  <2>1. functors # <<>>
    BY <1>4 DEF RunFunctor
  <2>2. /\ Head(queue) = Head(functors)
        /\ Tail(queue) = Tail(functors) \o pendingFunctors_
    BY <1>0, <2>1, HeadTailConcat
  <2>3. queue # <<>>
    BY <1>0, <2>1, ConcatEqualIffEmpty
  <2> QED
    BY <1>4, <2>2, <2>3 DEF RunFunctor, Executor!Execute, Executor!Next
<1>5. ASSUME NEW t \in Threads, Quit(t) \/ Wakeup(t)
      PROVE  UNCHANGED Executor!execVars
  BY <1>5 DEF Quit, Wakeup
<1>6. CASE LoopEnter \/ PollIdle \/ LoopExit \/ LoopPoll \/ HandleWakeup
  BY <1>6 DEF LoopEnter, PollIdle, LoopExit, LoopPoll, HandleWakeup
<1>7. ASSUME NEW ready \in SUBSET Watchers, PollReady(ready)
      PROVE  UNCHANGED Executor!execVars
  BY <1>7 DEF PollReady
<1>8. ASSUME NEW w \in IoWatchers, HandleEvents(w)
      PROVE  UNCHANGED Executor!execVars
  BY <1>8 DEF HandleEvents
<1>9. CASE EventsReturn \/ FunctorReturn \/ PendingDone
  BY <1>9 DEF EventsReturn, FunctorReturn, PendingDone
<1>10. CASE UNCHANGED vars
  BY <1>10
<1>11. ASSUME NEW t \in Threads, NEW f \in Functors, QueueInLoop(t, f)
       PROVE  Executor!Next
  BY <1>1, <1>11 DEF Executor!Next
<1> QED
  BY <1>2, <1>3, <1>4, <1>5, <1>6, <1>7, <1>8, <1>9, <1>10, <1>11
     DEF Next, Call, Poll, Body

\* For any number of threads and functors, the loop behaves as a serial
\* executor.
THEOREM ExecutorCorrect == Spec => ImplementsExecutor
<1>1. Init => TypeOK /\ BatchUsedUp /\ ExactlyOnceFifo
  BY TypeInit, FifoInit
<1>2. TypeOK /\ BatchUsedUp /\ ExactlyOnceFifo /\ [Next]_vars
        => (TypeOK /\ BatchUsedUp /\ ExactlyOnceFifo)'
  BY TypeInvariance, FifoInvariance
<1>3. Init => Executor!Init
  BY ConcatEmptySeq, EmptySeq DEF Init, Executor!Init
<1> QED
  BY <1>1, <1>2, <1>3, ExecutorStep, PTL
     DEF Spec, ImplementsExecutor, Executor!Spec

-----------------------------------------------------------------------------
(* Batches.                                                                *)

\* While a batch runs, a step leaves it alone or takes its first functor.
LEMMA BatchStep ==
    TypeOK /\ WakeupInv /\ [Next]_vars =>
        [callingPendingFunctors_ /\ callingPendingFunctors_' =>
             Len(functors') <= Len(functors)]_vars
<1> SUFFICES ASSUME TypeOK, WakeupInv, [Next]_vars, callingPendingFunctors_
             PROVE  Len(functors') <= Len(functors)
  OBVIOUS
<1> USE DEF loopVars, histVars, vars
<1>0. /\ functors \in Seq(Functors) /\ Len(functors) \in Nat
      /\ pc \in {"run", "cb"}
  BY DEF TypeOK, WakeupInv
<1>1. CASE functors' = functors
  BY <1>0, <1>1
<1>2. CASE RunFunctor
  <2>1. Len(functors') = Len(functors) - 1
    BY <1>0, <1>2, HeadTailProperties DEF RunFunctor
  <2> QED
    BY <1>0, <2>1
<1>3. ~DoPendingFunctors
  BY <1>0 DEF DoPendingFunctors
<1>4. ASSUME NEW t \in Threads, NEW f \in Functors,
             QueueInLoop(t, f) \/ RunInLoop(t, f)
      PROVE  functors' = functors
  BY <1>4 DEF QueueInLoop, RunInLoop
<1>5. ASSUME NEW t \in Threads, Quit(t) \/ Wakeup(t) PROVE functors' = functors
  BY <1>5 DEF Quit, Wakeup
<1>6. LoopEnter \/ Poll => functors' = functors
  BY DEF LoopEnter, Poll, PollIdle, PollReady
<1>7. CASE Body
  BY <1>1, <1>2, <1>3, <1>7
  DEF Body, LoopExit, LoopPoll, HandleWakeup, HandleEvents, EventsReturn,
      FunctorReturn, PendingDone
<1> QED
  BY <1>1, <1>4, <1>5, <1>6, <1>7 DEF Next, Call

\* For any number of callers, what is queued while a batch runs waits for the
\* next one.
THEOREM BatchesOnlyShrink == Spec => BatchOnlyShrinks
<1>1. Init => TypeOK /\ WakeupInv
  BY TypeInit, WakeupInit
<1>2. TypeOK /\ WakeupInv /\ [Next]_vars => (TypeOK /\ WakeupInv)'
  BY TypeInvariance, WakeupInvariance
<1> QED
  BY <1>1, <1>2, BatchStep, PTL DEF Spec, BatchOnlyShrinks

-----------------------------------------------------------------------------
(* EventLoopThread.                                                        *)

\* loop_ and the lifetime of the loop follow threadFunc(), and the owner
\* leaves its constructor only after threadFunc() has published the loop.
ThreadFollows ==
    /\ tpc \in ThreadControl /\ opc \in OwnerControl
    /\ loop_ = IF tpc \in {"loop", "looping", "clear"} THEN "loop" ELSE "null"
    /\ life = "alive" <=> tpc \notin {"construct", "end"}
    /\ opc = "ready" => tpc \notin {"construct", "lock", "stuck", "publish"}

\* Nobody but the destructor quits the loop, so threadFunc() does not get
\* past loop() before the destructor runs.
NotQuitEarly ==
    ~othersQuit => /\ opc # "crashed"
                   /\ opc \notin {"joining", "joined"} =>
                          ~quit_ /\ tpc \notin {"clear", "destroy", "end"}

ThreadInv == ThreadFollows /\ NotQuitEarly

\* Each step of owner, thread, loop and callers keeps it.
LEMMA ThreadStep == ThreadInv /\ [ThreadNext]_allVars => ThreadInv'
<1> SUFFICES ASSUME ThreadInv, [ThreadNext]_allVars PROVE ThreadInv'
  OBVIOUS
<1> USE DEF ThreadInv, ThreadFollows, NotQuitEarly, OwnerControl, ThreadControl
<1>1. ASSUME Ctor PROVE ThreadInv'
  <2>1. quit_' = quit_
    BY <1>1 DEF Ctor, ConstructMembers, CtorLock, CtorCheck, CtorWait, vars,
                loopVars
  <2>2. CASE ConstructMembers \/ CtorLock \/ CtorWait
    BY <2>1, <2>2 DEF ConstructMembers, CtorLock, CtorWait
  <2>3. CASE CtorCheck
    BY <2>1, <2>3 DEF CtorCheck
  <2> QED
    BY <1>1, <2>2, <2>3 DEF Ctor
<1>2. ASSUME NEW spurious \in BOOLEAN, CtorWakes(spurious) PROVE ThreadInv'
  BY <1>2 DEF CtorWakes, vars, loopVars
<1>3. CASE DtorQuit
  BY <1>3 DEF DtorQuit, vars, loopVars
<1>4. CASE DtorJoin
  BY <1>4 DEF DtorJoin, vars, loopVars
<1>5. ASSUME ThreadFunc PROVE ThreadInv'
  <2>1. CASE ThreadConstruct \/ ThreadLock \/ ThreadPublish
    BY <2>1 DEF ThreadConstruct, ThreadLock, ThreadPublish, vars, loopVars
  <2>2. CASE ThreadEnterLoop
    BY <2>2 DEF ThreadEnterLoop, LoopEnter
  <2>3. CASE ThreadLoopReturns
    BY <2>3 DEF ThreadLoopReturns, LoopExit
  <2>4. CASE ThreadClear \/ ThreadDestroy
    BY <2>4 DEF ThreadClear, ThreadDestroy, vars, loopVars
  <2> QED
    BY <1>5, <2>1, <2>2, <2>3, <2>4 DEF ThreadFunc
<1>6. CASE UseLoop
  <2>1. PICK t \in Threads :
            \/ \E f \in Functors : QueueInLoop(t, f) /\ UNCHANGED threadVars
            \/ Quit(t) /\ othersQuit' = TRUE
               /\ UNCHANGED <<loop_, life, mutex_, notified, opc, tpc>>
    BY <1>6 DEF UseLoop
  <2>2. CASE othersQuit' = TRUE /\ UNCHANGED <<loop_, life, opc, tpc>>
    BY <2>2
  <2>3. CASE quit_' = quit_ /\ UNCHANGED threadVars
    BY <2>3 DEF threadVars
  <2> QED
    BY <2>1, <2>2, <2>3 DEF QueueInLoop
<1>7. ASSUME quit_' = quit_, UNCHANGED threadVars PROVE ThreadInv'
  BY <1>7 DEF threadVars
<1>8. ASSUME NEW t \in Threads, FinishWakeup(t) PROVE ThreadInv'
  BY <1>7, <1>8 DEF FinishWakeup, Wakeup
<1>9. CASE LoopStep
  <2>1. quit_' = quit_
    BY <1>9
    DEF LoopStep, LoopPoll, HandleWakeup, HandleEvents, EventsReturn,
        DoPendingFunctors, RunFunctor, FunctorReturn, PendingDone
  <2> QED
    BY <1>7, <1>9, <2>1 DEF LoopStep
<1>10. CASE PollStep
  BY <1>7, <1>10 DEF PollStep, Poll, PollIdle, PollReady
<1>11. CASE UNCHANGED allVars
  BY <1>7, <1>11 DEF allVars, vars, loopVars
<1> QED
  BY <1>1, <1>2, <1>3, <1>4, <1>5, <1>6, <1>8, <1>9, <1>10, <1>11 DEF ThreadNext

\* Whatever memory the mutex is made from, however the new thread, the
\* constructor and the callers interleave and whatever wakes them up, the
\* constructor hands out a live loop, which stays so until it is quit.
THEOREM LoopIsUsable == ThreadSpec => []LoopUsable
<1>1. ThreadInit => ThreadInv
  BY DEF ThreadInit, Init, ThreadInv, ThreadFollows, NotQuitEarly, OwnerControl,
         ThreadControl
<1>2. ThreadInv => LoopUsable
  BY DEF ThreadInv, ThreadFollows, NotQuitEarly, LoopUsable, ThreadControl
<1> QED
  BY <1>1, <1>2, ThreadStep, PTL DEF ThreadSpec
=============================================================================
