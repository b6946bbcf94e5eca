------------------------ MODULE BoundedBlockingQueue ------------------------
(***************************************************************************)
(* nutty::BoundedBlockingQueue and nutty::BlockingQueue                    *)
(* (nutty/util/BoundedBlockingQueue.h, BlockingQueue.h): a queue between   *)
(* threads, with a mutex and two condition variables, or one if there is   *)
(* no bound.                                                               *)
(*                                                                         *)
(* What a thread does from locking mutex_ to unlocking it, or to the wait  *)
(* that unlocks it, is one step.  A thread that was notified, or that      *)
(* wakes up without reason, has mutex_ to lock again; others may be first. *)
(* The values play no part, only how many there are.                       *)
(***************************************************************************)
EXTENDS Integers, FiniteSets, ConditionVariable

CONSTANTS
    Threads,       \* any of them may put and take
    Capacities,    \* of bounded queues
    MaxPuts        \* put() is called this often

Unbounded == 0     \* the capacity of a BlockingQueue, which has none

ASSUME QueueAssumption ==
    IsFiniteSet(Threads) /\ MaxPuts \in Nat /\ Capacities \subseteq Nat \ {0}

VARIABLES
    capacity_,
    queue_,        \* number of values in it
    cvnotempty_,   \* threads waiting on it; cv_ in BlockingQueue
    cvnotfull_,
    call,          \* what each thread is in: "none", "put", "take"
    puts           \* calls of put() so far

queueVars == <<capacity_, queue_, cvnotempty_, cvnotfull_, call, puts>>

Waiting == cvnotempty_ \cup cvnotfull_

\* Threads inside a call that have mutex_ to lock.
Running(fn) == {t \in Threads : call[t] = fn /\ t \notin Waiting}

QueueInit ==
    /\ capacity_ \in Capacities \cup {Unbounded}
    /\ queue_ = 0
    /\ cvnotempty_ = {}
    /\ cvnotfull_ = {}
    /\ call = [t \in Threads |-> "none"]
    /\ puts = 0

\* A call of put() or take(), up to locking mutex_.
CallPut(t) ==
    /\ call[t] = "none"
    /\ puts < MaxPuts
    /\ puts' = puts + 1
    /\ call' = [call EXCEPT ![t] = "put"]
    /\ UNCHANGED <<capacity_, queue_, cvnotempty_, cvnotfull_>>

CallTake(t) ==
    /\ call[t] = "none"
    /\ call' = [call EXCEPT ![t] = "take"]
    /\ UNCHANGED <<capacity_, queue_, cvnotempty_, cvnotfull_, puts>>

Full == capacity_ # Unbounded /\ queue_ >= capacity_

PutWaits(t) ==
    /\ t \in Running("put")
    /\ Full
    /\ cvnotfull_' = cvnotfull_ \cup {t}
    /\ UNCHANGED <<capacity_, queue_, cvnotempty_, call, puts>>

\* Mutant: a waiting taker is told only of the first value.
PutNotifiesFirst(t) ==
    /\ t \in Running("put")
    /\ ~Full
    /\ queue_' = queue_ + 1
    /\ IF queue_ = 0
       THEN cvnotempty_' \in NotifyOne(cvnotempty_)
       ELSE UNCHANGED cvnotempty_
    /\ call' = [call EXCEPT ![t] = "none"]
    /\ UNCHANGED <<capacity_, cvnotfull_, puts>>

Put(t) ==
    /\ t \in Running("put")
    /\ ~Full
    /\ queue_' = queue_ + 1
    /\ cvnotempty_' \in NotifyOne(cvnotempty_)
    /\ call' = [call EXCEPT ![t] = "none"]
    /\ UNCHANGED <<capacity_, cvnotfull_, puts>>

TakeWaits(t) ==
    /\ t \in Running("take")
    /\ queue_ = 0
    /\ cvnotempty_' = cvnotempty_ \cup {t}
    /\ UNCHANGED <<capacity_, queue_, cvnotfull_, call, puts>>

\* Mutant: room is not announced.
TakeSilently(t) ==
    /\ t \in Running("take")
    /\ queue_ # 0
    /\ queue_' = queue_ - 1
    /\ call' = [call EXCEPT ![t] = "none"]
    /\ UNCHANGED <<capacity_, cvnotempty_, cvnotfull_, puts>>

\* Nobody waits for room in a BlockingQueue, which does not notify.
Take(t) ==
    /\ t \in Running("take")
    /\ queue_ # 0
    /\ queue_' = queue_ - 1
    /\ cvnotfull_' \in NotifyOne(cvnotfull_)
    /\ call' = [call EXCEPT ![t] = "none"]
    /\ UNCHANGED <<capacity_, cvnotempty_, puts>>

\* A wait() may return without a notification.
QueueSpurious(t) ==
    /\ t \in Waiting
    /\ cvnotempty_' = cvnotempty_ \ {t}
    /\ cvnotfull_' = cvnotfull_ \ {t}
    /\ UNCHANGED <<capacity_, queue_, call, puts>>

Step(t) == PutWaits(t) \/ Put(t) \/ TakeWaits(t) \/ Take(t)

QueueNext ==
    \E t \in Threads : CallPut(t) \/ CallTake(t) \/ Step(t) \/ QueueSpurious(t)

\* A thread that wants mutex_ gets it.
QueueFairness == \A t \in Threads : WF_queueVars(Step(t))

QueueSpec == QueueInit /\ [][QueueNext]_queueVars

-----------------------------------------------------------------------------
(* Properties.                                                             *)

\* A thread sleeps in take() with values in the queue only if as many
\* others are on their way to them, and in put() with room in the queue only
\* if as many others are on their way to it: one notify_one() per value and
\* per place is enough, although a third thread may come first.
NobodyForgotten ==
    /\ cvnotempty_ # {} => Cardinality(Running("take")) >= queue_
    /\ cvnotfull_ # {} => Cardinality(Running("put")) >= capacity_ - queue_

\* Values and threads that want one do not stay apart for ever.
ValuesTaken == []<>(queue_ = 0 \/ \A t \in Threads : call[t] # "take")
=============================================================================
