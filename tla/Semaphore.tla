----------------------------- MODULE Semaphore -----------------------------
(***************************************************************************)
(* nutty::Semaphore (nutty/util/Semaphore.h): a counter with a mutex and a *)
(* condition variable, and waits that may time out.                        *)
(*                                                                         *)
(* Critical sections are single steps, as in BoundedBlockingQueue.  A      *)
(* timed wait reports a timeout when its deadline has passed by the time   *)
(* the thread is back with the mutex, be it notified or not.               *)
(***************************************************************************)
EXTENDS Integers, FiniteSets, ConditionVariable

CONSTANTS
    Waiters,     \* threads that notify and wait
    InitCount,   \* the constructor's argument
    MaxCount     \* notify() is not called beyond this count

ASSUME SemaphoreAssumption ==
    IsFiniteSet(Waiters) /\ InitCount \in Nat /\ MaxCount \in Nat

VARIABLES
    count_,
    cv_,         \* threads waiting on it
    blocked,     \* the wait a thread has blocked in: "none", "wait", "timed"
    swallowed    \* history: a thread that had been woken reported a timeout,
                 \* with a positive count

semaphoreVars == <<count_, cv_, blocked, swallowed>>

SemaphoreInit ==
    /\ count_ = InitCount
    /\ cv_ = {}
    /\ blocked = [t \in Waiters |-> "none"]
    /\ swallowed = FALSE

\* Waiters that have been woken and have mutex_ to lock.
Woken == {t \in Waiters : blocked[t] # "none"} \ cv_

\* Mutant: only the step from zero is announced.
NotifyFirst(t) ==
    /\ blocked[t] = "none"
    /\ count_ < MaxCount
    /\ count_' = count_ + 1
    /\ IF count_ = 0 THEN cv_' \in NotifyOne(cv_) ELSE UNCHANGED cv_
    /\ UNCHANGED <<blocked, swallowed>>

Notify(t) ==
    /\ blocked[t] = "none"
    /\ count_ < MaxCount
    /\ count_' = count_ + 1
    /\ cv_' \in NotifyOne(cv_)
    /\ UNCHANGED <<blocked, swallowed>>

\* wait(), and wait_for() and wait_until(), up to their return or first wait.
Wait(t, fn) ==
    /\ blocked[t] = "none"
    /\ IF count_ = 0
       THEN /\ blocked' = [blocked EXCEPT ![t] = fn]
            /\ cv_' = cv_ \cup {t}
            /\ UNCHANGED count_
       ELSE /\ count_' = count_ - 1
            /\ UNCHANGED <<blocked, cv_>>
    /\ UNCHANGED swallowed

\* try_wait(), when it succeeds.
TryWait(t) ==
    /\ blocked[t] = "none"
    /\ count_ # 0
    /\ count_' = count_ - 1
    /\ UNCHANGED <<cv_, blocked, swallowed>>

\* Back from the condition variable, the count is looked at again.
WaitReturns(t) ==
    /\ t \in Woken
    /\ IF count_ = 0
       THEN /\ cv_' = cv_ \cup {t}
            /\ UNCHANGED <<count_, blocked>>
       ELSE /\ count_' = count_ - 1
            /\ blocked' = [blocked EXCEPT ![t] = "none"]
            /\ UNCHANGED cv_
    /\ UNCHANGED swallowed

\* A timed wait is over at its deadline.  A thread that had been woken by
\* then gives up all the same, without a look at the count.
TimesOut(t) ==
    /\ blocked[t] = "timed"
    /\ blocked' = [blocked EXCEPT ![t] = "none"]
    /\ cv_' = cv_ \ {t}
    /\ swallowed' = (swallowed \/ (t \notin cv_ /\ count_ > 0))
    /\ UNCHANGED count_

\* A wait may return without a notification.
WaitSpurious(t) ==
    /\ t \in cv_
    /\ cv_' = cv_ \ {t}
    /\ UNCHANGED <<count_, blocked, swallowed>>

SemaphoreNext == \E t \in Waiters :
    \/ Notify(t) \/ TryWait(t) \/ \E fn \in {"wait", "timed"} : Wait(t, fn)
    \/ WaitReturns(t) \/ TimesOut(t) \/ WaitSpurious(t)

SemaphoreSpec == SemaphoreInit /\ [][SemaphoreNext]_semaphoreVars

-----------------------------------------------------------------------------
(* Properties.                                                             *)

\* While a thread sleeps, as many others are awake as there is to take: one
\* notify_one() per notify() is enough, although try_wait() and new waits
\* may come first.  Excepted is what follows a timed wait that was woken and
\* reported a timeout: its notification is used up, and a thread may sleep
\* on with a positive count.
NotifyWakesEnough == cv_ # {} => Cardinality(Woken) >= count_ \/ swallowed
=============================================================================
