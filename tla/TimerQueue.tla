----------------------------- MODULE TimerQueue -----------------------------
(***************************************************************************)
(* nutty::TimerQueue and Timer (nutty/base/TimerQueue.cpp, Timer.h,        *)
(* Timer.cpp): the timers of one EventLoop, kept in a multimap ordered by  *)
(* expiration, behind one timerfd armed for the earliest of them.          *)
(*                                                                         *)
(* add and cancel run in place on the loop's thread and are queued on the  *)
(* loop from any other thread (runInLoop; the queue is a serial executor,  *)
(* see SerialExecutor).  Timer callbacks are open between two steps, so    *)
(* that they may add and cancel timers and so that time passes in them.    *)
(***************************************************************************)
EXTENDS Integers, Sequences

CONSTANTS
    Timers,      \* the Timer objects, each added at most once
    Times,       \* expirations that callers ask for
    Intervals,   \* repeat intervals that callers ask for; 0 does not repeat
    MaxTime,     \* the clock stops here
    Garbage      \* what the it_interval that resetTimer() leaves
                 \* uninitialised can hold: "none" (zero), "periodic" (a valid
                 \* interval) or "invalid" (rejected with EINVAL)

ASSUME TimesAssumption == Times \subseteq Nat \ {0}
ASSUME IntervalsAssumption == Intervals \subseteq Nat
ASSUME MaxTimeAssumption == MaxTime \in Nat
ASSUME GarbageAssumption == Garbage \subseteq {"none", "periodic", "invalid"}

VARIABLES
    now,                    \* steady_clock
    timers_,                \* the multimap: a set of <<key, timer>>
    callingExpiredTimers_,
    cancelingTimers_,
    expiration_,            \* of each timer
    interval_,              \* of each timer
    expired,                \* local vector of handleRead()
    torun,                  \* those of them whose callback has not begun
    sampled,                \* local now of handleRead()
    requests,               \* calls queued on the loop by other threads
    armed,                  \* next expiry of the timerfd, 0 when disarmed
    periodic,               \* the timerfd has a non-zero it_interval
    readable,               \* it has expired and has not been read
    reported,               \* poll() has put its watcher in activeWatchers_
    pc,                     \* where the loop's thread is
    created, added, cancelled, fired   \* histories, sets of timers

queueVars == <<timers_, callingExpiredTimers_, cancelingTimers_, expiration_,
               expired, torun, sampled>>
fdVars == <<armed, periodic, readable>>
histVars == <<created, added, cancelled, fired>>
vars == <<now, queueVars, interval_, requests, fdVars, reported, pc, histVars>>

(***************************************************************************)
(* pc: "idle" anywhere outside handleRead(); "read" after it has looked at *)
(* the clock; "batch" between two callbacks; "cb" inside one.              *)
(***************************************************************************)
Init ==
    /\ now = 1
    /\ timers_ = {}
    /\ callingExpiredTimers_ = FALSE
    /\ cancelingTimers_ = {}
    /\ expiration_ = [t \in Timers |-> 1]
    /\ interval_ = [t \in Timers |-> 0]
    /\ expired = {}
    /\ torun = {}
    /\ sampled = 0
    /\ requests = <<>>
    /\ armed = 0
    /\ periodic = FALSE
    /\ readable = FALSE
    /\ reported = FALSE
    /\ pc = "idle"
    /\ created = {}
    /\ added = {}
    /\ cancelled = {}
    /\ fired = {}

-----------------------------------------------------------------------------
(* The timerfd.                                                            *)

\* resetTimer(): settime() replaces the setting and forgets an unread
\* expiry; a time of zero disarms.  If the uninitialised interval is invalid
\* the call fails, which is ignored, and nothing changes.
ResetTimer(time) ==
    \/ /\ "none" \in Garbage
       /\ armed' = time
       /\ periodic' = FALSE
       /\ readable' = FALSE
    \/ /\ "periodic" \in Garbage
       /\ armed' = time
       /\ periodic' = TRUE
       /\ readable' = FALSE
    \/ /\ "invalid" \in Garbage
       /\ UNCHANGED fdVars

\* The kernel: the descriptor becomes readable at its time; an interval arms
\* it again, here for the next tick.
TimerfdExpires ==
    /\ armed # 0
    /\ armed <= now
    /\ readable' = TRUE
    /\ armed' = IF periodic THEN now + 1 ELSE 0
    /\ UNCHANGED <<now, queueVars, interval_, requests, periodic, reported, pc,
                   histVars>>

Tick ==
    /\ now < MaxTime
    /\ now' = now + 1
    /\ UNCHANGED <<queueVars, interval_, requests, fdVars, reported, pc, histVars>>

-----------------------------------------------------------------------------
(* Adding and cancelling.                                                  *)

\* Mutant: only the timer of an empty queue is the first one.
IsOnly(time) == timers_ = {}

\* A new timer is the first one only if it is earlier than every other (the
\* multimap keeps equal keys in the order of insertion).
IsFirst(time) == \A entry \in timers_ : time < entry[1]

\* addTimerInLoop(): the timerfd is set only for a new first timer.
AddTimerInLoop(t, time) ==
    /\ timers_' = timers_ \cup {<<time, t>>}
    /\ IF IsFirst(time)
       THEN ResetTimer(time)
       ELSE UNCHANGED fdVars
    /\ added' = added \cup {t}
    /\ UNCHANGED <<callingExpiredTimers_, cancelingTimers_, expired, torun,
                   sampled>>

\* cancelInLoop(): looks the timer up under its current expiration.
CancelInLoop(t) ==
    /\ IF <<expiration_[t], t>> \in timers_
       THEN /\ timers_' = timers_ \ {<<expiration_[t], t>>}
            /\ UNCHANGED cancelingTimers_
       ELSE /\ cancelingTimers_' = IF callingExpiredTimers_
                                   THEN cancelingTimers_ \cup {t}
                                   ELSE cancelingTimers_
            /\ UNCHANGED timers_
    /\ cancelled' = IF t \in added THEN cancelled \cup {t} ELSE cancelled
    /\ UNCHANGED <<callingExpiredTimers_, expiration_, expired, torun, sampled>>

\* The loop's thread runs user code in timer callbacks and, when idle, in
\* the callbacks of other watchers and in functors.
InUserCode == pc \in {"idle", "cb"}

\* addTimer() (runAt, runAfter, runEvery) on the loop's thread...
AddTimer(t, time, interval) ==
    /\ InUserCode
    /\ t \notin created
    /\ created' = created \cup {t}
    /\ expiration_' = [expiration_ EXCEPT ![t] = time]
    /\ interval_' = [interval_ EXCEPT ![t] = interval]
    /\ AddTimerInLoop(t, time)
    /\ UNCHANGED <<now, requests, reported, pc, cancelled, fired>>

\* ... and on any other.
AddTimerRemote(t, time, interval) ==
    /\ t \notin created
    /\ created' = created \cup {t}
    /\ expiration_' = [expiration_ EXCEPT ![t] = time]
    /\ interval_' = [interval_ EXCEPT ![t] = interval]
    /\ requests' = Append(requests, <<"add", t>>)
    /\ UNCHANGED <<now, timers_, callingExpiredTimers_, cancelingTimers_,
                   expired, torun, sampled, fdVars, reported, pc, added,
                   cancelled, fired>>

\* cancel() on the loop's thread, which overtakes whatever is queued...
Cancel(t) ==
    /\ InUserCode
    /\ t \in created
    /\ CancelInLoop(t)
    /\ UNCHANGED <<now, interval_, requests, fdVars, reported, pc, created, added,
                   fired>>

\* ... and on any other.  One request per timer bounds the queue.
CancelRemote(t) ==
    /\ t \in created
    /\ \A i \in 1..Len(requests) : requests[i] # <<"cancel", t>>
    /\ requests' = Append(requests, <<"cancel", t>>)
    /\ UNCHANGED <<now, queueVars, interval_, fdVars, reported, pc, histVars>>

\* The loop takes the next queued call from its pending functors, after all
\* the watchers that poll() reported.
RunRequest ==
    /\ pc = "idle"
    /\ ~reported
    /\ requests # <<>>
    /\ requests' = Tail(requests)
    /\ LET op == Head(requests)[1]
           t == Head(requests)[2]
       IN  \/ /\ op = "add"
              /\ AddTimerInLoop(t, expiration_[t])
              /\ UNCHANGED <<expiration_, cancelled>>
           \/ /\ op = "cancel"
              /\ CancelInLoop(t)
              /\ UNCHANGED <<fdVars, added>>
    /\ UNCHANGED <<now, interval_, reported, pc, created, fired>>

-----------------------------------------------------------------------------
(* handleRead().                                                           *)

\* poll() finds the timerfd readable.  Callbacks of other watchers may run,
\* and re-arm it, before its own is called.
PollReports ==
    /\ pc = "idle"
    /\ readable
    /\ reported' = TRUE
    /\ UNCHANGED <<now, queueVars, interval_, requests, fdVars, pc, histVars>>

\* handleRead() looks at the clock before it reads the descriptor.
HandleRead ==
    /\ pc = "idle"
    /\ reported
    /\ reported' = FALSE
    /\ sampled' = now
    /\ pc' = "read"
    /\ UNCHANGED <<now, timers_, callingExpiredTimers_, cancelingTimers_,
                   expiration_, expired, torun, interval_, requests, fdVars,
                   histVars>>

ExtractExpired ==
    /\ pc = "read"
    /\ readable' = FALSE
    /\ LET due == {entry \in timers_ : entry[1] <= sampled}
       IN  /\ timers_' = timers_ \ due
           /\ expired' = {entry[2] : entry \in due}
           /\ torun' = expired'
    /\ callingExpiredTimers_' = TRUE
    /\ cancelingTimers_' = {}
    /\ pc' = "batch"
    /\ UNCHANGED <<now, expiration_, sampled, interval_, requests, armed,
                   periodic, reported, histVars>>

\* One callback begins; the vector is in the order of the expirations.
RunTimer(t) ==
    /\ pc = "batch"
    /\ t \in torun
    /\ \A u \in torun : expiration_[t] <= expiration_[u]
    /\ torun' = torun \ {t}
    /\ fired' = fired \cup {t}
    /\ pc' = "cb"
    /\ UNCHANGED <<now, timers_, callingExpiredTimers_, cancelingTimers_,
                   expiration_, expired, sampled, interval_, requests, fdVars,
                   reported, created, added, cancelled>>

TimerReturns ==
    /\ pc = "cb"
    /\ pc' = "batch"
    /\ UNCHANGED <<now, queueVars, interval_, requests, fdVars, reported,
                   histVars>>

\* Mutant: what was cancelled while the batch ran is restarted too.
RestartedAll == {t \in expired : interval_[t] # 0}

\* The repeating timers of the batch that were not cancelled meanwhile.
Restarted == {t \in expired : interval_[t] # 0 /\ t \notin cancelingTimers_}

\* Their entries, under the expirations that restart() has given them.
Reinserted == {<<expiration_'[t], t>> : t \in Restarted}

\* Mutant: the timerfd is left disarmed after every batch.
Disarm == ResetTimer(0)

\* The timerfd is set for the first timer there is, or disarmed.
Rearm ==
    \/ timers_' = {} /\ ResetTimer(0)
    \/ \E first \in timers_' :
           /\ \A entry \in timers_' : first[1] <= entry[1]
           /\ ResetTimer(first[1])

\* The end of handleRead(): restart, reinsert, re-arm.
FinishBatch ==
    /\ pc = "batch"
    /\ torun = {}
    /\ callingExpiredTimers_' = FALSE
    /\ expiration_' = [t \in Timers |->
           IF t \in Restarted THEN expiration_[t] + interval_[t]
                              ELSE expiration_[t]]
    /\ timers_' = timers_ \cup Reinserted
    /\ Rearm
    /\ expired' = {}
    /\ pc' = "idle"
    /\ UNCHANGED <<now, cancelingTimers_, torun, sampled, interval_, requests,
                   reported, histVars>>

-----------------------------------------------------------------------------
UserCall ==
    \E t \in Timers :
        \/ \E time \in Times, interval \in Intervals :
               AddTimer(t, time, interval) \/ AddTimerRemote(t, time, interval)
        \/ Cancel(t) \/ CancelRemote(t)

LoopStep ==
    \/ PollReports \/ HandleRead \/ ExtractExpired
    \/ (\E t \in Timers : RunTimer(t)) \/ TimerReturns \/ FinishBatch

Next == UserCall \/ RunRequest \/ LoopStep \/ TimerfdExpires \/ Tick

Spec == Init /\ [][Next]_vars

\* Time passes, the timerfd expires when due, the loop handles a readable
\* timerfd, callbacks return, and queued calls get their turn in every
\* iteration of the loop, however often timers fire in between.
Fairness ==
    /\ WF_vars(Tick) /\ WF_vars(TimerfdExpires)
    /\ WF_vars(LoopStep) /\ SF_vars(RunRequest)

FairSpec == Spec /\ Fairness

-----------------------------------------------------------------------------
(* Properties.                                                             *)

TypeOK ==
    /\ now \in Nat
    /\ timers_ \subseteq (Nat \ {0}) \X created
    /\ callingExpiredTimers_ \in BOOLEAN
    /\ cancelingTimers_ \subseteq Timers
    /\ expiration_ \in [Timers -> Nat \ {0}]
    /\ interval_ \in [Timers -> Nat]
    /\ expired \subseteq created
    /\ torun \subseteq expired
    /\ sampled \in Nat
    /\ requests \in Seq({"add", "cancel"} \X created)
    /\ armed \in Nat
    /\ periodic \in BOOLEAN
    /\ readable \in BOOLEAN
    /\ reported \in BOOLEAN
    /\ pc \in {"idle", "read", "batch", "cb"}
    /\ created \subseteq Timers
    /\ added \subseteq created
    /\ cancelled \subseteq created
    /\ fired \subseteq created

\* Every entry of the multimap is filed under its timer's expiration:
\* restart() changes expiration_ only while the timer is out of the map.
\* cancelInLoop() relies on it to find the timer.
KeysMatch == \A entry \in timers_ : entry[1] = expiration_[entry[2]]

\* Outside handleRead(), the timerfd is readable or armed no later than the
\* earliest timer, whatever was added, cancelled or restarted in between
\* (addTimerInLoop re-arms only for a new first timer, cancelInLoop never).
ArmedInTime ==
    pc = "idle" =>
        \A entry \in timers_ : readable \/ (armed # 0 /\ armed <= entry[1])

\* A cancellation that was carried out is final: the timer is out of the
\* multimap, and if the batch being run had already extracted it, the end of
\* that batch will not put it back (cancelInLoop, cancelingTimers_).
CancelSticks ==
    \A t \in cancelled :
        /\ \A entry \in timers_ : entry[2] # t
        /\ t \in expired /\ interval_[t] # 0 => t \in cancelingTimers_

\* Every timer asked for runs, unless its cancellation is carried out, and a
\* repeating one runs at each of its expirations the clock reaches.
TimersFire ==
    \A t \in Timers :
        (t \in created) ~>
            \/ t \in cancelled
            \/ t \in fired /\ (interval_[t] = 0 \/ expiration_[t] > MaxTime)
=============================================================================
