----------------------------- MODULE EventLoop -----------------------------
(***************************************************************************)
(* nutty::EventLoop (nutty/base/EventLoop.h, EventLoop.cpp): the reactor.  *)
(* One thread runs loop(); any thread may hand it work with queueInLoop()  *)
(* or stop it with quit().  The thread blocks in poll() and is woken       *)
(* through an eventfd.                                                     *)
(*                                                                         *)
(* Steps are as fine as the code's synchronisation: the push under mutex_  *)
(* and the eventfd write that follows it are two steps of the calling      *)
(* thread, and every callback the loop runs is open between two steps, so  *)
(* that the callback itself may call queueInLoop(), runInLoop() or quit(). *)
(***************************************************************************)
EXTENDS Integers, Sequences, Functions

CONSTANTS
    LoopThread,   \* the thread whose tid is threadId_
    Callers,      \* every other thread that holds a pointer to the loop
    Functors,     \* the callbacks handed to the loop, each of them once
    IoWatchers,   \* the registered watchers other than wakeupWatcher_
    MaxEventfd    \* largest eventfd counter (2^64 - 2 in the kernel)

ASSUME ThreadAssumption == LoopThread \notin Callers
ASSUME EventfdAssumption == MaxEventfd \in Nat \ {0}

Threads == Callers \cup {LoopThread}

wakeupWatcher == "wakeupWatcher_"
Watchers == IoWatchers \cup {wakeupWatcher}

ASSUME WatcherAssumption == wakeupWatcher \notin IoWatchers

VARIABLES
    quit_,
    callingPendingFunctors_,
    pendingFunctors_,   \* guarded by mutex_
    functors,           \* the local vector of doPendingFunctors()
    activeWatchers_,    \* reported by poll(), not yet handled
    wakeupFd_,          \* counter of the eventfd
    pc,                 \* where the loop thread is
    waking,             \* threads that still have their wakeup() to do
    submitted,          \* history: functors in the order of their push
    executed,           \* history: queued functors in the order they ran
    inlined,            \* history: functors runInLoop() ran in place
    early               \* history: pushed by the owner outside loop()

loopVars == <<quit_, callingPendingFunctors_, pendingFunctors_, functors,
              activeWatchers_, wakeupFd_, pc, waking>>
histVars == <<submitted, executed, inlined, early>>
vars == <<loopVars, histVars>>

(***************************************************************************)
(* pc: "outside" loop(); at the test of "while"; blocked in "poll"; going  *)
(* through activeWatchers_ ("handle") and inside a watcher's callback      *)
(* ("iocb"); going through functors ("run") and inside a functor ("cb").   *)
(***************************************************************************)
Control == {"outside", "while", "poll", "handle", "iocb", "run", "cb"}

Init ==
    /\ quit_ = FALSE
    /\ callingPendingFunctors_ = FALSE
    /\ pendingFunctors_ = <<>>
    /\ functors = <<>>
    /\ activeWatchers_ = {}
    /\ wakeupFd_ = 0
    /\ pc = "outside"
    /\ waking = {}
    /\ submitted = <<>>
    /\ executed = <<>>
    /\ inlined = {}
    /\ early = {}

-----------------------------------------------------------------------------
(* Calls into the loop.                                                    *)

\* The loop thread runs user code outside loop() and inside callbacks; a
\* thread that still owes its wakeup() is inside queueInLoop() or quit().
CanCall(t) ==
    /\ t \notin waking
    /\ t = LoopThread => pc \in {"outside", "iocb", "cb"}

Fresh(f) == f \notin Range(submitted) \cup inlined

\* Mutant: only other threads wake the loop after a push.
NeedsWakeupForeign(t) == t # LoopThread

\* After a push, the loop must be woken unless it is going to look at the
\* queue by itself, before it polls again.
NeedsWakeup(t) == t # LoopThread \/ callingPendingFunctors_

\* Mutant: a functor queued while a batch runs joins the batch.
QueueInBatch(t, f) ==
    /\ CanCall(t)
    /\ Fresh(f)
    /\ IF callingPendingFunctors_
       THEN functors' = Append(functors, f) /\ UNCHANGED pendingFunctors_
       ELSE pendingFunctors_' = Append(pendingFunctors_, f)
            /\ UNCHANGED functors
    /\ submitted' = Append(submitted, f)
    /\ UNCHANGED <<quit_, callingPendingFunctors_, activeWatchers_, wakeupFd_,
                   pc, waking, executed, inlined, early>>

\* queueInLoop() up to its wakeup(): the push, and the test that follows it.
QueueInLoop(t, f) ==
    /\ CanCall(t)
    /\ Fresh(f)
    /\ pendingFunctors_' = Append(pendingFunctors_, f)
    /\ submitted' = Append(submitted, f)
    /\ waking' = IF NeedsWakeup(t) THEN waking \cup {t} ELSE waking
    /\ early' = IF t = LoopThread /\ pc = "outside"
                THEN early \cup {f}
                ELSE early
    /\ UNCHANGED <<quit_, callingPendingFunctors_, functors, activeWatchers_,
                   wakeupFd_, pc, executed, inlined>>

\* runInLoop() on the loop's own thread calls the functor in place; on any
\* other thread it is queueInLoop().
RunInLoop(t, f) ==
    \/ /\ t = LoopThread
       /\ CanCall(t)
       /\ Fresh(f)
       /\ inlined' = inlined \cup {f}
       /\ UNCHANGED <<loopVars, submitted, executed, early>>
    \/ /\ t # LoopThread
       /\ QueueInLoop(t, f)

\* wakeup(): the eventfd is non-blocking, a write to a full counter fails
\* and the failure is ignored.
Wakeup(t) ==
    /\ t \in waking
    /\ waking' = waking \ {t}
    /\ wakeupFd_' = IF wakeupFd_ < MaxEventfd THEN wakeupFd_ + 1 ELSE wakeupFd_
    /\ UNCHANGED <<quit_, callingPendingFunctors_, pendingFunctors_, functors,
                   activeWatchers_, pc, histVars>>

\* Mutant: quit() wakes nobody.
QuitSilently(t) ==
    /\ CanCall(t)
    /\ quit_' = TRUE
    /\ UNCHANGED <<callingPendingFunctors_, pendingFunctors_, functors,
                   activeWatchers_, wakeupFd_, pc, waking, histVars>>

\* quit() up to its wakeup().
Quit(t) ==
    /\ CanCall(t)
    /\ quit_' = TRUE
    /\ waking' = IF t # LoopThread THEN waking \cup {t} ELSE waking
    /\ UNCHANGED <<callingPendingFunctors_, pendingFunctors_, functors,
                   activeWatchers_, wakeupFd_, pc, histVars>>

-----------------------------------------------------------------------------
(* loop().                                                                 *)

\* Entering loop() forgets any quit() made so far.
LoopEnter ==
    /\ pc = "outside"
    /\ LoopThread \notin waking
    /\ quit_' = FALSE
    /\ pc' = "while"
    /\ UNCHANGED <<callingPendingFunctors_, pendingFunctors_, functors,
                   activeWatchers_, wakeupFd_, waking, histVars>>

LoopExit ==
    /\ pc = "while"
    /\ quit_
    /\ pc' = "outside"
    /\ UNCHANGED <<quit_, callingPendingFunctors_, pendingFunctors_, functors,
                   activeWatchers_, wakeupFd_, waking, histVars>>

LoopPoll ==
    /\ pc = "while"
    /\ ~quit_
    /\ activeWatchers_' = {}
    /\ pc' = "poll"
    /\ UNCHANGED <<quit_, callingPendingFunctors_, pendingFunctors_, functors,
                   wakeupFd_, waking, histVars>>

\* poll() returns some of the ready watchers: the eventfd is ready exactly
\* when its counter is positive (level-triggered); others are ready at will.
PollReady(ready) ==
    /\ pc = "poll"
    /\ ready # {}
    /\ wakeupWatcher \in ready => wakeupFd_ > 0
    /\ activeWatchers_' = ready
    /\ pc' = "handle"
    /\ UNCHANGED <<quit_, callingPendingFunctors_, pendingFunctors_, functors,
                   wakeupFd_, waking, histVars>>

\* poll() returns nothing: kPollTime has passed with no watcher ready, or a
\* signal interrupted it.
PollIdle ==
    /\ pc = "poll"
    /\ pc' = "handle"
    /\ UNCHANGED <<quit_, callingPendingFunctors_, pendingFunctors_, functors,
                   activeWatchers_, wakeupFd_, waking, histVars>>

\* handleEvents() of wakeupWatcher_: handleWakeup() reads the counter, which
\* sets it to zero.
HandleWakeup ==
    /\ pc = "handle"
    /\ wakeupWatcher \in activeWatchers_
    /\ wakeupFd_' = 0
    /\ activeWatchers_' = activeWatchers_ \ {wakeupWatcher}
    /\ UNCHANGED <<quit_, callingPendingFunctors_, pendingFunctors_, functors,
                   pc, waking, histVars>>

\* handleEvents() of any other watcher calls user code.
HandleEvents(w) ==
    /\ pc = "handle"
    /\ w \in activeWatchers_ \ {wakeupWatcher}
    /\ activeWatchers_' = activeWatchers_ \ {w}
    /\ pc' = "iocb"
    /\ UNCHANGED <<quit_, callingPendingFunctors_, pendingFunctors_, functors,
                   wakeupFd_, waking, histVars>>

EventsReturn ==
    /\ pc = "iocb"
    /\ LoopThread \notin waking
    /\ pc' = "handle"
    /\ UNCHANGED <<quit_, callingPendingFunctors_, pendingFunctors_, functors,
                   activeWatchers_, wakeupFd_, waking, histVars>>

-----------------------------------------------------------------------------
(* doPendingFunctors().                                                    *)

\* Mutant: the batch is copied, not swapped.
CopyPendingFunctors ==
    /\ pc = "handle"
    /\ activeWatchers_ = {}
    /\ callingPendingFunctors_' = TRUE
    /\ functors' = pendingFunctors_
    /\ pc' = "run"
    /\ UNCHANGED <<quit_, pendingFunctors_, activeWatchers_, wakeupFd_, waking,
                   histVars>>

\* The flag is read by this thread only, so setting it and the swap under
\* mutex_ are one step.
DoPendingFunctors ==
    /\ pc = "handle"
    /\ activeWatchers_ = {}
    /\ callingPendingFunctors_' = TRUE
    /\ functors' = pendingFunctors_
    /\ pendingFunctors_' = <<>>
    /\ pc' = "run"
    /\ UNCHANGED <<quit_, activeWatchers_, wakeupFd_, waking, histVars>>

RunFunctor ==
    /\ pc = "run"
    /\ functors # <<>>
    /\ executed' = Append(executed, Head(functors))
    /\ functors' = Tail(functors)
    /\ pc' = "cb"
    /\ UNCHANGED <<quit_, callingPendingFunctors_, pendingFunctors_,
                   activeWatchers_, wakeupFd_, waking, submitted, inlined,
                   early>>

FunctorReturn ==
    /\ pc = "cb"
    /\ LoopThread \notin waking
    /\ pc' = "run"
    /\ UNCHANGED <<quit_, callingPendingFunctors_, pendingFunctors_, functors,
                   activeWatchers_, wakeupFd_, waking, histVars>>

PendingDone ==
    /\ pc = "run"
    /\ functors = <<>>
    /\ callingPendingFunctors_' = FALSE
    /\ pc' = "while"
    /\ UNCHANGED <<quit_, pendingFunctors_, functors, activeWatchers_,
                   wakeupFd_, waking, histVars>>

-----------------------------------------------------------------------------
Call == \E t \in Threads :
    \/ \E f \in Functors : QueueInLoop(t, f) \/ RunInLoop(t, f)
    \/ Quit(t)
    \/ Wakeup(t)

Poll == PollIdle \/ \E ready \in SUBSET Watchers : PollReady(ready)

Body ==
    \/ LoopExit \/ LoopPoll
    \/ HandleWakeup \/ (\E w \in IoWatchers : HandleEvents(w)) \/ EventsReturn
    \/ DoPendingFunctors \/ RunFunctor \/ FunctorReturn \/ PendingDone

Next == Call \/ LoopEnter \/ Poll \/ Body

\* The loop thread is scheduled and callbacks return; a thread that has
\* pushed or set quit_ gets to its write; poll() returns when the eventfd is
\* readable.  Nothing is assumed of kPollTime or of other descriptors.
Fairness ==
    /\ WF_vars(Body)
    /\ \A t \in Threads : WF_vars(Wakeup(t))
    /\ WF_vars(wakeupFd_ > 0 /\ \E ready \in SUBSET Watchers : PollReady(ready))

Spec == Init /\ [][Next]_vars
FairSpec == Spec /\ Fairness

-----------------------------------------------------------------------------
(* Properties.                                                             *)

TypeOK ==
    /\ quit_ \in BOOLEAN
    /\ callingPendingFunctors_ \in BOOLEAN
    /\ pendingFunctors_ \in Seq(Functors)
    /\ functors \in Seq(Functors)
    /\ activeWatchers_ \subseteq Watchers
    /\ wakeupFd_ \in 0..MaxEventfd
    /\ pc \in Control
    /\ waking \subseteq Threads
    /\ submitted \in Seq(Functors)
    /\ executed \in Seq(Functors)
    /\ inlined \subseteq Functors
    /\ early \subseteq Functors

\* Work handed to the loop is neither lost, nor repeated, nor reordered,
\* whatever threads push while a batch is swapped out and run: what was
\* pushed is what ran, then the rest of the batch, then the queue
\* (queueInLoop, doPendingFunctors).
ExactlyOnceFifo == submitted = executed \o functors \o pendingFunctors_

WakeupComing == wakeupFd_ > 0 \/ waking # {}

\* The loop thread never blocks in poll() on work or a quit it has not been
\* told of: the eventfd is readable or some thread is about to write it.
\* Excepted are functors the owner queued before entering loop(), for which
\* queueInLoop() makes no wakeup.
NoLostWakeup ==
    pc = "poll" =>
        \/ ~quit_ /\ Range(pendingFunctors_) \subseteq early
        \/ WakeupComing

\* What the detailed loop promises its callers, as a specification: a serial
\* executor whose queue is the batch being run followed by the pending one.
Executor == INSTANCE SerialExecutor WITH
    queue <- functors \o pendingFunctors_,
    done <- executed

\* Every step of the threads, the poller and the batches is a step of that
\* executor, or invisible to it (EventLoop implements SerialExecutor).
ImplementsExecutor == Executor!Spec

\* A batch never grows while it runs: what a functor queues waits for the
\* next iteration, so that I/O is polled in between (doPendingFunctors works
\* on a local vector).
BatchOnlyShrinks ==
    [][callingPendingFunctors_ /\ callingPendingFunctors_' =>
           Len(functors') <= Len(functors)]_vars

\* A functor queued from another thread, or by a callback, runs without
\* waiting for a poll timeout or for unrelated I/O, unless the loop is left;
\* and once quit_ is set inside loop(), the loop returns (queueInLoop, quit).
LoopResponds ==
    /\ \A f \in Functors :
           (f \in Range(pendingFunctors_) \ early) ~>
               (f \in Range(executed) \/ pc = "outside")
    /\ (quit_ /\ pc # "outside") ~> (pc = "outside")
=============================================================================
